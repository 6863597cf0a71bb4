------------------------------ MODULE Machine ------------------------------
(***************************************************************************)
(* The virtual machine: Runtime::interpret and the calls it makes, one     *)
(* action per operation code or group of them.  A host runs the programs   *)
(* of a session one after the other in one runtime, so that globals,       *)
(* functions, and whatever an error leaves on the stack stay.  Counting    *)
(* references and unsharing are left out: a list is a value, as module     *)
(* Values shows it to be.                                                  *)
(***************************************************************************)
EXTENDS Data, SequencesExt

CONSTANTS Sessions,     \* names of the sessions
          Programs(_),  \* how many programs a session has
          Module(_, _)  \* what the compiler has made of the i-th program of a session

VARIABLES
    store,      \* the memory: see EmptyStore
    frames,     \* the call frames
    running,    \* the closures of the activations of interpret, innermost last
    ip,         \* the next word of the code of the innermost one
    output,     \* what has been printed, and how every program ended
    modules,    \* the programs that were started, compiled
    session     \* the session they are of

vars == <<store, frames, running, ip, output, modules, session>>

\* A closure of module 0 is native.
Native == [module |-> 0, routine |-> 0, upvalues |-> <<>>, arity |-> 2, ref_flags |-> {0}]
append == [closures |-> <<1>>, ref_flags |-> {0}, max_argc |-> 2]

EmptyStore ==
    [stack |-> <<>>, boxes |-> <<>>, functions |-> <<append>>, closures |-> <<Native>>,
     iterators |-> <<>>,
     globals |-> [name \in {"Object", "append"} |->
                     IF name = "Object" THEN ClassOf("Object") ELSE FunctionAt(1)],
     failed |-> FALSE]

Init ==
    /\ store = EmptyStore
    /\ frames = <<>> /\ running = <<>> /\ ip = 0 /\ output = <<>>
    /\ modules = <<>> /\ session \in Sessions

-----------------------------------------------------------------------------
(* Memory.  A place is where a variant is: in the stack, in the globals,   *)
(* among the upvalues of a closure, or in a box.                           *)

Fail(s) == [s EXCEPT !.failed = TRUE]

push(s, v) == [s EXCEPT !.stack = Append(@, v)]
pop(s, n) == [s EXCEPT !.stack = SubSeq(@, 1, Len(@) - n)]
peek(s, n) == s.stack[Len(s.stack) + 1 - n]

Read(s, place) ==
    CASE place[1] = "stack" -> s.stack[place[2]]
      [] place[1] = "global" -> s.globals[place[2]]
      [] place[1] = "upvalue" -> s.closures[place[2]].upvalues[place[3]]
      [] place[1] = "box" -> s.boxes[place[2]]
Write(s, place, v) ==
    CASE place[1] = "stack" -> [s EXCEPT !.stack[place[2]] = v]
      [] place[1] = "global" -> [s EXCEPT !.globals[place[2]] = v]
      [] place[1] = "upvalue" -> [s EXCEPT !.closures[place[2]].upvalues[place[3]] = v]
      [] place[1] = "box" -> [s EXCEPT !.boxes[place[2]] = v]

RECURSIVE Resolved(_, _)
Resolved(s, place) ==
    IF Is("box", Read(s, place)) THEN Resolved(s, Read(s, place)) ELSE place
RECURSIVE resolve_value(_, _)
resolve_value(s, v) == IF Is("box", v) THEN resolve_value(s, Read(s, v)) ELSE v
resolved_peek(s, n) == resolve_value(s, peek(s, n))

\* Mutant of make_alias: the variable is read, and not shared.
make_alias_copy(s, place) == s

make_alias(s, place) ==
    IF Is("box", Read(s, place)) THEN s
    ELSE Write([s EXCEPT !.boxes = Append(@, Read(s, place))], place,
               BoxAt(Len(s.boxes) + 1))

RECURSIVE Shown(_, _)
Shown(s, v) ==
    CASE Is("box", v) -> Shown(s, Read(s, v))
      [] Is("list", v) -> ListOf([i \in DOMAIN v[2] |-> Shown(s, v[2][i])])
      [] Is("fun", v) -> <<"fun">>
      [] OTHER -> v

-----------------------------------------------------------------------------
(* Functions.  All parameters have the class Object, so that an overload   *)
(* is chosen by the number of arguments.                                   *)

Arity(s, c) == s.closures[c].arity

add_closure(s, f, c) ==
    LET function == s.functions[f]
        closures == function.closures
        new == s.closures[c]
        shorter == {i \in DOMAIN closures : Arity(s, closures[i]) <= new.arity}
        at == Cardinality(shorter) + 1
        consistent == \A i \in 0..(Min({function.max_argc, new.arity}) - 1) :
                          i \in new.ref_flags <=> i \in function.ref_flags
        longer == new.arity > function.max_argc
    IN  IF s.failed \/ \E i \in DOMAIN closures : closures[i] = c THEN s
        ELSE IF ~consistent \/ \E i \in DOMAIN closures : Arity(s, closures[i]) = new.arity
        THEN Fail(s)
        ELSE [s EXCEPT !.functions[f] =
                [closures |-> InsertAt(closures, at, c),
                 ref_flags |-> IF longer THEN new.ref_flags ELSE @.ref_flags,
                 max_argc |-> IF longer THEN new.arity ELSE @.max_argc]]

\* The closure that takes n arguments, or 0.
find_closure(s, f, n) ==
    LET fitting == {c \in Range(s.functions[f].closures) : Arity(s, c) = n}
    IN  IF fitting = {} THEN 0 ELSE Max(fitting)

\* A function that is assigned to a function adds its closures to it.
assign(s, place, v) ==
    LET target == Resolved(s, place)
        old == Read(s, target)
        new == resolve_value(s, v)
    IN  IF Is("fun", old) /\ Is("fun", new)
        THEN IF old = new THEN s
             ELSE FoldLeft(LAMBDA t, c : add_closure(t, old[2], c), s,
                           s.functions[new[2]].closures)
        ELSE Write(s, target, v)

-----------------------------------------------------------------------------
(* Code.                                                                   *)

current_closure == store.closures[Last(running)]
Routines(m) == modules[m].routines
routine == Routines(current_closure.module)[current_closure.routine]
code == routine.code
Running == running # <<>>
Op == code[ip]
Operand(i) == code[ip + i]

current_frame == Last(frames)
Local(i) == <<"stack", current_frame.locals + i + 1>>
Upvalue(i) == <<"upvalue", Last(running), i + 1>>
Global(name) == <<"global", name>>

Show(values) == output' = output \o values

\* An error leaves every activation of interpret; frames and stack stay.
UnwindShowing(s, values) ==
    /\ store' = [s EXCEPT !.failed = FALSE] /\ running' = <<>> /\ ip' = 0
    /\ Show(Append(values, <<"error">>)) /\ UNCHANGED <<frames, modules, session>>
Unwind(s) == UnwindShowing(s, <<>>)

\* The operation makes the memory s, and goes on at the address; or it fails.
Goto(address, s) ==
    /\ store' = s /\ ip' = address
    /\ UNCHANGED <<frames, running, output, modules, session>>
Continue(words, s) == Goto(ip + words, s)
Attempt(words, s) ==
    \E t \in {s} :
        \/ t.failed /\ Unwind(t)
        \/ ~t.failed /\ Continue(words, t)
Takes(ops) == Running /\ Op \in ops

-----------------------------------------------------------------------------
(* Constants and variables.                                                *)

Push ==
    /\ Takes({"PushNull", "PushBoolean", "PushSmallInt", "PushString"})
    /\ CASE Op = "PushNull" -> Continue(1, push(store, Null))
         [] Op = "PushBoolean" -> Continue(2, push(store, Boolean(Operand(1) = 1)))
         [] Op = "PushSmallInt" -> Continue(2, push(store, Number(Operand(1))))
         [] Op = "PushString" -> Continue(2, push(store, Text(<<<<"text", Operand(1)>>>>)))

Pop == Takes({"Pop"}) /\ Continue(1, pop(store, 1))

LocalOps == {"GetLocal", "GetLocalArg", "GetLocalRef", "GetUniqueLocal", "SetLocal"}
UpvalueOps == {"GetUpvalue", "GetUpvalueArg", "GetUpvalueRef", "GetUniqueUpvalue", "SetUpvalue"}
Place ==
    CASE Op \in LocalOps -> Local(Operand(1))
      [] Op \in UpvalueOps -> Upvalue(Operand(1))
      [] OTHER -> Global(Operand(1))
Undefined == Place[1] = "global" /\ Place[2] \notin DOMAIN store.globals

PushResolved == push(store, resolve_value(store, Read(store, Place)))
PushAlias == LET s == make_alias(store, Place) IN push(s, Read(s, Place))

GetVariable ==
    /\ Takes({"GetLocal", "GetUpvalue", "GetGlobal"})
    /\ Attempt(2, IF Undefined THEN Fail(store) ELSE PushResolved)

\* By reference if the function of the latest Precall says so.
GetArgument ==
    /\ Takes({"GetLocalArg", "GetUpvalueArg", "GetGlobalArg"})
    /\ Attempt(3, IF Undefined THEN Fail(store)
                   ELSE IF Operand(2) \in current_frame.ref_flags THEN PushAlias
                   ELSE PushResolved)

GetReference ==
    /\ Takes({"GetLocalRef", "GetUpvalueRef", "GetGlobalRef"})
    /\ Attempt(2, IF Undefined THEN Fail(store) ELSE PushAlias)

\* An alias is pushed as it is, and a list as a copy.
GetUnique ==
    /\ Takes({"GetUniqueLocal", "GetUniqueUpvalue", "GetUniqueGlobal"})
    /\ Attempt(2, IF Undefined THEN Fail(store) ELSE push(store, Read(store, Place)))

\* Only a function may become a new global variable.
SetVariable ==
    /\ Takes({"SetLocal", "SetUpvalue", "SetGlobal"})
    /\ LET v == peek(store, 1)
           defined == [store EXCEPT !.globals = @ @@ (Operand(1) :> v)]
       IN  Attempt(2, IF Undefined
                       THEN IF Is("fun", resolve_value(store, v)) THEN pop(defined, 1)
                            ELSE Fail(store)
                       ELSE pop(assign(store, Place, v), 1))

DefineLocal ==
    /\ Takes({"DefineLocal"})
    /\ Attempt(2, pop(assign(store, Local(Operand(1)), peek(store, 1)), 1))

DefineGlobal ==
    /\ Takes({"DefineGlobal"})
    /\ Attempt(2, IF Operand(1) \in DOMAIN store.globals THEN Fail(store)
                   ELSE pop([store EXCEPT !.globals = @ @@ (Operand(1) :> peek(store, 1))], 1))

\* Mutant of ClearLocal: what the alias refers to is cleared.
ClearLocal_shared ==
    /\ Takes({"ClearLocal"})
    /\ Continue(2, Write(store, Resolved(store, Local(Operand(1))), Null))

\* The variable is cut off from its alias.
ClearLocal ==
    /\ Takes({"ClearLocal"})
    /\ Continue(2, Write(store, Local(Operand(1)), Null))

\* Of a variable that holds no integer the outcome is undefined: no step.
CountLocal ==
    /\ Takes({"IncrementLocal", "DecrementLocal"})
    /\ LET v == Read(store, Local(Operand(1)))
           d == IF Op = "IncrementLocal" THEN 1 ELSE -1
       IN  /\ Is("int", v)
           /\ Continue(2, Write(store, Local(Operand(1)), Number(Wrap(v[2] + d))))

-----------------------------------------------------------------------------
(* Operators, lists and iterators.                                         *)

Result(s, n, v) == IF v = Error THEN Fail(s) ELSE push(pop(s, n), v)

BinaryOps == {"Add", "Subtract", "Multiply", "Equal", "NotEqual", "Less", "LessEqual",
              "Greater", "GreaterEqual"}
BinaryOperator ==
    /\ Takes(BinaryOps)
    /\ Attempt(1, Result(store, 2, Apply(Op, resolved_peek(store, 2), resolved_peek(store, 1))))

\* The operand of a negation is not resolved.
UnaryOperator ==
    /\ Takes({"Not", "Negate"})
    /\ Attempt(1, Result(store, 1,
           IF Op = "Not" THEN Boolean(~to_boolean(resolved_peek(store, 1)))
           ELSE negate(peek(store, 1))))

Topmost(n) == [i \in 1..n |-> peek(store, n + 1 - i)]

ShownTopmost == [i \in 1..Operand(1) |-> Shown(store, Topmost(Operand(1))[i])]

ConcatStrings ==
    /\ Takes({"Concat"})
    /\ LET text == Text(FlattenSeq([i \in 1..Operand(1) |-> Parts(ShownTopmost[i])]))
       IN  Attempt(2, IF Showable(ShownTopmost) # ShownTopmost THEN Fail(store)
                       ELSE push(pop(store, Operand(1)), text))

NewList ==
    /\ Takes({"NewList"})
    /\ Continue(2, push(pop(store, Operand(1)), ListOf(Topmost(Operand(1)))))

\* A reference to an item is not part of this model.
get_index ==
    /\ Takes({"GetIndex", "GetIndexArg"})
    /\ LET words == IF Op = "GetIndex" THEN 2 ELSE 3
           by_ref == Op = "GetIndexArg" /\ Operand(2) \in current_frame.ref_flags
           item == Item(resolved_peek(store, 2), resolved_peek(store, 1))
       IN  Attempt(words, IF Operand(1) > 1 \/ by_ref \/ item = Error THEN Fail(store)
                           ELSE push(pop(store, 2), resolve_value(store, item)))

\* The list that changes is the one on the stack: unless this is an alias, the
\* variable does not see it.
set_index ==
    /\ Takes({"SetIndex"})
    /\ LET list == resolved_peek(store, 3)
           index == resolved_peek(store, 2)
           place == <<"stack", Len(store.stack) - 2>>
           changed == [list EXCEPT ![2][to_base1(list[2], index[2])] = resolved_peek(store, 1)]
       IN  Attempt(2, IF Operand(1) > 1 \/ Item(list, index) = Error THEN Fail(store)
                       ELSE pop(Write(store, Resolved(store, place), changed), 3))

NewIterator ==
    /\ Takes({"NewIterator"})
    /\ LET v == peek(store, 1)
           made == [store EXCEPT !.iterators = Append(@, [object |-> v, pos |-> 1])]
       IN  Attempt(2, IF ~Is("list", resolve_value(store, v)) THEN Fail(store)
                       ELSE push(pop(made, 1), IteratorAt(Len(made.iterators))))

\* The iterator of an alias follows the list in it.  Reading the value moves it.
NextItem ==
    /\ Takes({"TestIterator", "NextKey", "NextValue"})
    /\ LET k == resolved_peek(store, 1)[2]
           it == store.iterators[k]
           items == resolve_value(store, it.object)[2]
       IN  CASE Op = "TestIterator" ->
                    Continue(1, push(pop(store, 1), Boolean(it.pos <= Len(items))))
             [] Op = "NextKey" -> Continue(1, push(pop(store, 1), Number(it.pos)))
             [] Op = "NextValue" ->
                    Continue(1, push(pop([store EXCEPT !.iterators[k].pos = @ + 1], 1),
                                     items[it.pos]))

-----------------------------------------------------------------------------
(* Jumps and statements.                                                   *)

Jump == Takes({"Jump"}) /\ Goto(Operand(1), store)

JumpIf ==
    /\ Takes({"JumpFalse", "JumpTrue"})
    /\ \E taken \in {to_boolean(resolved_peek(store, 1)) = (Op = "JumpTrue")} :
           Goto(IF taken THEN Operand(1) ELSE ip + 3, pop(store, 1))

\* The values before one that has no text are printed.
PrintValues ==
    /\ Takes({"Print"})
    /\ \E values \in {ShownTopmost} :
        \/ Showable(values) # values /\ UnwindShowing(store, Showable(values))
        \/ /\ Showable(values) = values /\ Show(values)
           /\ store' = pop(store, Operand(1)) /\ ip' = ip + 2
           /\ UNCHANGED <<frames, running, modules, session>>

\* Nothing is taken off the stack.
AssertTrue ==
    /\ Takes({"Assert"})
    /\ Attempt(2, IF to_boolean(resolved_peek(store, Operand(1))) THEN store ELSE Fail(store))

ThrowError == Takes({"Throw"}) /\ Unwind(pop(store, 1))

-----------------------------------------------------------------------------
(* Closures, calls and frames.                                             *)

\* Every captured variable becomes an alias, which the closure shares.
NewClosure ==
    /\ Takes({"NewClosure"})
    /\ LET id == Operand(1)
           made == Routines(current_closure.module)[id]
           capture(s, u) ==
               LET place == IF u.is_local THEN Local(u.index) ELSE Upvalue(u.index)
                   t == make_alias(s, place)
               IN  [t EXCEPT !.closures[Len(t.closures)].upvalues = Append(@, Read(t, place))]
           closure == [module |-> current_closure.module, routine |-> id, upvalues |-> <<>>,
                       arity |-> made.arg_count, ref_flags |-> made.ref_flags]
           new == [pop(store, Operand(2)) EXCEPT !.closures = Append(@, closure)]
           captured == FoldLeft(capture, new, made.upvalues)
           function == [closures |-> <<Len(new.closures)>>, ref_flags |-> made.ref_flags,
                        max_argc |-> made.arg_count]
       IN  Continue(3, push([captured EXCEPT !.functions = Append(@, function)],
                            FunctionAt(Len(store.functions) + 1)))

\* The flags of the function are left in the frame of the caller.
Precall ==
    /\ Takes({"Precall"})
    /\ \E v \in {resolved_peek(store, 1)} :
        \/ ~Is("fun", v) /\ Unwind(store)
        \/ /\ Is("fun", v)
           /\ frames' = [frames EXCEPT ![Len(frames)].ref_flags = store.functions[v[2]].ref_flags]
           /\ ip' = ip + 1
           /\ UNCHANGED <<store, running, output, modules, session>>

\* Mutant of list_append: a function without a result leaves nothing.
list_append_void(s) ==
    LET place == Resolved(s, <<"stack", Len(s.stack) - 1>>)
    IN  IF ~Is("list", Read(s, place)) THEN Fail(s)
        ELSE pop(Write(s, place, ListOf(Append(Read(s, place)[2], resolved_peek(s, 1)))), 3)

list_append(s) ==
    LET place == Resolved(s, <<"stack", Len(s.stack) - 1>>)
    IN  IF ~Is("list", Read(s, place)) THEN Fail(s)
        ELSE push(pop(Write(s, place, ListOf(Append(Read(s, place)[2], resolved_peek(s, 1)))), 3),
                  Null)

\* The arguments of a routine stay where they are: they become its first locals.
Call_ ==
    /\ Takes({"Call"})
    /\ LET narg == Operand(1)
           v == resolved_peek(store, narg + 1)
       IN  \E c \in {find_closure(store, v[2], narg)} :
           \/ c = 0 /\ Unwind(store)
           \/ c # 0 /\ store.closures[c] = Native /\ Attempt(2, list_append(store))
           \/ /\ c # 0 /\ store.closures[c] # Native
              /\ frames' = [frames EXCEPT ![Len(frames)].ip = ip + 2]
              /\ running' = Append(running, c) /\ ip' = 1
              /\ UNCHANGED <<store, output, modules, session>>

\* Mutant of push_call_frame: the slot of the function is counted as a local.
push_call_frame_low ==
    /\ Takes({"NewFrame"})
    /\ LET base == Len(store.stack) - routine.arg_count - 1
       IN  /\ frames' = Append(frames, [locals |-> base, nlocal |-> Operand(1), ip |-> 0,
                                        ref_flags |-> {}])
           /\ store' = [store EXCEPT !.stack =
                           @ \o [i \in 1..(Operand(1) - routine.arg_count) |-> Null]]
    /\ ip' = ip + 2
    /\ UNCHANGED <<running, output, modules, session>>

push_call_frame ==
    /\ Takes({"NewFrame"})
    /\ LET base == Len(store.stack) - routine.arg_count
       IN  /\ frames' = Append(frames, [locals |-> base, nlocal |-> Operand(1), ip |-> 0,
                                        ref_flags |-> {}])
           /\ store' = [store EXCEPT !.stack =
                           @ \o [i \in 1..(Operand(1) - routine.arg_count) |-> Null]]
    /\ ip' = ip + 2
    /\ UNCHANGED <<running, output, modules, session>>

\* Mutant of pop_call_frame: the slot of the function stays.
pop_call_frame_slot ==
    /\ Takes({"Return"})
    /\ LET top == Len(store.stack)
           above == top > current_frame.locals + current_frame.nlocal
           result == IF above THEN store.stack[top] ELSE Null
           left == Min({IF above THEN top - 1 ELSE top, current_frame.locals})
           popped == [store EXCEPT !.stack = SubSeq(@, 1, left)]
           last == Len(running) = 1
       IN  /\ store' = IF last THEN popped ELSE push(popped, result)
           /\ frames' = Front(frames)
           /\ running' = Front(running)
           /\ ip' = IF last THEN 0 ELSE frames[Len(frames) - 1].ip
           /\ IF last THEN Show(<<<<"done">>>>) ELSE UNCHANGED output
           /\ UNCHANGED <<modules, session>>

\* A value above the locals is the result.  The frame goes with the slot of the
\* function below it.
pop_call_frame ==
    /\ Takes({"Return"})
    /\ LET top == Len(store.stack)
           above == top > current_frame.locals + current_frame.nlocal
           result == IF above THEN store.stack[top] ELSE Null
           left == Min({IF above THEN top - 1 ELSE top, current_frame.locals - 1})
           popped == [store EXCEPT !.stack = SubSeq(@, 1, left)]
           last == Len(running) = 1
       IN  /\ store' = IF last THEN popped ELSE push(popped, result)
           /\ frames' = Front(frames)
           /\ running' = Front(running)
           /\ ip' = IF last THEN 0 ELSE frames[Len(frames) - 1].ip
           /\ IF last THEN Show(<<<<"done">>>>) ELSE UNCHANGED output
           /\ UNCHANGED <<modules, session>>

\* Runtime::do_string compiles a program and interprets it.
Main(m) == [module |-> m, routine |-> 1, upvalues |-> <<>>, arity |-> 0, ref_flags |-> {}]
do_string ==
    /\ running = <<>> /\ Len(modules) < Programs(session)
    /\ \E module \in {Module(session, Len(modules) + 1)} :
        /\ modules' = Append(modules, module)
        /\ \/ /\ module.failed
              /\ Show(<<<<"rejected">>>>) /\ UNCHANGED <<store, running, ip>>
           \/ /\ ~module.failed
              /\ store' = [store EXCEPT !.closures = Append(@, Main(Len(modules) + 1))]
              /\ running' = <<Len(store.closures) + 1>> /\ ip' = 1
              /\ UNCHANGED output
    /\ UNCHANGED <<frames, session>>

Finished == running = <<>> /\ Len(modules) = Programs(session)

Next ==
    \/ do_string
    \/ Push \/ Pop \/ GetVariable \/ GetArgument \/ GetReference \/ GetUnique
    \/ SetVariable \/ DefineLocal \/ DefineGlobal \/ ClearLocal \/ CountLocal
    \/ BinaryOperator \/ UnaryOperator \/ ConcatStrings
    \/ NewList \/ get_index \/ set_index \/ NewIterator \/ NextItem
    \/ Jump \/ JumpIf \/ PrintValues \/ AssertTrue \/ ThrowError
    \/ NewClosure \/ Precall \/ Call_ \/ push_call_frame \/ pop_call_frame
    \/ Finished /\ UNCHANGED vars

Spec == Init /\ [][Next]_vars /\ WF_vars(Next)

-----------------------------------------------------------------------------
(* Properties.                                                             *)

Kinds_ == Scalars \union {"list", "fun", "iter", "class", "box"}
TypeOK ==
    /\ \A i \in DOMAIN store.stack : store.stack[i][1] \in Kinds_
    /\ \A i \in DOMAIN store.boxes : store.boxes[i][1] \in Kinds_ \ {"box"}
    /\ \A c \in DOMAIN store.closures :
           \A i \in DOMAIN store.closures[c].upvalues : Is("box", store.closures[c].upvalues[i])
    /\ ~store.failed
    /\ \A i \in DOMAIN running : running[i] \in DOMAIN store.closures
    /\ Running => ip \in DOMAIN code
    /\ Len(modules) <= Programs(session)

\* How many words of the stack an operation takes or looks at.
Operands ==
    CASE Op \in BinaryOps \union {"GetIndex", "GetIndexArg"} -> 2
      [] Op \in {"Pop", "SetLocal", "SetUpvalue", "SetGlobal", "DefineLocal", "DefineGlobal",
                 "Not", "Negate", "NewIterator", "TestIterator", "NextKey", "NextValue",
                 "JumpFalse", "JumpTrue", "Precall", "Throw"} -> 1
      [] Op \in {"Concat", "NewList", "Print", "Assert"} -> Operand(1)
      [] Op = "SetIndex" -> 3
      [] Op = "Call" -> Operand(1) + 1
      [] Op = "NewClosure" -> Operand(2)
      [] OTHER -> 0

\* Frame is pushed: the first operation of a routine, after the dummy of the module.
Framed == Running /\ ip > IF routine.parent = 0 THEN 3 ELSE 2
LocalsEnd == current_frame.locals + current_frame.nlocal

\* No operation reaches below its operands into the locals of the frame: what an
\* expression pushes, its statement takes (the stack is checked by nothing in
\* runtime.cpp but an underflow of the whole of it).
OperandsAboveLocals == Framed => Len(store.stack) - Operands >= LocalsEnd

\* A loop that jumps back leaves nothing on the stack, whichever of break and
\* continue its body took: otherwise the stack would grow with every turn.
LoopsBalanced ==
    Framed /\ Op \in {"Jump", "JumpFalse"} /\ Operand(1) < ip =>
        Len(store.stack) - Operands = LocalsEnd

\* The locals of a frame lie below the function whose call the next frame serves.
FramesDisjoint ==
    \A i \in 1..(Len(frames) - 1) :
        frames[i].locals + frames[i].nlocal < frames[i + 1].locals

\* When no program has failed, an idle runtime holds no frame and no value.
QuietWhenIdle ==
    running = <<>> /\ (\A i \in DOMAIN output : output[i] # <<"error">>) =>
        store.stack = <<>> /\ frames = <<>>

\* pop_call_frame (runtime.cpp:1823) asserts that the top is not below the locals.
ReturnAboveLocals == Framed /\ Op = "Return" => Len(store.stack) >= LocalsEnd

\* Every session of the model comes to its end.
SessionsEnd == <>Finished
=============================================================================
