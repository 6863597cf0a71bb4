------------------------------ MODULE Compiler ------------------------------
(***************************************************************************)
(* The compiler: compiler.cpp, code.cpp and the tables of a Routine in     *)
(* function.cpp.  A visit turns a state of the compiler into the next one. *)
(* Code is a sequence of words: operation codes, operands of one word, and *)
(* addresses of two, which are patched when the place they lead to is      *)
(* known.  An operand that is an index in a pool of constants stands for   *)
(* the constant.                                                           *)
(***************************************************************************)
EXTENDS Ast, FiniteSetsExt

NewRoutine(parent, params) ==
    [parent |-> parent, code |-> <<>>, locals |-> <<>>, upvalues |-> <<>>,
     arg_count |-> Len(params),
     ref_flags |-> {i - 1 : i \in {j \in DOMAIN params : params[j].by_ref}}]

\* failed: an error was thrown.  What is compiled after it is not used.
initialize(debug) ==
    [routines |-> <<NewRoutine(0, <<>>)>>, routine |-> 1,
     scope_id |-> 0, current_scope |-> 0, scope_depth |-> 0,
     break_jumps |-> <<>>, break_count |-> 0,
     continue_jumps |-> <<>>, continue_count |-> 0,
     visit_arg |-> -1, visiting_reference |-> FALSE,
     visiting_indexed_lhs |-> FALSE, visiting_assigned_lhs |-> FALSE,
     debug_mode |-> debug, failed |-> FALSE]

-----------------------------------------------------------------------------
(* Code.  Addresses count from 1.                                          *)

Emit(c, words) == [c EXCEPT !.routines[c.routine].code = @ \o words]
Here(c) == Len(c.routines[c.routine].code) + 1
Backpatch(c, at, word) == [c EXCEPT !.routines[c.routine].code[at] = word]
BackpatchAll(c, jumps, word) ==
    [c EXCEPT !.routines[c.routine].code =
        [i \in DOMAIN @ |-> IF i \in Range(jumps) THEN word ELSE @[i]]]

\* The first word of the address that the jump which is emitted next goes to.
JumpAt(c) == Here(c) + 1
EmitJump(c, op, address) == Emit(c, <<op, address, 0>>)
Land(c, jump) == Backpatch(c, jump, Here(c))

-----------------------------------------------------------------------------
(* Scopes and variables.                                                   *)

open_scope(c) == [c EXCEPT !.scope_id = @ + 1, !.current_scope = c.scope_id + 1,
                           !.scope_depth = @ + 1]
close_scope(c, previous) == [c EXCEPT !.current_scope = previous, !.scope_depth = @ - 1]

Locals(c, r) == c.routines[r].locals
add_local(c, name) ==
    LET locals == Locals(c, c.routine)
        \* The run of locals of the current scope at the end of the table.
        same == {i \in DOMAIN locals : \A j \in i..Len(locals) :
                                           locals[j].scope = c.current_scope}
    IN  [c EXCEPT !.failed = @ \/ \E i \in same : locals[i].name = name,
                  !.routines[c.routine].locals = Append(@,
                      [name |-> name, scope |-> c.current_scope, depth |-> c.scope_depth])]
RECURSIVE add_parameters(_, _)
add_parameters(c, params) ==
    IF params = <<>> THEN c
    ELSE add_parameters(add_local(c, params[1].name), Tail(params))
LastLocal(c) == Len(Locals(c, c.routine)) - 1

Missing == -1
find_local(c, r, name) ==
    LET named == {i \in DOMAIN Locals(c, r) :
                     /\ Locals(c, r)[i].depth <= c.scope_depth
                     /\ Locals(c, r)[i].name = name}
    IN  IF named = {} THEN Missing ELSE Max(named) - 1

add_upvalue(c, r, upvalue) ==
    IF \E i \in DOMAIN c.routines[r].upvalues : c.routines[r].upvalues[i] = upvalue
    THEN c
    ELSE [c EXCEPT !.routines[r].upvalues = Append(@, upvalue)]
UpvalueIndex(c, r, upvalue) == IndexFirstSubSeq(<<upvalue>>, c.routines[r].upvalues) - 1

\* The variable that a name stands for in routine r, and the routines with the
\* upvalues that lead to it: its own local, one of an enclosing routine, or a global.
RECURSIVE resolve(_, _, _)
resolve(c, r, name) ==
    LET index == find_local(c, r, name)
        parent == c.routines[r].parent
        outer == resolve(c, parent, name)
        upvalue == [index |-> outer.index, is_local |-> outer.place = "local"]
        added == add_upvalue(outer.c, r, upvalue)
    IN  IF index # Missing THEN [c |-> c, place |-> "local", index |-> index]
        ELSE IF parent = 0 \/ outer.place = "global"
        THEN [c |-> c, place |-> "global", index |-> name]
        ELSE [c |-> added, place |-> "upvalue", index |-> UpvalueIndex(added, r, upvalue)]
Resolve(c, name) == resolve(c, c.routine, name)

-----------------------------------------------------------------------------
(* Expressions.                                                            *)

RECURSIVE visit(_, _), VisitAll(_, _)
VisitAll(c, nodes) ==
    IF c.failed \/ nodes = <<>> THEN c ELSE VisitAll(visit(c, Head(nodes)), Tail(nodes))

visit_constant(c, n) ==
    CASE n.lex = "null" -> Emit(c, <<"PushNull">>)
      [] n.lex = "true" -> Emit(c, <<"PushBoolean", 1>>)
      [] n.lex = "false" -> Emit(c, <<"PushBoolean", 0>>)
      [] n.lex = "pass" -> c

\* A negative literal is negated in place.
visit_unary(c, n) ==
    IF n.op = "not" THEN Emit(visit(c, n.expr), <<"Not">>)
    ELSE IF n.expr.is = "integer" THEN visit(c, Integer(-n.expr.value))
    ELSE Emit(visit(c, n.expr), <<"Negate">>)
\* So that a second visit finds it negated already, and takes it as positive.
Revisited(n) ==
    IF n.is = "unary" /\ n.op = "-" /\ n.expr.is = "integer" THEN n.expr ELSE n

Operation == [op \in {"+", "-", "*", "==", "!=", "<", "<=", ">", ">="} |->
    CASE op = "+" -> "Add"    [] op = "-" -> "Subtract"  [] op = "*" -> "Multiply"
      [] op = "==" -> "Equal" [] op = "!=" -> "NotEqual" [] op = "<" -> "Less"
      [] op = "<=" -> "LessEqual" [] op = ">" -> "Greater" [] op = ">=" -> "GreaterEqual"]

Operate(c, op) == Emit(c, IF op = "&" THEN <<"Concat", 2>> ELSE <<Operation[op]>>)

\* The jumps take the value they test off the stack.
visit_logical(c, n) ==
    LET left == visit(c, n.lhs)
        jump == EmitJump(left, IF n.op = "and" THEN "JumpFalse" ELSE "JumpTrue", 0)
    IN  Land(visit(jump, n.rhs), JumpAt(left))
visit_binary(c, n) ==
    IF n.op \in {"and", "or"} THEN visit_logical(c, n)
    ELSE Operate(visit(visit(c, n.lhs), n.rhs), n.op)

parsing_argument(c) == c.visit_arg >= 0
visiting_place(c) == c.visiting_reference \/ c.visiting_assigned_lhs
visiting_unique(c) == c.visiting_indexed_lhs \/ c.visiting_assigned_lhs

GetOperation(c, place) ==
    LET name == CASE place = "local" -> <<"GetLocalArg", "GetUniqueLocal", "GetLocalRef", "GetLocal">>
                  [] place = "upvalue" -> <<"GetUpvalueArg", "GetUniqueUpvalue", "GetUpvalueRef", "GetUpvalue">>
                  [] place = "global" -> <<"GetGlobalArg", "GetUniqueGlobal", "GetGlobalRef", "GetGlobal">>
    IN  CASE parsing_argument(c) -> name[1]
          [] ~parsing_argument(c) /\ visiting_place(c) /\ visiting_unique(c) -> name[2]
          [] ~parsing_argument(c) /\ visiting_place(c) /\ ~visiting_unique(c) -> name[3]
          [] OTHER -> name[4]
\* GetUpvalueArg is emitted without the index of the argument.
visit_variable(c, n) ==
    LET v == Resolve(c, n.name)
        argument == IF parsing_argument(c) /\ v.place # "upvalue" THEN <<c.visit_arg>> ELSE <<>>
    IN  Emit(v.c, <<GetOperation(c, v.place), v.index>> \o argument)

visit_index(c, n) ==
    LET start == [visit([c EXCEPT !.visiting_indexed_lhs = TRUE], n.expr)
                     EXCEPT !.visiting_indexed_lhs = FALSE]
        indexed == VisitAll(start, n.indexes)
        count == Len(n.indexes)
    IN  IF c.visiting_assigned_lhs THEN indexed
        ELSE IF c.visiting_reference THEN Emit(indexed, <<"GetIndexRef", count>>)
        ELSE IF parsing_argument(c) THEN Emit(indexed, <<"GetIndexArg", count, c.visit_arg>>)
        ELSE Emit(indexed, <<"GetIndex", count>>)

RECURSIVE VisitArguments(_, _, _)
VisitArguments(c, args, i) ==
    IF c.failed \/ i > Len(args) THEN c
    ELSE VisitArguments(visit([c EXCEPT !.visit_arg = i - 1], args[i]), args, i + 1)
\* Mutant of visit_call: a call that is a statement keeps its result.
visit_call_kept(c, n) ==
    LET function == Emit(visit(c, n.expr), <<"Precall">>)
        arguments == VisitArguments(function, n.args, 1)
    IN  Emit([arguments EXCEPT !.visit_arg = c.visit_arg], <<"Call", Len(n.args)>>)

visit_call(c, n) ==
    LET function == Emit(visit(c, n.expr), <<"Precall">>)
        arguments == VisitArguments(function, n.args, 1)
    IN  Emit([arguments EXCEPT !.visit_arg = c.visit_arg],
             <<"Call", Len(n.args)>> \o IF n.discard THEN <<"Pop">> ELSE <<>>)

visit_reference(c, n) ==
    IF n.expr.is = "call" THEN visit(c, n.expr)
    ELSE [visit([c EXCEPT !.visiting_reference = TRUE], n.expr)
             EXCEPT !.visiting_reference = c.visiting_reference]

-----------------------------------------------------------------------------
(* Statements.                                                             *)

Set_(c, v) == Emit(c, <<CASE v.place = "local" -> "SetLocal" [] v.place = "upvalue" -> "SetUpvalue"
                          [] v.place = "global" -> "SetGlobal", v.index>>)

\* "x += y" is compiled as "x = x + y".
visit_assignment(c, n) ==
    LET plain == n.op = "="
        lhs == [visit([c EXCEPT !.visiting_assigned_lhs = TRUE], n.lhs)
                   EXCEPT !.visiting_assigned_lhs = FALSE]
        again == [n.lhs EXCEPT !.indexes = [i \in DOMAIN @ |-> Revisited(@[i])]]
        value(d, place) == IF plain THEN visit(d, n.rhs)
                           ELSE Operate(visit(visit(d, place), n.rhs), n.op)
        v == Resolve(value(c, n.lhs), n.lhs.name)
    IN  CASE n.lhs.is = "variable" -> Set_(v.c, v)
          [] n.lhs.is = "index" -> Emit(value(lhs, again), <<"SetIndex", Len(n.lhs.indexes)>>)
          [] OTHER -> [c EXCEPT !.failed = TRUE]

\* More than one name is not implemented.
visit_declaration(c, n) ==
    LET name == n.lhs[1]
        value == visit(c, n.rhs[1])
        added == add_local(value, name)
    IN  IF Len(n.lhs) > 1 \/ Len(n.rhs) > 1 THEN [c EXCEPT !.failed = TRUE]
        ELSE IF n.local \/ c.scope_depth > 1
        THEN IF n.rhs = <<>> THEN add_local(c, name)
             ELSE Emit(added, <<"DefineLocal", LastLocal(added)>>)
        ELSE Emit(IF n.rhs = <<>> THEN Emit(c, <<"PushNull">>) ELSE value,
                  <<"DefineGlobal", name>>)

visit_statements(c, n) ==
    IF n.open_scope THEN close_scope(VisitAll(open_scope(c), n.list), c.current_scope)
                    ELSE VisitAll(c, n.list)

RECURSIVE VisitConditions(_, _, _)
VisitConditions(c, conds, ends) ==
    LET test == visit(c, conds[1].cond)
        body == visit(EmitJump(test, "JumpFalse", 0), conds[1].block)
        branch == Land(EmitJump(body, "Jump", 0), JumpAt(test))
    IN  IF c.failed \/ conds = <<>> THEN [c |-> c, ends |-> ends]
        ELSE VisitConditions(branch, Tail(conds), Append(ends, JumpAt(body)))
visit_if(c, n) ==
    LET branches == VisitConditions(c, n.conds, <<>>)
        done == visit(branches.c, n.otherwise)
    IN  BackpatchAll(done, branches.ends, Here(done))

-----------------------------------------------------------------------------
(* Loops.  The jumps of break and continue wait until the loop is done.    *)

enter_loop(c) == [c EXCEPT !.break_count = 0, !.continue_count = 0]
Taken(jumps, n) == SubSeq(jumps, Len(jumps) - n + 1, Len(jumps))
Left(jumps, n) == SubSeq(jumps, 1, Len(jumps) - n)

backpatch_breaks(c, previous) ==
    [BackpatchAll(c, Taken(c.break_jumps, c.break_count), Here(c))
        EXCEPT !.break_jumps = Left(@, c.break_count), !.break_count = previous]
backpatch_continues(c, previous, address) ==
    [BackpatchAll(c, Taken(c.continue_jumps, c.continue_count), address)
        EXCEPT !.continue_jumps = Left(@, c.continue_count), !.continue_count = previous]

visit_exit(c, n) ==
    LET jump == EmitJump(c, "Jump", 0)
    IN  IF n.lex = "break"
        THEN [jump EXCEPT !.break_jumps = Append(@, JumpAt(c)), !.break_count = @ + 1]
        ELSE [jump EXCEPT !.continue_jumps = Append(@, JumpAt(c)), !.continue_count = @ + 1]

visit_while(c, n) ==
    LET test == visit(enter_loop(c), n.cond)
        body == visit(EmitJump(test, "JumpFalse", 0), n.body)
        continued == backpatch_continues(body, c.continue_count, Here(body))
        done == Land(EmitJump(continued, "Jump", Here(c)), JumpAt(test))
    IN  backpatch_breaks(done, c.break_count)

\* A continue goes to the start of the body: it skips the condition.
visit_repeat(c, n) ==
    LET body == visit(enter_loop(open_scope(c)), n.body)
        done == EmitJump(visit(body, n.cond), "JumpFalse", Here(c))
        broken == backpatch_breaks(done, c.break_count)
    IN  close_scope(backpatch_continues(broken, c.continue_count, Here(c)), c.current_scope)

Define(c, name, value) ==
    LET added == add_local(visit(c, value), name)
    IN  Emit(added, <<"DefineLocal", LastLocal(added)>>)

\* Mutant of visit_for: a continue goes back to the test, without counting.
visit_for_uncounted(c, n) ==
    LET start == Define(enter_loop(open_scope(c)), n.var, n.start)
        end == Define(start, "$end", n.end)
        step == IF n.step = None THEN end ELSE Define(end, "$step", n.step)
        var == LastLocal(start)
        test == Emit(step, <<"GetLocal", var, "GetLocal", LastLocal(end),
                             IF n.down THEN "Less" ELSE "Greater">>)
        body == visit(EmitJump(test, "JumpTrue", 0), n.block)
        continued == backpatch_continues(body, c.continue_count, Here(step))
        counted == Emit(continued,
            IF n.step = None
            THEN <<IF n.down THEN "DecrementLocal" ELSE "IncrementLocal", var>>
            ELSE <<"GetLocal", var, "GetLocal", LastLocal(step),
                   IF n.down THEN "Subtract" ELSE "Add", "SetLocal", var>>)
        done == Land(EmitJump(counted, "Jump", Here(step)), JumpAt(test))
    IN  close_scope(backpatch_breaks(done, c.break_count), c.current_scope)

visit_for(c, n) ==
    LET start == Define(enter_loop(open_scope(c)), n.var, n.start)
        end == Define(start, "$end", n.end)
        step == IF n.step = None THEN end ELSE Define(end, "$step", n.step)
        var == LastLocal(start)
        test == Emit(step, <<"GetLocal", var, "GetLocal", LastLocal(end),
                             IF n.down THEN "Less" ELSE "Greater">>)
        body == visit(EmitJump(test, "JumpTrue", 0), n.block)
        continued == backpatch_continues(body, c.continue_count, Here(body))
        counted == Emit(continued,
            IF n.step = None
            THEN <<IF n.down THEN "DecrementLocal" ELSE "IncrementLocal", var>>
            ELSE <<"GetLocal", var, "GetLocal", LastLocal(step),
                   IF n.down THEN "Subtract" ELSE "Add", "SetLocal", var>>)
        done == Land(EmitJump(counted, "Jump", Here(step)), JumpAt(test))
    IN  close_scope(backpatch_breaks(done, c.break_count), c.current_scope)

\* value is a variable, or a reference to the items under that name.
visit_foreach(c, n) ==
    LET opened == enter_loop(open_scope(c))
        keyed == IF n.key = "" THEN opened ELSE add_local(opened, n.key)
        by_ref == n.value.is = "reference"
        valued == add_local(keyed, IF by_ref THEN n.value.expr.name ELSE n.value.name)
        added == add_local(valued, "$iter")
        key == LastLocal(keyed)   value == LastLocal(valued)   iter == LastLocal(added)
        made == Emit(visit(added, n.collection),
                     <<"NewIterator", IF by_ref THEN 1 ELSE 0, "DefineLocal", iter>>)
        test == Emit(made, <<"GetLocal", iter, "TestIterator">>)
        visited == Emit(EmitJump(test, "JumpFalse", 0),
            (IF n.key = "" THEN <<>> ELSE <<"ClearLocal", key>>)
            \o <<"ClearLocal", value>>
            \o (IF n.key = "" THEN <<>> ELSE <<"GetLocal", iter, "NextKey", "SetLocal", key>>)
            \o <<"GetLocal", iter, "NextValue", "SetLocal", value>>)
        body == visit(visited, n.block)
        continued == backpatch_continues(body, c.continue_count, Here(body))
        done == Land(EmitJump(continued, "Jump", Here(made)), JumpAt(test))
    IN  close_scope(backpatch_breaks(done, c.break_count), c.current_scope)

-----------------------------------------------------------------------------
(* Functions.  The parameters are the first locals of the routine; their   *)
(* types are evaluated where the function is defined.                      *)

RECURSIVE VisitTypes(_, _)
VisitTypes(c, params) ==
    LET type == params[1].type
        typed == IF type = None THEN Emit(c, <<"GetGlobal", "Object">>) ELSE visit(c, type)
    IN  IF c.failed \/ params = <<>> THEN c ELSE VisitTypes(typed, Tail(params))
visit_routine(c, n) ==
    LET id == Len(c.routines) + 1
        opened == [open_scope(c) EXCEPT
                      !.routines = Append(@, NewRoutine(c.routine, n.params)), !.routine = id]
        framed == add_parameters(Emit(opened, <<"NewFrame", 0>>), n.params)
        body == Emit(visit(framed, n.body), <<"Return">>)
        closed == close_scope(Backpatch(body, 2, Len(Locals(body, id))), c.current_scope)
        made == Emit(VisitTypes([closed EXCEPT !.routine = c.routine], n.params),
                     <<"NewClosure", id, Len(n.params)>>)
        known == find_local(made, made.routine, n.name)
        added == IF known = Missing THEN add_local(made, n.name) ELSE made
    IN  IF n.name = "" THEN made
        ELSE IF n.local \/ made.scope_depth > 1
        THEN Emit(added, <<"SetLocal", IF known = Missing THEN LastLocal(added) ELSE known>>)
        ELSE Emit(made, <<"SetGlobal", n.name>>)

visit_return(c, n) ==
    Emit(IF n.expr = None THEN Emit(c, <<"PushNull">>) ELSE visit(c, n.expr), <<"Return">>)

visit(c, n) ==
    IF c.failed THEN c ELSE
    CASE n.is = "none" -> c
      [] n.is = "constant" -> visit_constant(c, n)
      [] n.is = "integer" -> Emit(c, <<"PushSmallInt", n.value>>)
      [] n.is = "string" -> Emit(c, <<"PushString", n.value>>)
      [] n.is = "list" -> Emit(VisitAll(c, n.items), <<"NewList", Len(n.items)>>)
      [] n.is = "unary" -> visit_unary(c, n)
      [] n.is = "binary" -> visit_binary(c, n)
      [] n.is = "concat" -> Emit(VisitAll(c, n.list), <<"Concat", Len(n.list)>>)
      [] n.is = "variable" -> visit_variable(c, n)
      [] n.is = "reference" -> visit_reference(c, n)
      [] n.is = "call" -> visit_call(c, n)
      [] n.is = "index" -> visit_index(c, n)
      [] n.is = "assign" -> visit_assignment(c, n)
      [] n.is = "declare" -> visit_declaration(c, n)
      [] n.is = "statements" -> visit_statements(c, n)
      [] n.is = "print" -> Emit(VisitAll(c, n.list), <<"Print", Len(n.list)>>)
      [] n.is = "debug" -> IF c.debug_mode THEN visit(c, n.block) ELSE c
      [] n.is = "throw" -> Emit(visit(c, n.expr), <<"Throw">>)
      [] n.is = "assert" -> Emit(visit(visit(c, n.expr), n.msg),
                                 <<"Assert", IF n.msg = None THEN 1 ELSE 2>>)
      [] n.is = "if" -> visit_if(c, n)
      [] n.is = "while" -> visit_while(c, n)
      [] n.is = "repeat" -> visit_repeat(c, n)
      [] n.is = "for" -> visit_for(c, n)
      [] n.is = "foreach" -> visit_foreach(c, n)
      [] n.is = "exit" -> visit_exit(c, n)
      [] n.is = "routine" -> visit_routine(c, n)
      [] n.is = "return" -> visit_return(c, n)

\* The first word pushed is a dummy for the slot of the function.
compile(ast, debug) ==
    LET framed == Emit(initialize(debug), <<"PushNull", "NewFrame", 0>>)
        module == close_scope(visit(open_scope(framed), ast), 0)
        patched == Backpatch(module, 3, Len(Locals(module, 1)))
    IN  Emit(patched, <<"Return">>)
=============================================================================
