------------------------------ MODULE Language ------------------------------
(***************************************************************************)
(* What a program means, told without code, stack or frames: an evaluator  *)
(* of the syntax tree in which a name in scope denotes a location, every   *)
(* execution of a declaration makes a new one, and a function keeps the    *)
(* names in scope where it was defined.  It shares the values of module    *)
(* Data, the rule that overloads of a function gather, and the parameters  *)
(* by reference, which denote the location of the argument.                *)
(***************************************************************************)
EXTENDS Ast, Data, FiniteSetsExt

\* The state of an evaluation.  own: the names declared in this call;
\* top: no scope is open; signal: why what follows is passed over.
Beginning ==
    [env |-> <<>>, own |-> {}, top |-> TRUE, signal |-> "", value |-> Null,
     locations |-> <<ClassOf("Object"), FunctionAt(1)>>,
     globals |-> [name \in {"Object", "append"} |-> IF name = "Object" THEN 1 ELSE 2],
     functions |-> << <<[native |-> TRUE, arity |-> 2, by_ref |-> {1}]>> >>,
     debug |-> TRUE, out |-> <<>>]

Signal(w, signal) == [w EXCEPT !.signal = signal]
Value(w, v) == IF v = Error THEN Signal(w, "error") ELSE [w EXCEPT !.value = v]
Normal(w) == w.signal = ""

\* The location of a name, or 0.
Denotes(w, name) ==
    CASE name \in DOMAIN w.env -> w.env[name]
      [] name \notin DOMAIN w.env /\ name \in DOMAIN w.globals -> w.globals[name]
      [] OTHER -> 0

New(w, v) == [w EXCEPT !.locations = Append(@, v)]
Bind(w, name, location) ==
    [w EXCEPT !.env = (name :> location) @@ @, !.own = @ \union {name}]
DeclareName(w, name, v) == Bind(New(w, v), name, Len(w.locations) + 1)

\* After a block the names are those of before.
Leave(w, before) == [w EXCEPT !.env = before.env, !.own = before.own, !.top = before.top]
Enter(w) == [w EXCEPT !.top = FALSE]

\* The overloads of g are added to those of f: the same arity may not come twice,
\* and all of them agree on what is passed by reference.
Agree(o, p) == \A i \in 1..Min({o.arity, p.arity}) : i \in o.by_ref <=> i \in p.by_ref
Gather(w, f, g) ==
    LET all == w.functions[f] \o w.functions[g]
        ok == \A i, j \in DOMAIN all :
                  i < j => all[i].arity # all[j].arity /\ Agree(all[i], all[j])
    IN  IF f = g THEN w
        ELSE IF ok THEN [w EXCEPT !.functions[f] = all] ELSE Signal(w, "error")

Store(w, location, v) ==
    LET old == w.locations[location]
    IN  IF Is("fun", old) /\ Is("fun", v) THEN Gather(w, old[2], v[2])
        ELSE [w EXCEPT !.locations[location] = v]

Visible(v) == IF Is("fun", v) THEN <<"fun">> ELSE v
RECURSIVE Displayed(_)
Displayed(v) == IF Is("list", v) THEN ListOf([i \in DOMAIN v[2] |-> Displayed(v[2][i])])
                ELSE Visible(v)

DisplayedAll(values) == [i \in DOMAIN values |-> Displayed(values[i])]
Joined(values) ==
    IF \A i \in DOMAIN values : Printable(Displayed(values[i]))
    THEN Text(FlattenSeq([i \in DOMAIN values |-> Parts(Displayed(values[i]))])) ELSE Error

-----------------------------------------------------------------------------
RECURSIVE eval(_, _)

\* The values of all the nodes, in order.
EvalAll(w, nodes) ==
    FoldLeft(LAMBDA d, n : LET e == IF Normal(d.w) THEN eval(d.w, n) ELSE d.w
                           IN  [w |-> e, values |-> Append(d.values, e.value)],
             [w |-> w, values |-> <<>>], nodes)

OperatorName == [op \in {"+", "-", "*", "==", "!=", "<", "<=", ">", ">="} |->
    CASE op = "+" -> "Add"    [] op = "-" -> "Subtract"  [] op = "*" -> "Multiply"
      [] op = "==" -> "Equal" [] op = "!=" -> "NotEqual" [] op = "<" -> "Less"
      [] op = "<=" -> "LessEqual" [] op = ">" -> "Greater" [] op = ">=" -> "GreaterEqual"]

eval_binary(w, n) ==
    LET left == eval(w, n.lhs)
        right == eval(left, n.rhs)
        decided == to_boolean(left.value) = (n.op = "or")
    IN  IF ~Normal(left) \/ (n.op \in {"and", "or"} /\ decided) THEN left
        ELSE IF ~Normal(right) \/ n.op \in {"and", "or"} THEN right
        ELSE Value(right, Apply(OperatorName[n.op], left.value, right.value))

\* The locations of the arguments: a variable that is passed by reference is shared.
Arguments(w, nodes, by_ref) ==
    LET add(d, i) ==
            LET e == eval(d.w, nodes[i])
                shared == i \in by_ref /\ nodes[i].is = "variable" /\ Normal(e)
            IN  IF ~Normal(d.w) THEN d
                ELSE IF shared THEN [w |-> e, at |-> Append(d.at, Denotes(e, nodes[i].name))]
                ELSE [w |-> New(e, e.value), at |-> Append(d.at, Len(e.locations) + 1)]
    IN  FoldLeft(add, [w |-> w, at |-> <<>>], [i \in DOMAIN nodes |-> i])

eval_append(w, at) ==
    LET list == w.locations[at[1]]
    IN  IF ~Is("list", list) THEN Signal(w, "error")
        ELSE Value(Store(w, at[1], ListOf(Append(list[2], w.locations[at[2]]))), Null)

Apply_(w, f, at) ==
    LET fitting == {i \in DOMAIN w.functions[f] : w.functions[f][i].arity = Len(at)}
        o == w.functions[f][CHOOSE i \in fitting : TRUE]
        bound == [name \in {o.params[i].name : i \in DOMAIN at} |->
                     at[Max({i \in DOMAIN at : o.params[i].name = name})]]
        called == eval([w EXCEPT !.env = bound @@ o.env, !.own = DOMAIN bound, !.top = FALSE,
                                 !.value = Null], o.body)
        back == Leave(called, w)
    IN  CASE fitting = {} -> Signal(w, "error")
          [] fitting # {} /\ o.native -> eval_append(w, at)
          [] fitting # {} /\ ~o.native /\ called.signal = "error" -> back
          [] fitting # {} /\ ~o.native /\ called.signal = "return" -> Signal(back, "")
          [] OTHER -> Value(back, Null)

eval_call(w, n) ==
    LET function == eval(w, n.expr)
        f == function.value
        by_ref == UNION {w.functions[f[2]][i].by_ref : i \in DOMAIN w.functions[f[2]]}
        args == Arguments(function, n.args, by_ref)
    IN  IF ~Normal(function) THEN function
        ELSE IF ~Is("fun", f) THEN Signal(function, "error")
        ELSE IF ~Normal(args.w) THEN args.w
        ELSE Apply_(args.w, f[2], args.at)

eval_routine(w, n) ==
    LET o == [native |-> FALSE, arity |-> Len(n.params), params |-> n.params, body |-> n.body,
              env |-> w.env, by_ref |-> {i \in DOMAIN n.params : n.params[i].by_ref}]
        made == [w EXCEPT !.functions = Append(@, <<o>>)]
        f == FunctionAt(Len(made.functions))
        global == ~n.local /\ w.top
    IN  CASE n.name = "" -> Value(made, f)
          [] n.name # "" /\ ~global /\ n.name \in w.own -> Store(made, w.env[n.name], f)
          [] n.name # "" /\ ~global /\ n.name \notin w.own -> DeclareName(made, n.name, f)
          [] n.name # "" /\ global /\ n.name \in DOMAIN w.globals ->
                 Store(made, w.globals[n.name], f)
          [] OTHER -> [New(made, f) EXCEPT !.globals = @ @@ (n.name :> Len(w.locations) + 1)]

-----------------------------------------------------------------------------
(* Statements.                                                             *)

RECURSIVE EvalSeq(_, _)
EvalSeq(w, nodes) ==
    IF nodes = <<>> \/ ~Normal(w) THEN w ELSE EvalSeq(eval(w, Head(nodes)), Tail(nodes))

eval_declaration(w, n) ==
    LET global == ~n.local /\ w.top
        name == n.lhs[1]
        rhs == IF n.rhs = <<>> THEN None ELSE n.rhs[1]
        init == eval(Value(w, Null), rhs)
        other == rhs.is = "reference" /\ rhs.expr.is = "variable"
        made == IF other THEN init ELSE New(init, init.value)
        location == IF other THEN Denotes(init, rhs.expr.name) ELSE Len(made.locations)
    IN  CASE ~Normal(init) -> init
          [] Normal(init) /\ global /\ name \in DOMAIN w.globals -> Signal(init, "error")
          [] Normal(init) /\ global /\ name \notin DOMAIN w.globals ->
                 [made EXCEPT !.globals = @ @@ (name :> location)]
          [] OTHER -> Bind(made, name, location)

eval_assignment(w, n) ==
    LET index == n.lhs.is = "index"
        name == IF index THEN n.lhs.expr.name ELSE n.lhs.name
        at == IF index THEN eval(w, n.lhs.indexes[1]) ELSE w
        old == IF index THEN Item(w.locations[Denotes(w, name)], at.value)
               ELSE w.locations[Denotes(w, name)]
        rhs == eval(at, n.rhs)
        v == CASE n.op = "=" -> rhs.value
               [] n.op = "&" -> Joined(<<old, rhs.value>>)
               [] OTHER -> Apply(OperatorName[n.op], old, rhs.value)
        list == rhs.locations[Denotes(w, name)]
    IN  CASE Denotes(w, name) = 0 \/ ~Normal(at) -> Signal(at, "error")
          [] Denotes(w, name) # 0 /\ Normal(at) /\ (~Normal(rhs) \/ v = Error) -> Signal(rhs, "error")
          [] Denotes(w, name) # 0 /\ Normal(rhs) /\ v # Error /\ ~index ->
                 Store(rhs, Denotes(w, name), v)
          [] OTHER -> IF Item(list, at.value) = Error THEN Signal(rhs, "error")
                      ELSE Store(rhs, Denotes(w, name),
                                 [list EXCEPT ![2][to_base1(list[2], at.value[2])] = v])

RECURSIVE eval_if(_, _, _)
eval_if(w, conds, otherwise) ==
    IF conds = <<>> THEN eval(w, otherwise)
    ELSE LET test == eval(w, conds[1].cond)
         IN  IF ~Normal(test) THEN test
             ELSE IF to_boolean(test.value) THEN eval(test, conds[1].block)
             ELSE eval_if(test, Tail(conds), otherwise)

\* A turn of a loop is over; break ends the loop, continue only the turn.
TurnDone(w) == IF w.signal = "continue" THEN Signal(w, "") ELSE w
LoopDone(w) == IF w.signal = "break" THEN Signal(w, "") ELSE w

RECURSIVE eval_while(_, _)
eval_while(w, n) ==
    LET test == eval(w, n.cond)
        done == TurnDone(eval(test, n.body))
    IN  IF ~Normal(test) \/ ~to_boolean(test.value) THEN test
        ELSE IF ~Normal(done) THEN LoopDone(done) ELSE eval_while(done, n)

RECURSIVE eval_repeat(_, _)
eval_repeat(w, n) ==
    LET done == TurnDone(eval(Enter(w), n.body))
        test == eval(done, n.cond)
        after == Leave(test, w)
    IN  IF ~Normal(done) THEN LoopDone(Leave(done, w))
        ELSE IF ~Normal(test) \/ to_boolean(test.value) THEN after ELSE eval_repeat(after, n)

RECURSIVE Counting(_, _, _, _)
Counting(w, n, end, step) ==
    LET at == w.env[n.var]
        stop == Apply(IF n.down THEN "Less" ELSE "Greater", w.locations[at], end)
        done == TurnDone(eval(w, n.block))
        next == Apply(IF n.down THEN "Subtract" ELSE "Add", done.locations[at], step)
    IN  CASE stop = Error -> Signal(w, "error")
          [] stop # Error /\ to_boolean(stop) -> w
          [] stop # Error /\ ~to_boolean(stop) /\ ~Normal(done) -> LoopDone(done)
          [] stop # Error /\ ~to_boolean(stop) /\ Normal(done) /\ next = Error ->
                 Signal(done, "error")
          [] OTHER -> Counting(Store(done, at, next), n, end, step)
eval_for(w, n) ==
    LET start == eval(Enter(w), n.start)
        end == eval(DeclareName(start, n.var, start.value), n.end)
        step == IF n.step = None THEN Value(end, Number(1)) ELSE eval(end, n.step)
    IN  Leave(IF ~Normal(start) THEN start ELSE IF ~Normal(end) THEN end
              ELSE IF ~Normal(step) THEN step
              ELSE Counting(step, n, end.value, step.value), w)

\* Every turn has its own key and value.  A variable is visited as it changes.
RECURSIVE Visiting(_, _, _, _)
Visiting(w, n, location, i) ==
    LET items == w.locations[location][2]
        keyed == IF n.key = "" THEN w ELSE DeclareName(w, n.key, Number(i))
        done == TurnDone(eval(DeclareName(keyed, n.value.name, items[i]), n.block))
        after == Leave(done, w)
    IN  IF i > Len(items) THEN w
        ELSE IF ~Normal(done) THEN LoopDone(after) ELSE Visiting(after, n, location, i + 1)
eval_foreach(w, n) ==
    LET collection == eval(Enter(w), n.collection)
        variable == n.collection.expr.is = "variable"
        made == IF variable THEN collection ELSE New(collection, collection.value)
        location == IF variable THEN Denotes(collection, n.collection.expr.name)
                    ELSE Len(made.locations)
    IN  Leave(IF ~Normal(collection) THEN collection
              ELSE IF ~Is("list", collection.value) THEN Signal(collection, "error")
              ELSE Visiting(made, n, location, 1), w)

eval_unary(w, n) ==
    LET e == eval(w, n.expr)
    IN  IF ~Normal(e) THEN e
        ELSE Value(e, IF n.op = "not" THEN Boolean(~to_boolean(e.value)) ELSE negate(e.value))

\* A list of nodes whose values make one value.
Combined(w, nodes, combine(_)) ==
    LET d == EvalAll(w, nodes)
    IN  IF Normal(d.w) THEN Value(d.w, combine(d.values)) ELSE d.w

eval(w, n) ==
    CASE n.is = "none" -> w
      [] n.is = "constant" -> Value(w, CASE n.lex = "true" -> Boolean(TRUE)
                                         [] n.lex = "false" -> Boolean(FALSE)
                                         [] OTHER -> Null)
      [] n.is = "integer" -> Value(w, Number(n.value))
      [] n.is = "string" -> Value(w, Text(<<<<"text", n.value>>>>))
      [] n.is = "list" -> Combined(w, n.items, ListOf)
      [] n.is = "unary" -> eval_unary(w, n)
      [] n.is = "binary" -> eval_binary(w, n)
      [] n.is = "concat" -> Combined(w, n.list, Joined)
      [] n.is = "variable" -> IF Denotes(w, n.name) = 0 THEN Signal(w, "error")
                              ELSE Value(w, w.locations[Denotes(w, n.name)])
      [] n.is = "reference" -> eval(w, n.expr)
      [] n.is = "call" -> eval_call(w, n)
      [] n.is = "index" -> LET d == EvalAll(w, <<n.expr>> \o n.indexes)
                           IN  IF ~Normal(d.w) THEN d.w
                               ELSE Value(d.w, IF Len(d.values) > 2 THEN Error
                                               ELSE Item(d.values[1], d.values[2]))
      [] n.is = "assign" -> eval_assignment(w, n)
      [] n.is = "declare" -> eval_declaration(w, n)
      [] n.is = "statements" -> IF n.open_scope THEN Leave(EvalSeq(Enter(w), n.list), w)
                                ELSE EvalSeq(w, n.list)
      [] n.is = "print" -> LET d == EvalAll(w, n.list)
                                   shown == DisplayedAll(d.values)
                                   said == [d.w EXCEPT !.out = @ \o Showable(shown)]
                               IN  IF ~Normal(d.w) THEN d.w
                                   ELSE IF Showable(shown) = shown THEN said
                                   ELSE Signal(said, "error")
      [] n.is = "debug" -> IF w.debug THEN eval(w, n.block) ELSE w
      [] n.is = "throw" -> Signal(eval(w, n.expr), "error")
      [] n.is = "assert" -> LET test == eval(w, n.expr)
                            IN  IF Normal(test) /\ ~to_boolean(test.value)
                                THEN Signal(test, "error") ELSE test
      [] n.is = "if" -> eval_if(w, n.conds, n.otherwise)
      [] n.is = "while" -> eval_while(w, n)
      [] n.is = "repeat" -> eval_repeat(w, n)
      [] n.is = "for" -> eval_for(w, n)
      [] n.is = "foreach" -> eval_foreach(w, n)
      [] n.is = "exit" -> Signal(w, n.lex)
      [] n.is = "routine" -> eval_routine(w, n)
      [] n.is = "return" -> LET e == eval(Value(w, Null), n.expr)
                            IN  IF Normal(e) THEN Signal(e, "return") ELSE e

\* A program of which nothing is done: text that is not a program, a declaration
\* of several names, or two parameters of one name.
Refused(n) ==
    \/ n.is = "declare" /\ Len(n.lhs) > 1
    \/ n.is = "routine" /\ \E i, j \in DOMAIN n.params :
                               i < j /\ n.params[i].name = n.params[j].name
Rejected(program) ==
    program.is = "malformed" \/ \E i \in DOMAIN program.list : Refused(program.list[i])

\* Programs of a session run one after the other; globals, functions and the last
\* option stay, the option even of a program that is rejected.
Performed(w, program) ==
    LET options == SelectSeq(program.list, IsOption)
        start == [w EXCEPT !.env = <<>>, !.own = {}, !.top = TRUE, !.signal = "", !.value = Null,
                           !.debug = IF options = <<>> THEN @ ELSE Last(options).debug]
        done == EvalSeq(start, SelectSeq(program.list, LAMBDA n : ~IsOption(n)))
    IN  IF Rejected(program) THEN [start EXCEPT !.out = Append(@, <<"rejected">>)]
        ELSE [done EXCEPT !.out = Append(@, IF done.signal = "error" THEN <<"error">>
                                                                     ELSE <<"done">>)]
Meaning(programs) == FoldLeft(Performed, Beginning, programs).out
=============================================================================
