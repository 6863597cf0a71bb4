-------------------------------- MODULE Ast --------------------------------
(***************************************************************************)
(* The nodes of the syntax tree: ast.hpp.  The field "is" names the kind   *)
(* of a node; an operator is the spelling of its token.  Line numbers and  *)
(* the flags that only the compiler uses are left out.                     *)
(***************************************************************************)
EXTENDS Integers, Sequences, SequencesExt

None == [is |-> "none"]

Constant(lex) == [is |-> "constant", lex |-> lex]
Integer(value) == [is |-> "integer", value |-> value]
Float(value) == [is |-> "float", value |-> value]
Str(value) == [is |-> "string", value |-> value]
List(items) == [is |-> "list", items |-> items]
ArrayLiteral(items, nrow, ncol) ==
    [is |-> "array", items |-> items, nrow |-> nrow, ncol |-> ncol]
Table(keys, values) == [is |-> "table", keys |-> keys, values |-> values]
Set(values) == [is |-> "set", values |-> values]
Variable(name) == [is |-> "variable", name |-> name]

Reference(expr) == [is |-> "reference", expr |-> expr]
Unary(op, expr) == [is |-> "unary", op |-> op, expr |-> expr]
Binary(op, lhs, rhs) == [is |-> "binary", op |-> op, lhs |-> lhs, rhs |-> rhs]
Concat(list) == [is |-> "concat", list |-> list]
\* discard: the call is a statement, which drops its result.
Call(expr, args) == [is |-> "call", expr |-> expr, args |-> args, discard |-> FALSE]
Discarded(call) == [call EXCEPT !.discard = TRUE]
Index(expr, indexes) == [is |-> "index", expr |-> expr, indexes |-> indexes]

Assign(lhs, op, rhs) == [is |-> "assign", lhs |-> lhs, op |-> op, rhs |-> rhs]
\* The names that are declared, and as many values or none.
Declare(lhs, rhs, local) ==
    [is |-> "declare", lhs |-> lhs, rhs |-> rhs, local |-> local]
Statements(list, scope) == [is |-> "statements", list |-> list, open_scope |-> scope]
Printed(list, newline) == [is |-> "print", list |-> list, new_line |-> newline]
Debug(block) == [is |-> "debug", block |-> block]
Throw(expr) == [is |-> "throw", expr |-> expr]
Assertion(expr, msg) == [is |-> "assert", expr |-> expr, msg |-> msg]
Condition(cond, block) == [cond |-> cond, block |-> block]
If(conds, otherwise) == [is |-> "if", conds |-> conds, otherwise |-> otherwise]
While(cond, body) == [is |-> "while", cond |-> cond, body |-> body]
Repeat(cond, body) == [is |-> "repeat", cond |-> cond, body |-> body]
\* A name that is not there, such as the key of a foreach loop, is empty.
For(var, start, end, step, block, down) ==
    [is |-> "for", var |-> var, start |-> start, end |-> end, step |-> step,
     block |-> block, down |-> down]
Foreach(key, value, collection, block) ==
    [is |-> "foreach", key |-> key, value |-> value, collection |-> collection,
     block |-> block]
LoopExit(lex) == [is |-> "exit", lex |-> lex]
Parameter(name, type, by_ref) == [name |-> name, type |-> type, by_ref |-> by_ref]
\* The name of a function expression is empty.
Routine(name, params, body, local) ==
    [is |-> "routine", name |-> name, params |-> params, body |-> body, local |-> local]
Return(expr) == [is |-> "return", expr |-> expr]

-----------------------------------------------------------------------------
(* What a script has besides the tree.  The parser takes the options, which *)
(* come first, and text that is no program has no tree.                    *)

Option(debug) == [is |-> "option", debug |-> debug]
IsOption(n) == n.is = "option"
Malformed(options, text) == [is |-> "malformed", list |-> options, text |-> text]
=============================================================================
