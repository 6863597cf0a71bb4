------------------------------- MODULE Writer -------------------------------
(***************************************************************************)
(* The text of a script, written from its syntax tree with as few          *)
(* parentheses as the precedence of the operators allows.  It is told from *)
(* the table of precedences, not from the parser: reading what is written  *)
(* gives the tree back.                                                    *)
(***************************************************************************)
EXTENDS Ast

\* The operators, from the one that binds least; all of them associate to the
\* left but "or" and "and", and comparisons do not associate.
Precedence == <<{"if"}, {"or"}, {"and"}, {"not"}, {"==", "!=", "<", "<=", ">", ">=", "<=>"},
                {"&"}, {"+", "-"}, {"*", "/", "%"}, {"sign"}, {"^"}, {"."}>>
Level(op) == CHOOSE i \in DOMAIN Precedence : op \in Precedence[i]
Highest == Len(Precedence)

\* The operator at the root of a node.
Root(n) ==
    CASE n.is \in {"if", "reference"} -> "if"
      [] n.is = "unary" -> IF n.op = "-" THEN "sign" ELSE "not"
      [] n.is = "binary" -> n.op
      [] n.is = "concat" -> "&"
      [] OTHER -> "."

RECURSIVE write(_)
\* An operand of an operator of the given level.
Operand(n, level) == IF Level(Root(n)) < level THEN "(" \o write(n) \o ")" ELSE write(n)
Expression(n) == Operand(n, 1)

Text(parts) == FoldLeft(LAMBDA s, part : s \o part, "", parts)
\* The nodes, with the given text before all but the first.
Separated(nodes, separator) ==
    Text([i \in DOMAIN nodes |-> (IF i = 1 THEN "" ELSE separator) \o Expression(nodes[i])])
Given(condition, text) == IF condition THEN text ELSE ""

BinaryText(n) ==
    LET level == Level(n.op)
        left == IF n.op \in {"or", "and"} \union Precedence[5] THEN level + 1 ELSE level
        right == IF n.op \in {"or", "and"} THEN level ELSE level + 1
    IN  IF n.op = "." THEN Operand(n.lhs, Highest) \o "." \o n.rhs.name
        ELSE Operand(n.lhs, left) \o " " \o n.op \o " " \o Operand(n.rhs, right)

Quoted(value) ==
    LET char(i) == SubSeq(value, i, i)
    IN  "\"" \o Text([i \in 1..Len(value) |-> Given(char(i) = "\"", "\\") \o char(i)]) \o "\""

\* The rows of an array end with semicolons.
ArrayText(n) ==
    Text([i \in DOMAIN n.items |->
        Expression(n.items[i]) \o
        (IF i = Len(n.items) THEN "" ELSE IF i % n.ncol = 0 THEN ";\n" ELSE ", ")])
TableText(n) ==
    Text([i \in DOMAIN n.keys |-> Given(i > 1, ",\n") \o Expression(n.keys[i]) \o ": "
                                  \o Expression(n.values[i])])

ParameterText(p) ==
    Given(p.by_ref, "ref ") \o p.name \o (IF p.type = None THEN "" ELSE " as " \o Expression(p.type))
RoutineText(n) ==
    Given(n.name # "" /\ n.local, "local ") \o "function " \o n.name \o "("
    \o Text([i \in DOMAIN n.params |-> Given(i > 1, ", ") \o ParameterText(n.params[i])])
    \o ")\n" \o write(n.body) \o "end"

DeclareText(n) ==
    (IF n.local THEN "local " ELSE "var ")
    \o Text([i \in DOMAIN n.lhs |-> Given(i > 1, ", ") \o n.lhs[i]])
    \o (IF n.rhs = <<>> THEN "" ELSE " = " \o Separated(n.rhs, ", "))

IfText(n) ==
    Text([i \in DOMAIN n.conds |->
        (IF i = 1 THEN "if " ELSE "elsif ") \o Expression(n.conds[i].cond) \o " then\n"
        \o write(n.conds[i].block)])
    \o (IF n.otherwise = None THEN "" ELSE "else\n" \o write(n.otherwise)) \o "end"
ConditionalText(n) ==
    Operand(n.conds[1].block, 2) \o " if " \o Expression(n.conds[1].cond) \o " else "
    \o Expression(n.otherwise)
IsStatement(n) == n.is = "statements"

\* A statement, with the separator after it: a concatenation goes on over the end
\* of its line.
Statement(n) ==
    (IF IsStatement(n) THEN "do\n" \o write(n) \o "end" ELSE write(n))
    \o (IF n.is \in {"print", "assign", "declare"} THEN ";\n" ELSE "\n")

write(n) ==
    CASE n.is = "constant" -> n.lex
      [] n.is \in {"integer"} -> ToString(n.value)
      [] n.is = "float" -> n.value
      [] n.is = "string" -> Quoted(n.value)
      [] n.is = "variable" -> n.name
      [] n.is = "list" -> "[" \o Separated(n.items, ",\n") \o "]"
      [] n.is = "array" -> "@[" \o ArrayText(n) \o "]"
      [] n.is = "table" -> "{" \o TableText(n) \o "}"
      [] n.is = "set" -> "{" \o Separated(n.values, ", ") \o "}"
      [] n.is = "reference" -> "ref " \o Expression(n.expr)
      [] n.is = "unary" -> IF n.op = "-" THEN "-" \o Operand(n.expr, Level("^"))
                           ELSE "not " \o Operand(n.expr, Level("=="))
      [] n.is = "binary" -> BinaryText(n)
      [] n.is = "concat" -> Text([i \in DOMAIN n.list |->
             Given(i > 1, " & ") \o Given(i > 2, "\n") \o Operand(n.list[i], Level("*"))])
      [] n.is = "call" -> Operand(n.expr, Highest) \o "(" \o Separated(n.args, ", ") \o ")"
      [] n.is = "index" -> Operand(n.expr, Highest) \o "[" \o Separated(n.indexes, ", ") \o "]"
      [] n.is = "assign" -> Expression(n.lhs) \o " " \o Given(n.op # "=", n.op) \o "= "
                            \o Expression(n.rhs)
      [] n.is = "declare" -> DeclareText(n)
      [] n.is = "statements" -> Text([i \in DOMAIN n.list |-> Statement(n.list[i])])
      [] n.is = "print" -> "print " \o Separated(n.list, ", ") \o Given(~n.new_line, ",\n")
      [] n.is = "option" -> "option debug" \o Given(~n.debug, " = false")
      [] n.is = "malformed" -> Text([i \in DOMAIN n.list |-> Statement(n.list[i])]) \o n.text
      [] n.is = "debug" -> "debug " \o (IF IsStatement(n.block) THEN "\n" \o write(n.block) \o "end"
                                        ELSE write(n.block))
      [] n.is = "throw" -> "throw " \o Expression(n.expr)
      [] n.is = "assert" -> "assert " \o Expression(n.expr)
                            \o (IF n.msg = None THEN "" ELSE ", " \o Expression(n.msg))
      [] n.is = "if" -> IF IsStatement(n.conds[1].block) THEN IfText(n) ELSE ConditionalText(n)
      [] n.is = "while" -> "# while\nwhile " \o Expression(n.cond) \o " do\n" \o write(n.body) \o "end"
      [] n.is = "repeat" -> "repeat\n" \o write(n.body) \o "until " \o Expression(n.cond)
      [] n.is = "for" -> "for var " \o n.var \o " = " \o Expression(n.start)
             \o (IF n.down THEN " downto " ELSE " to ") \o Expression(n.end)
             \o (IF n.step = None THEN "" ELSE " step " \o Expression(n.step))
             \o " do\n" \o write(n.block) \o "end"
      [] n.is = "foreach" -> "foreach " \o (IF n.key = "" THEN "" ELSE n.key \o ", ")
             \o Expression(n.value) \o " in " \o Expression(n.collection)
             \o " do\n" \o write(n.block) \o "end"
      [] n.is = "exit" -> n.lex
      [] n.is = "routine" -> RoutineText(n)
      [] n.is = "return" -> IF n.expr = None THEN "return" ELSE "return " \o Expression(n.expr)

\* The text of a program.
Source(program) == Expression(program)
=============================================================================
