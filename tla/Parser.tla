------------------------------- MODULE Parser -------------------------------
(***************************************************************************)
(* The parser: parser.cpp, one rule per function.  A rule takes the state  *)
(* of the parser to the one after what it has read; the node it made, or   *)
(* the sequence of nodes, is left in the field node.  All the calls of     *)
(* rules that may meet themselves go through parse.                        *)
(***************************************************************************)
EXTENDS Ast, Scanner

RECURSIVE parse(_, _)

\* debug: the mode of the runtime, in which debug statements are compiled.
initialize_parser(tokens, debug) ==
    [tokens |-> tokens, at |-> 1, node |-> None, debug |-> debug, failed |-> FALSE]

Lex(p) == p.tokens[p.at].id
Spelling(p) == p.tokens[p.at].spelling
fail(p) == [p EXCEPT !.failed = TRUE]
Node(p, node) == [p EXCEPT !.node = node]

\* The next token; none follows the end of the text, or a token that is no token.
advance(p) ==
    IF Lex(p) \in {"end of text", "invalid"} THEN p
    ELSE [p EXCEPT !.at = @ + 1, !.failed = @ \/ p.tokens[p.at + 1].id = "invalid"]
accept(p, lex) == IF Lex(p) = lex THEN advance(p) ELSE p
expect(p, lex) == IF p.failed \/ Lex(p) # lex THEN fail(p) ELSE advance(p)

Lines == {"end of line"}
Separators == {"end of line", ";"}
RECURSIVE skip(_, _)
skip(p, lexemes) == IF Lex(p) \in lexemes THEN skip(advance(p), lexemes) ELSE p

parse_identifier(p) == Node(expect(p, "identifier"), Variable(Spelling(p)))

-----------------------------------------------------------------------------
(* Sequences.                                                              *)

\* More nodes after a comma, after which the given tokens are skipped.
RECURSIVE More(_, _, _, _)
More(p, rule, nodes, skipped) ==
    LET next == parse(rule, skip(advance(p), skipped))
    IN  IF p.failed \/ Lex(p) # "," THEN Node(p, nodes)
        ELSE More(next, rule, Append(nodes, next.node), skipped)
OneOrMore(p, rule) ==
    LET first == parse(rule, p)
    IN  More(first, rule, <<first.node>>, {})

\* The statements up to one of the given tokens.
RECURSIVE Block(_, _, _)
Block(p, ends, list) ==
    LET statement == parse("statement", p)
    IN  IF p.failed \/ Lex(p) \in ends THEN Node(p, list)
        ELSE Block(skip(statement, Separators), ends, Append(list, statement.node))

parse_statements(p, open_scope) ==
    LET block == Block(skip(p, Separators), {"end"}, <<>>)
    IN  Node(advance(block), Statements(block.node, open_scope))
parse_if_block(p) ==
    LET block == Block(skip(p, Separators), {"end", "elsif", "else"}, <<>>)
    IN  Node(accept(block, "end"), Statements(block.node, TRUE))

-----------------------------------------------------------------------------
(* Expressions.                                                            *)

RECURSIVE LeftAssociative(_, _, _)
LeftAssociative(p, operators, rule) ==
    LET rhs == parse(rule, advance(p))
    IN  IF p.failed \/ Lex(p) \notin operators THEN p
        ELSE LeftAssociative(Node(rhs, Binary(Lex(p), p.node, rhs.node)), operators, rule)
RightAssociative(p, operator, rule, operand) ==
    LET lhs == parse(operand, p)
        rhs == parse(rule, advance(lhs))
    IN  IF lhs.failed \/ Lex(lhs) # operator THEN lhs
        ELSE Node(rhs, Binary(operator, lhs.node, rhs.node))

\* The block of the condition of a conditional expression is its value.
parse_conditional_expression(p) ==
    LET value == parse("or", p)
        cond == parse("expression", advance(value))
        other == parse("expression", expect(cond, "else"))
    IN  IF value.failed \/ Lex(value) # "if" THEN value
        ELSE Node(other, If(<<Condition(cond.node, value.node)>>, other.node))

parse_not_expression(p) ==
    LET e == parse("comp", accept(p, "not"))
    IN  IF Lex(p) = "not" THEN Node(e, Unary("not", e.node)) ELSE e

Comparisons == {"==", "!=", ">=", ">", "<=", "<", "<=>"}
\* One comparison at most.
parse_comp_expression(p) ==
    LET lhs == parse("additive", p)
        rhs == parse("additive", advance(lhs))
    IN  IF lhs.failed \/ Lex(lhs) \notin Comparisons THEN lhs
        ELSE Node(rhs, Binary(Lex(lhs), lhs.node, rhs.node))

\* Lines may end before and after the operator of a concatenation, save after the
\* first one.
RECURSIVE Concatenated(_, _)
Concatenated(p, list) ==
    LET next == parse("multiplicative", skip(advance(p), Lines))
    IN  IF p.failed \/ Lex(p) # "&" THEN Node(p, Concat(list))
        ELSE Concatenated(skip(next, Lines), Append(list, next.node))
parse_concat_expression(p) ==
    LET second == parse("multiplicative", advance(p))
    IN  Concatenated(skip(second, Lines), <<p.node, second.node>>)

parse_additive_expression(p) ==
    LET e == parse("multiplicative", p)
    IN  IF ~e.failed /\ Lex(e) = "&" THEN parse_concat_expression(e)
        ELSE LeftAssociative(e, {"+", "-"}, "multiplicative")

\* Mutant of parse_signed_expression: the sign binds more than the power.
parse_signed_expression_tight(p) ==
    LET e == parse("call", accept(p, "-"))
    IN  IF Lex(p) = "-" THEN Node(e, Unary("-", e.node)) ELSE parse("exponential", p)

parse_signed_expression(p) ==
    LET e == parse("exponential", accept(p, "-"))
    IN  IF Lex(p) = "-" THEN Node(e, Unary("-", e.node)) ELSE e

parse_arguments(p) ==
    IF Lex(p) = ")" THEN Node(advance(p), <<>>)
    ELSE expect(OneOrMore(p, "expression"), ")")

RECURSIVE Postfixes(_)
Postfixes(p) ==
    LET next == advance(p)
        name == parse_identifier(next)
        indexes == expect(OneOrMore(next, "expression"), "]")
        arguments == parse_arguments(next)
    IN  CASE p.failed \/ Lex(p) \notin {".", "[", "("} -> p
          [] ~p.failed /\ Lex(p) = "." -> Postfixes(Node(name, Binary(".", p.node, name.node)))
          [] ~p.failed /\ Lex(p) = "[" -> Postfixes(Node(indexes, Index(p.node, indexes.node)))
          [] ~p.failed /\ Lex(p) = "(" -> Postfixes(Node(arguments, Call(p.node, arguments.node)))

parse_list_literal(p) ==
    LET start == skip(p, Lines)
        first == parse("expression", start)
        items == More(skip(first, Lines), "expression", <<first.node>>, Lines)
    IN  IF Lex(start) = "]" THEN Node(advance(start), List(<<>>))
        ELSE Node(expect(skip(items, Lines), "]"), List(items.node))

\* The number of columns is that of the last row; of the rows before it all but
\* the first have been compared with the row before.
RECURSIVE ArrayItems(_, _, _, _, _)
ArrayItems(p, items, nrow, ncol, prev_ncol) ==
    LET next == parse("expression", skip(advance(p), Lines))
        more == Append(items, next.node)
        inconsistent == ncol # prev_ncol /\ prev_ncol # -1
    IN  CASE p.failed \/ Lex(p) \notin {",", ";"} ->
                 Node(expect(p, "]"), ArrayLiteral(items, nrow, ncol))
          [] ~p.failed /\ Lex(p) = "," ->
                 ArrayItems(skip(next, Lines), more, nrow, ncol + 1, prev_ncol)
          [] ~p.failed /\ Lex(p) = ";" ->
                 IF inconsistent THEN fail(p)
                 ELSE ArrayItems(skip(next, Lines), more, nrow + 1, 1, ncol)
parse_array_literal(p) ==
    LET start == skip(p, Lines)
        first == parse("expression", start)
    IN  IF Lex(start) = "]" THEN Node(advance(start), ArrayLiteral(<<>>, 0, 0))
        ELSE ArrayItems(skip(first, Lines), <<first.node>>, 1, 1, -1)

\* The keys and values, in turn.
RECURSIVE Pairs(_, _, _)
Pairs(p, keys, values) ==
    LET key == parse("expression", p)
        value == parse("expression", expect(key, ":"))
        next == skip(advance(value), Lines)
    IN  IF ~value.failed /\ Lex(value) = ","
        THEN Pairs(next, Append(keys, key.node), Append(values, value.node))
        ELSE Node(value, Table(Append(keys, key.node), Append(values, value.node)))
parse_table_literal(p) ==
    LET start == skip(p, Lines)
        first == parse("expression", start)
        set == More(first, "expression", <<first.node>>, Lines)
    IN  IF Lex(start) = "}" THEN Node(advance(start), Table(<<>>, <<>>))
        ELSE IF ~first.failed /\ Lex(first) = ":"
        THEN expect(skip(Pairs(start, <<>>, <<>>), Lines), "}")
        ELSE Node(expect(skip(set, Lines), "}"), Set(set.node))

RECURSIVE ToInteger(_)
ToInteger(digits) ==
    IF digits = "" THEN 0
    ELSE 10 * ToInteger(SubSeq(digits, 1, Len(digits) - 1))
         + CHOOSE d \in 0..9 : Char("0123456789", d + 1) = Char(digits, Len(digits))

parse_primary_expression(p) ==
    LET next == advance(p)
        e == parse("expression", next)
    IN  CASE Lex(p) = "identifier" -> Node(next, Variable(Spelling(p)))
          [] Lex(p) = "string literal" -> Node(next, Str(Spelling(p)))
          [] Lex(p) = "integer literal" -> Node(next, Integer(ToInteger(Spelling(p))))
          [] Lex(p) = "float literal" -> Node(next, Float(Spelling(p)))
          [] Lex(p) \in {"true", "false", "null", "nan"} -> Node(next, Constant(Lex(p)))
          [] Lex(p) = "[" -> parse_list_literal(next)
          [] Lex(p) = "@" -> parse_array_literal(expect(next, "["))
          [] Lex(p) = "{" -> parse_table_literal(next)
          [] Lex(p) = "(" -> expect(e, ")")
          [] OTHER -> fail(p)

-----------------------------------------------------------------------------
(* Functions.                                                              *)

parse_parameter(p) ==
    LET name == parse_identifier(accept(p, "ref"))
        typed == Lex(name) = "as"
        type == parse("expression", advance(name))
    IN  Node(IF typed THEN type ELSE name,
             Parameter(name.node.name, IF typed THEN type.node ELSE None, Lex(p) = "ref"))
parse_parameters(p) ==
    IF Lex(p) = ")" THEN Node(advance(p), <<>>)
    ELSE expect(OneOrMore(p, "parameter"), ")")

parse_function(p, name, local) ==
    LET params == parse_parameters(expect(p, "("))
        body == parse_statements(params, FALSE)
    IN  Node(body, Routine(name, params.node, body.node, local))
parse_function_declaration(p, local) == parse_function(parse_identifier(p), Spelling(p), local)
parse_function_expression(p) == parse_function(p, "", TRUE)

parse_ref_expression(p) ==
    LET e == parse("expression", advance(p))
    IN  CASE Lex(p) = "ref" -> Node(e, Reference(e.node))
          [] Lex(p) = "function" -> parse_function_expression(advance(p))
          [] OTHER -> parse_primary_expression(p)

-----------------------------------------------------------------------------
(* Statements; p is after the word that names the statement.               *)

\* A comma at the end of the line keeps the line open.
RECURSIVE PrintItems(_, _)
PrintItems(p, list) ==
    LET next == advance(p)
        e == parse("expression", next)
    IN  CASE p.failed \/ Lex(p) # "," -> Node(p, Printed(list, TRUE))
          [] ~p.failed /\ Lex(p) = "," /\ Lex(next) = "end of line" ->
                 Node(advance(next), Printed(list, FALSE))
          [] OTHER -> PrintItems(e, Append(list, e.node))
parse_print_statement(p) ==
    LET first == parse("expression", p)
    IN  PrintItems(first, <<first.node>>)

parse_expression_statement(p) ==
    LET e == parse("expression", p)
        rhs == parse("expression", advance(e))
        operator == SubSeq(Lex(e), 1, Len(Lex(e)) - 1)
    IN  CASE Lex(e) = "=" -> Node(rhs, Assign(e.node, "=", rhs.node))
          [] Lex(e) \in {"+=", "-=", "*=", "/=", "&=", "^=", "%="} ->
                 Node(rhs, Assign(e.node, operator, rhs.node))
          [] OTHER -> IF e.node.is = "call" THEN Node(e, Discarded(e.node)) ELSE e

\* Without "=", values that follow a comma are names.
parse_declaration(p, local) ==
    LET lhs == OneOrMore(p, "identifier")
        names == [i \in DOMAIN lhs.node |-> lhs.node[i].name]
        rhs == OneOrMore(advance(lhs), "expression")
    IN  IF lhs.failed \/ Lex(lhs) # "=" THEN Node(lhs, Declare(names, <<>>, local))
        ELSE IF Len(rhs.node) # Len(names) THEN fail(rhs)
        ELSE Node(rhs, Declare(names, rhs.node, local))
parse_local(p) ==
    LET start == skip(p, Lines)
    IN  IF Lex(start) = "function" THEN parse_function_declaration(advance(start), TRUE)
        ELSE parse_declaration(accept(start, "var"), TRUE)

parse_assertion(p) ==
    LET e == parse("expression", p)
        msg == parse("expression", advance(e))
    IN  IF e.failed \/ Lex(e) # "," THEN Node(e, Assertion(e.node, None))
        ELSE Node(msg, Assertion(e.node, msg.node))

parse_condition(p) ==
    LET cond == parse("expression", p)
        block == parse_if_block(expect(cond, "then"))
    IN  Node(block, Condition(cond.node, block.node))
RECURSIVE Conditions(_, _)
Conditions(p, conds) ==
    LET next == parse_condition(advance(p))
        otherwise == parse_if_block(advance(p))
    IN  CASE ~p.failed /\ Lex(p) = "elsif" -> Conditions(next, Append(conds, next.node))
          [] ~p.failed /\ Lex(p) = "else" -> Node(otherwise, If(conds, otherwise.node))
          [] OTHER -> Node(p, If(conds, None))
parse_if_statement(p) ==
    LET first == parse_condition(p)
    IN  Conditions(first, <<first.node>>)

parse_while_statement(p) ==
    LET cond == parse("expression", p)
        body == parse_statements(expect(cond, "do"), TRUE)
    IN  Node(body, While(cond.node, body.node))

parse_repeat_statement(p) ==
    LET block == Block(skip(p, Lines), {"until"}, <<>>)
        cond == parse("expression", advance(block))
    IN  Node(cond, Repeat(cond.node, Statements(block.node, FALSE)))

parse_for_statement(p) ==
    LET var == parse_identifier(accept(p, "var"))
        start == parse("expression", expect(var, "="))
        down == Lex(start) = "downto"
        end == parse("expression", expect(start, IF down THEN "downto" ELSE "to"))
        stepped == Lex(end) = "step"
        step == parse("expression", advance(end))
        block == parse_statements(expect(IF stepped THEN step ELSE end, "do"), FALSE)
    IN  Node(block, For(var.node.name, start.node, end.node,
                        IF stepped THEN step.node ELSE None, block.node, down))

\* With one name, this is the value.  A key by reference is an error.
LoopName(p) ==
    LET name == parse_identifier(accept(p, "ref"))
    IN  IF Lex(p) = "ref" THEN Node(name, Reference(name.node)) ELSE name
AsReference(node) == IF node.is = "reference" THEN node ELSE Reference(node)
parse_foreach_statement(p) ==
    LET first == LoopName(p)
        keyed == Lex(first) = ","
        value == IF keyed THEN LoopName(advance(first)) ELSE first
        collection == parse("expression", expect(value, "in"))
        block == parse_statements(expect(collection, "do"), FALSE)
    IN  IF keyed /\ Lex(p) = "ref" THEN fail(p)
        ELSE Node(block, Foreach(IF keyed THEN first.node.name ELSE "", value.node,
                                 AsReference(collection.node), block.node))

parse_return_statement(p) ==
    LET e == parse("expression", p)
    IN  IF Lex(p) \in Separators THEN Node(p, Return(None)) ELSE Node(e, Return(e.node))

parse_debug_statement(p) ==
    LET body == IF Lex(p) = "end of line" THEN parse_statements(advance(p), TRUE)
                ELSE parse("statement", p)
    IN  Node(body, Debug(body.node))

parse_throw_statement(p) ==
    LET e == parse("expression", p)
    IN  Node(e, Throw(e.node))

parse_statement(p) ==
    LET next == advance(p)
    IN  CASE Lex(p) = "print" -> parse_print_statement(next)
          [] Lex(p) = "local" -> parse_local(next)
          [] Lex(p) = "var" -> parse_declaration(next, FALSE)
          [] Lex(p) = "if" -> parse_if_statement(next)
          [] Lex(p) = "while" -> parse_while_statement(next)
          [] Lex(p) = "for" -> parse_for_statement(next)
          [] Lex(p) = "foreach" -> parse_foreach_statement(next)
          [] Lex(p) = "function" -> parse_function_declaration(next, FALSE)
          [] Lex(p) = "return" -> parse_return_statement(next)
          [] Lex(p) = "repeat" -> parse_repeat_statement(next)
          [] Lex(p) \in {"break", "continue"} -> Node(next, LoopExit(Lex(p)))
          [] Lex(p) = "assert" -> parse_assertion(next)
          [] Lex(p) = "do" -> parse_statements(next, TRUE)
          [] Lex(p) = "debug" -> parse_debug_statement(next)
          [] Lex(p) = "throw" -> parse_throw_statement(next)
          [] Lex(p) = "pass" -> Node(next, Constant("pass"))
          [] OTHER -> parse_expression_statement(p)

\* Only the option of debugging is known.  It stays when the rest is refused.
RECURSIVE parse_options(_)
parse_options(p) ==
    LET option == expect(advance(p), "debug")
        given == Lex(option) = "="
        value == advance(option)
        next == skip(IF given THEN advance(value) ELSE option, Lines)
    IN  IF p.failed \/ Lex(p) # "option" THEN p
        ELSE IF given /\ Lex(value) \notin {"true", "false"} THEN fail(p)
        ELSE IF option.failed \/ next.failed THEN fail(p)
        ELSE parse_options([next EXCEPT !.debug = ~given \/ Lex(value) = "true"])
parse_script(p) ==
    LET block == Block(parse_options(skip(p, Separators)), {"end of text"}, <<>>)
    IN  Node(block, Statements(block.node, FALSE))

-----------------------------------------------------------------------------
parse(rule, p) ==
    IF p.failed THEN p ELSE
    CASE rule = "script" -> parse_script(p)
      [] rule = "statement" -> parse_statement(p)
      [] rule = "identifier" -> parse_identifier(p)
      [] rule = "parameter" -> parse_parameter(p)
      [] rule = "expression" -> parse_conditional_expression(p)
      [] rule = "or" -> RightAssociative(p, "or", "or", "and")
      [] rule = "and" -> RightAssociative(p, "and", "and", "not")
      [] rule = "not" -> parse_not_expression(p)
      [] rule = "comp" -> parse_comp_expression(p)
      [] rule = "additive" -> parse_additive_expression(p)
      [] rule = "multiplicative" ->
             LeftAssociative(parse("signed", p), {"*", "/", "%"}, "signed")
      [] rule = "signed" -> parse_signed_expression(p)
      [] rule = "exponential" -> LeftAssociative(parse("call", p), {"^"}, "call")
      [] rule = "call" -> Postfixes(parse_ref_expression(p))

parse_string(text, debug) == parse("script", initialize_parser(load_string(text), debug))
parse_file(bytes, debug) ==
    LET source == load_file(bytes)
        p == initialize_parser(Tokens(source.text, 1), debug)
    IN  IF source.failed THEN fail(p) ELSE parse("script", p)
=============================================================================
