----------------------------- MODULE MCMachine -----------------------------
(***************************************************************************)
(* Scripts for the scanner, the parser, the compiler and the virtual       *)
(* machine together.  They are told as syntax trees, after the scripts in  *)
(* tests/; Writer makes the text which Parser reads.                       *)
(***************************************************************************)
EXTENDS Compiler, Machine

CONSTANTS Mean(_),     \* the meaning of a session
          Readable(_)  \* whether its scripts are read as they are told

Lang == INSTANCE Language
Written == INSTANCE Writer
Reader == INSTANCE Parser

\* Shorthands.
X(name) == Variable(name)
N(n) == Integer(n)
Say(e) == Printed(<<e>>, TRUE)
Block(list) == Statements(list, TRUE)
Body(list) == Statements(list, FALSE)
Var(name, e) == Declare(<<name>>, <<e>>, FALSE)
Put(name, e) == Assign(X(name), "=", e)
Bump(name, n) == Assign(X(name), "+", N(n))
Op2(l, op, r) == Binary(op, l, r)
By(name) == Parameter(name, None, FALSE)
ByRef(name) == Parameter(name, None, TRUE)
Fun(name, params, list) == Routine(name, params, Body(list), FALSE)
Lambda(params, list) == Routine("", params, Body(list), TRUE)
Do(f, args) == Discarded(Call(X(f), args))
Of(f, args) == Call(X(f), args)
When(cond, list) == If(<<Condition(cond, Block(list))>>, None)
At(list, i) == Index(X(list), <<i>>)
PutAt(list, i, e) == Assign(At(list, i), "=", e)
\* The parser takes a reference to the collection of foreach.
Each(key, var, e, list) == Foreach(key, X(var), Reference(e), Body(list))
One(list) == <<Body(list)>>
InFunction(list) == <<Fun("main", <<>>, list), Do("main", <<>>)>>

-----------------------------------------------------------------------------
(* Two nested loops of every kind, left or continued in the middle.        *)

\* A loop over 1, 2, 3; the variable is var.
Loop(kind, var, list) ==
    CASE kind = "while" ->
            Block(<<Var(var, N(0)),
                    While(Op2(X(var), "<", N(3)), Block(<<Bump(var, 1)>> \o list))>>)
      [] kind = "repeat" ->
            Block(<<Var(var, N(0)),
                    Repeat(Op2(X(var), ">=", N(3)), Body(<<Bump(var, 1)>> \o list))>>)
      [] kind = "for" -> For(var, N(1), N(3), None, Body(list), FALSE)
      [] kind = "downto" -> For(var, N(6), N(1), N(2), Body(list), TRUE)
      [] kind = "foreach" -> Each("", var, List(<<N(3), N(1), N(2)>>), list)

Leave(lex, var, n) ==
    IF lex = "" THEN <<>> ELSE <<When(Op2(X(var), "==", N(n)), <<LoopExit(lex)>>)>>

Nested(outer, inner, first, second) ==
    <<Var("sum", N(0)),
      Loop(outer, "i", Leave(second, "i", 3) \o
           <<Loop(inner, "j", Leave(first, "j", 2) \o
                              <<Assign(X("sum"), "+", X("j")), Say(X("j"))>>)>>
           \o Leave(second, "i", 2) \o <<Say(X("i")), Block(<<Var("k", X("i"))>>)>>),
      Say(X("sum"))>>

Kinds == {"while", "repeat", "for", "downto", "foreach"}
Exits == {<<"", "">>, <<"break", "continue">>, <<"continue", "break">>, <<"continue", "">>}
\* A continue of repeat does not test the condition: it is not used here.
Proper(kind, lex) == ~(kind = "repeat" /\ lex = "continue")
LoopProgram(o, i, e) ==
    Body(IF e[1] = "" THEN Nested(o, i, e[1], e[2]) ELSE InFunction(Nested(o, i, e[1], e[2])))
LoopSessions ==
    FoldSet(LAMBDA t, done : Append(done, <<LoopProgram(t[1], t[2], t[3])>>), <<>>,
            {t \in Kinds \X Kinds \X Exits : Proper(t[2], t[3][1]) /\ Proper(t[1], t[3][2])})

-----------------------------------------------------------------------------
(* Functions, closures, references, lists.                                 *)

Counter == Fun("counter", <<By("n")>>,
               <<Fun("next", <<>>, <<Bump("n", 1), Return(X("n"))>>), Return(X("next"))>>)

FunctionSessions == <<
    \* Two counters do not share their variable.
    One(<<Counter, Var("a", Of("counter", <<N(1)>>)), Var("b", Of("counter", <<N(5)>>)),
      Do("a", <<>>), Say(Of("a", <<>>)), Say(Of("b", <<>>)), Say(Of("a", <<>>))>>),
    \* Two closures and the function they are in share one.
    One(InFunction(<<Var("x", N(1)), Fun("up", <<>>, <<Bump("x", 1)>>),
                 Fun("show", <<>>, <<Say(X("x"))>>), Do("up", <<>>), Put("x", Op2(X("x"), "*", N(2))),
                 Do("show", <<>>), Do("up", <<>>), Say(X("x"))>>)),
    \* Two levels.
    One(InFunction(<<Var("x", N(1)),
                 Fun("middle", <<>>,
                     <<Fun("inner", <<>>, <<Bump("x", 1), Return(X("x"))>>), Return(X("inner"))>>),
                 Var("f", Of("middle", <<>>)), Say(Call(X("f"), <<>>)), Say(X("x"))>>)),
    \* Every turn of foreach has its own variable.
    One(InFunction(<<Var("fs", List(<<>>)), Declare(<<"f">>, <<>>, FALSE),
                 Each("k", "v", List(<<N(7), N(8)>>),
                    <<Put("f", Constant("null")), Put("f", Lambda(<<>>, <<Return(Op2(X("v"), "+", X("k")))>>)),
                      Do("append", <<X("fs"), X("f")>>)>>),
                 Each("", "f", X("fs"), <<Say(Of("f", <<>>))>>)>>)),
    \* Recursion, and arguments that are calls.
    One(<<Fun("fact", <<By("n")>>,
          <<When(Op2(X("n"), "<", N(2)), <<Return(N(1))>>),
            Return(Op2(X("n"), "*", Of("fact", <<Op2(X("n"), "-", N(1))>>)))>>),
      Say(Of("fact", <<Op2(Of("fact", <<N(2)>>), "+", N(2))>>))>>),
    \* References to locals and globals, passed on.
    One(<<Fun("swap", <<ByRef("a"), ByRef("b")>>,
          <<Var("t", X("a")), Put("a", X("b")), Put("b", X("t"))>>),
      Fun("rotate", <<ByRef("a"), ByRef("b"), ByRef("c")>>,
          <<Do("swap", <<X("a"), X("b")>>), Do("swap", <<X("b"), X("c")>>)>>),
      Var("x", N(1)), Var("y", N(2)), Block(<<Var("z", N(3)), Do("rotate", <<X("x"), X("y"), X("z")>>),
      Say(X("z"))>>), Printed(<<X("x"), X("y")>>, FALSE)>>),
    \* By value nothing comes back.
    One(InFunction(<<Var("l", List(<<N(1)>>)), Fun("grow", <<By("l")>>, <<Do("append", <<X("l"), N(2)>>), Return(X("l"))>>),
                 Say(Of("grow", <<X("l")>>)), Say(X("l")), Do("append", <<X("l"), X("l")>>), Say(X("l")),
                 Say(Index(X("l"), <<Unary("-", N(1))>>))>>)),
    \* Overloads, also of a local function and of a native one.
    One(<<Fun("f", <<By("a"), By("b")>>, <<Say(N(2))>>), Fun("f", <<>>, <<Say(N(0))>>),
      Fun("f", <<By("a")>>, <<Say(N(1))>>), Do("f", <<N(5)>>), Do("f", <<>>), Do("f", <<N(5), N(6)>>),
      Block(<<Fun("append", <<By("a")>>, <<Return(X("a"))>>), Say(Of("append", <<N(3)>>)),
              Fun("append", <<>>, <<Return(N(4))>>), Say(Of("append", <<>>)), Say(Of("append", <<N(9)>>))>>),
      Var("l", List(<<>>)), Do("append", <<X("l"), N(1)>>), Say(X("l"))>>),
    \* A reference is another name.
    One(<<Var("x", List(<<N(1), N(2)>>)), Var("y", Reference(X("x"))), PutAt("x", N(1), N(5)), Say(X("y")),
      PutAt("y", Unary("-", N(1)), Op2(At("x", N(1)), "+", N(1))), Assign(At("x", N(1)), "+", N(2)), Say(X("x")),
      Block(<<Var("a", N(1)), Var("b", Reference(X("a"))), Put("b", N(2)), Say(X("a")),
              Fun("g", <<>>, <<Var("c", Reference(X("a"))), Bump("c", 1)>>), Do("g", <<>>), Say(X("b"))>>)>>),
    \* A captured list is changed in place.
    One(InFunction(<<Var("l", List(<<N(1), N(2)>>)),
                 Fun("set", <<By("i"), By("v")>>, <<PutAt("l", X("i"), X("v"))>>),
                 Do("set", <<N(2), N(9)>>), Var("m", X("l")), Do("set", <<N(1), Constant("null")>>),
                 Say(X("l")), Say(X("m"))>>)),
    \* The collection grows while it is visited.
    One(InFunction(<<Var("l", List(<<N(1)>>)), Each("", "v", X("l"), <<Say(X("v")),
                    When(Op2(X("v"), "<", N(3)), <<Do("append", <<X("l"), Op2(X("v"), "+", N(1))>>)>>)>>)>>)),
    \* Conditional expressions, concatenation, operators.
    One(InFunction(<<Var("x", N(3)),
                 Say(If(<<Condition(Op2(X("x"), ">", N(2)), Str("big"))>>, Str("small"))),
                 Say(If(<<Condition(Unary("not", X("x")), N(1))>>, If(<<Condition(Op2(X("x"), "!=", N(3)), N(2))>>, N(3)))),
                 Say(Concat(<<Str("x"), X("x"), List(<<X("x")>>)>>)),
                 Say(Op2(Unary("-", X("x")), "<=", Op2(N(1), "-", X("x")))),
                 Say(Op2(X("x"), "==", Constant("null"))), Say(Op2(Constant("true"), "and", Constant("true"))),
                 Say(Op2(Constant("false"), "or", X("x"))),
                 Assertion(X("x"), None),
                 If(<<Condition(Op2(X("x"), "==", N(1)), Block(<<>>)), Condition(Op2(X("x"), "==", N(3)), Block(<<Say(N(1))>>))>>,
                    Block(<<Say(N(2))>>))>>)),
    \* Shadowing, and a local of the module next to a global.
    One(<<Var("x", N(1)), Block(<<Var("x", N(2)), Block(<<Var("x", N(3)), Say(X("x"))>>), Say(X("x"))>>), Say(X("x")),
      Declare(<<"y">>, <<N(4)>>, TRUE), Fun("f", <<>>, <<Return(X("y"))>>), Put("y", N(5)), Say(Of("f", <<>>)),
      Fun("g", <<By("x")>>, <<Put("x", Op2(X("x"), "+", N(1))), Return(X("x"))>>), Say(Of("g", <<X("x")>>)), Say(X("x"))>>)
    >>

-----------------------------------------------------------------------------
(* Programs that end with an error in the middle of calls and loops, and   *)
(* programs that run after them.                                           *)

Faults == <<
    Throw(Str("stop")), Say(X("nowhere")), Put("nowhere", N(1)), Say(Op2(X("l"), "+", N(1))),
    Printed(<<X("v"), List(<<X("g"), X("tick")>>)>>, TRUE), Say(Concat(<<X("v"), X("tick")>>)),
    Say(Op2(N(MaxInteger), "+", X("v"))), Say(Op2(X("v"), "==", Str("v"))), Do("append", <<X("v")>>),
    Do("append", <<X("v"), X("v")>>), Do("v", <<>>), Say(At("l", N(3))), PutAt("l", N(0), N(1)),
    Each("", "w", X("v"), <<>>), Assertion(Constant("null"), None),
    Assertion(Op2(X("v"), ">", N(1)), Str("small")), Say(Unary("-", X("l"))),
    Var("r", Reference(X("nowhere"))), Do("append", <<X("nowhere"), N(1)>>), PutAt("nowhere", N(1), N(2)),
    Fun("h", <<>>, <<>>), Block(<<Fun("k", <<By("a")>>, <<>>), Fun("k", <<ByRef("a"), By("b")>>, <<>>)>>)
    >>
Failing(fault) == Body(<<
    Var("g", N(1)), Counter, Var("tick", Of("counter", <<X("g")>>)),
    Fun("h", <<By("l")>>,
        <<Each("", "v", X("l"), <<Bump("g", 1), Fun("h", <<>>, <<>>), Do("tick", <<>>), fault>>)>>),
    Say(Concat(<<Str("a"), Of("h", <<List(<<N(1), N(2)>>)>>)>>))>>)
\* A global is defined twice, and with another kind of parameter.
FailingOutside == <<
    Body(<<Var("g", N(1)), Var("tick", Lambda(<<>>, <<Return(N(3))>>)), Var("g", N(2))>>),
    Body(<<Var("g", N(4)), Fun("tick", <<>>, <<Return(N(5))>>), Fun("tick", <<By("a")>>, <<>>),
           Fun("tick", <<ByRef("a"), By("b")>>, <<>>)>>) >>
After == Body(<<Say(X("g")), Bump("g", 1), Say(Of("tick", <<>>)),
                For("i", N(1), X("g"), None, Body(<<Say(X("i"))>>), FALSE),
                Fun("last", <<By("a")>>, <<Var("b", X("a")), Return(X("b"))>>),
                Say(Of("last", <<X("g")>>))>>)

FailingSessions == [i \in DOMAIN Faults |-> <<Failing(Faults[i]), After>>]
                   \o << <<FailingOutside[1], After>>, <<FailingOutside[2], After>> >>
\* The compiler rejects a program; this is the last of the session (Compiler keeps
\* what an error leaves in its fields: see the precautions).
RejectedSessions == <<
    <<Body(<<Var("x", N(1)), Fun("f", <<By("a")>>, <<Return(X("x"))>>)>>), Body(<<Say(Of("f", <<N(2)>>))>>),
      Body(<<Put("x", N(3)), Declare(<<"a", "b">>, <<N(1), N(2)>>, FALSE)>>)>>,
    <<Body(<<Say(N(1)), Fun("f", <<By("a"), By("a")>>, <<>>)>>)>> >>

-----------------------------------------------------------------------------
(* Text that is refused, and debugging, which the options of a script turn *)
(* off for the scripts that come after it too.                             *)

Debugging(n) == Body(<<Debug(Say(N(n))), Say(N(n + 1)), Debug(Block(<<Say(N(n + 2))>>))>>)
With(options, program) == [program EXCEPT !.list = options \o @]
RefusedTexts == {"print (1 2)", "if x then print 1", "var = 3", "print @[1, 2; 3; 4, 5]", "f(1", "var a, b = 1",
    "foreach ref k, v in [1] do end", "print 1 +", "print x & 1 + 2", "print 1 == 2 == 3", "x.1", "while true print 1 end",
    "if true then end # comment\nelse end end", "for i = 1 until 3 do end", "print {1: 2, 3}", "do $ end", "= 1"}
TextSessions ==
    FoldSet(LAMBDA text, done : Append(done, <<Body(<<Var("x", N(1))>>), Malformed(<<>>, text), Body(<<Say(X("x"))>>)>>),
            <<>>, RefusedTexts) \o <<
    <<Debugging(1), With(<<Option(FALSE)>>, Debugging(4)), Debugging(7), With(<<Option(FALSE), Option(TRUE)>>, Debugging(1))>>,
    <<Malformed(<<Option(FALSE)>>, "print )"), Debugging(1), Malformed(<<Option(TRUE)>>, "option fast"), Debugging(4)>>,
    <<With(<<Option(FALSE)>>, Body(<<Declare(<<"a", "b">>, <<>>, FALSE)>>))>> >>

\* Every two arithmetic operators, either way round, and their comparison.
Arithmetic == {"+", "-", "*"}
OperatorSessions ==
    << FoldSet(LAMBDA t, done : Append(done, Body(<<
           Say(Op2(Op2(N(9), t[1], N(2)), t[2], N(3))), Say(Op2(N(9), t[1], Op2(N(2), t[2], N(3)))),
           Say(Op2(Unary("-", Op2(N(9), t[1], N(2))), t[2], Unary("-", N(3)))),
           Say(Unary("not", Op2(Op2(N(9), t[1], N(2)), "<", Op2(N(4), t[2], N(5))))),
           Say(Concat(<<Op2(N(9), t[1], N(2)), Op2(N(2), t[2], N(3)), Str("a \"b\"")>>))>>)),
         <<>>, Arithmetic \X Arithmetic) >>

Scripts == LoopSessions \o FunctionSessions \o FailingSessions \o TextSessions \o OperatorSessions
           \o RejectedSessions
MCSessions == 1..145
MCPrograms(s) == Len(Scripts[s])

-----------------------------------------------------------------------------
(* What is only read: any two operators, and the forms the scripts lack.   *)

BinaryOperators == {"or", "and", "==", "<", "+", "-", "*", "%", "^"}
One2(op) == Op2(X("a"), op, X("b"))
Around(e) == <<Unary("-", e), Unary("not", e), Index(e, <<e, N(1)>>), Call(e, <<e, Reference(e)>>),
               Op2(e, ".", X("size")), Concat(<<e, e, e>>), Op2(Concat(<<X("a"), e>>), "==", e),
               If(<<Condition(e, e)>>, e), List(<<e, e>>)>>
Shapes(p, q) ==
    <<Op2(One2(p), q, X("c")), Op2(X("c"), q, One2(p))>> \o Around(One2(p)) \o
    <<Op2(Around(X("a"))[1], q, Around(X("b"))[2]), Op2(If(<<Condition(X("a"), X("b"))>>, X("c")), p, Concat(<<X("a"), X("b")>>))>>
Forms == <<
    Table(<<N(1), Str("k")>>, <<X("a"), List(<<>>)>>), Table(<<>>, <<>>), Set(<<N(1), N(2)>>),
    ArrayLiteral(<<N(1), N(2), N(3), N(4), N(5), N(6)>>, 3, 2), ArrayLiteral(<<X("a"), X("b")>>, 1, 2), ArrayLiteral(<<>>, 0, 0),
    Float("1.5"), Constant("nan"), Unary("-", Op2(N(2), "^", N(3))), Op2(Unary("-", N(2)), "^", N(3)),
    Lambda(<<Parameter("a", X("Object"), TRUE), Parameter("b", None, FALSE)>>, <<Return(None)>>)>>
Samples ==
    FoldSet(LAMBDA t, done : done \o Shapes(t[1], t[2]), Forms, BinaryOperators \X BinaryOperators)
SampleProgram(sample) == Body(<<Say(sample), Declare(<<"a", "b">>, <<sample, X("c")>>, TRUE),
    Foreach("k", Reference(X("v")), Reference(sample), Body(<<Constant("pass"), Debug(LoopExit("break"))>>))>>)

\* The options of a script hold for the ones after it; a runtime starts debugging.
\* The text is given to the runtime as a string, or is in a file that a script or the
\* host has written; the file of the host has a mark of its encoding, and in the
\* other one the last line has no end.
ReadText(text, debug) ==
    LET bytes == Reader!AsBytes(text)
        line == IF text # "" /\ Last(bytes) = "\n" THEN Front(bytes) ELSE bytes
        by_script == Reader!write(Reader!File(<<>>, "w", "utf-8"), line).bytes
        by_host == Reader!write_line(Reader!File(<<>>, "w", ""), line).bytes
    IN  CASE Len(text) % 3 = 0 -> Reader!parse_string(text, debug)
          [] Len(text) % 3 = 1 -> Reader!parse_file(by_script, debug)
          [] Len(text) % 3 = 2 -> Reader!parse_file(by_host, debug)
ReadNext(done, program) ==
    Append(done, ReadText(Written!Source(program), done = <<>> \/ Last(done).debug))
RECURSIVE ReadAll(_)
ReadAll(programs) ==
    IF programs = <<>> THEN <<>>
    ELSE ReadNext(ReadAll(SubSeq(programs, 1, Len(programs) - 1)), Last(programs))
Told(program) == [program EXCEPT !.list = SelectSeq(@, LAMBDA n : ~IsOption(n))]

\* Everything is read, compiled and evaluated once.
ReadScripts == [s \in DOMAIN Scripts |-> ReadAll(Scripts[s])]
CompiledFrom(read) ==
    IF read.failed THEN [initialize(FALSE) EXCEPT !.failed = TRUE] ELSE compile(read.node, read.debug)
CompiledAll(scripts) == [s \in DOMAIN scripts |-> [i \in DOMAIN scripts[s] |-> CompiledFrom(scripts[s][i])]]
Compiled == CompiledAll(ReadScripts)
MCModule(s, i) == Compiled[s][i]
Meant == [s \in DOMAIN Scripts |-> Lang!Meaning(Scripts[s])]
MCMean(s) == Meant[s]
AsTold(read, program) ==
    IF program.is = "malformed" THEN read.failed ELSE ~read.failed /\ read.node = Told(program)
AllAsTold(read, programs) == \A i \in DOMAIN programs : AsTold(read[i], programs[i])
ScriptsAsTold == [s \in DOMAIN Scripts |-> AllAsTold(ReadScripts[s], Scripts[s])]
SampleAsTold(program) == AsTold(Reader!parse_string(Written!Source(program), TRUE), program)
SamplesAsTold == \A i \in DOMAIN Samples : SampleAsTold(SampleProgram(Samples[i]))
MCReadable(s) == ScriptsAsTold[s] /\ SamplesAsTold

\* and leaves no value if its left side is false.
Careless == Body(InFunction(<<When(Op2(Constant("false"), "and", Constant("true")), <<Say(N(1))>>)>>))
CarelessSessions == {1}
CarelessPrograms(s) == 1
CarelessCompiled == compile(Careless, FALSE)
CarelessModule(s, i) == CarelessCompiled

\* The tree of a script is the one its text was written from: parentheses that the
\* precedence of the operators makes superfluous, the ends of lines, comments and
\* blocks lead no rule of the parser astray, nor do the pieces in which a file is read,
\* its mark of the encoding and its last line; and what is no program is refused
\* (file.cpp, scanner.cpp, parser.cpp).
ParsedAsWritten == modules # <<>> => Readable(session)

\* What a session prints, and how each of its programs ends, is what the language
\* makes of the programs: no token, tree, code, stack, frame, alias or leftover of an error
\* shows (compiler.cpp and Runtime::interpret together).
OutputAsMeant == Finished => output = Mean(session)
=============================================================================
