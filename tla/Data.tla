-------------------------------- MODULE Data --------------------------------
(***************************************************************************)
(* The values that scripts compute with: variant.cpp, and the operators of *)
(* runtime.cpp.  A value is a pair of its type and its content; a string   *)
(* is the sequence of the parts that were concatenated.  A box is what an  *)
(* alias refers to.                                                        *)
(***************************************************************************)
EXTENDS Integers, Sequences, FiniteSetsExt

Null == <<"null">>
Error == <<"error">>
Number(n) == <<"int", n>>
Boolean(b) == <<"bool", b>>
Text(parts) == <<"str", parts>>
ListOf(items) == <<"list", items>>
FunctionAt(id) == <<"fun", id>>
IteratorAt(id) == <<"iter", id>>
ClassOf(name) == <<"class", name>>
BoxAt(id) == <<"box", id>>

Is(type, v) == v[1] = type
Content(v) == v[2]

\* intptr_t, with fewer bits.
MaxInteger == 127
Wrap(n) == ((n + MaxInteger + 1) % (2 * (MaxInteger + 1))) - (MaxInteger + 1)
Magnitude(n) == IF n < 0 THEN -n ELSE n
Overflows(x, y) == (x < 0) = (y < 0) /\ Magnitude(y) > MaxInteger - Magnitude(x)

\* Only an addition is checked.
math_op(op, x, y) ==
    CASE op = "Add" -> IF Overflows(x, y) THEN Error ELSE Number(x + y)
      [] op = "Subtract" -> Number(Wrap(x - y))
      [] op = "Multiply" -> Number(Wrap(x * y))

compare(op, x, y) ==
    CASE op = "Less" -> x < y   [] op = "LessEqual" -> x <= y
      [] op = "Greater" -> x > y [] op = "GreaterEqual" -> x >= y

\* Strings are not ordered here, and objects not compared.
Scalars == {"int", "bool", "str", "null"}
equal(v, w) ==
    CASE v[1] = w[1] /\ v[1] \in Scalars -> Boolean(v = w)
      [] v[1] # w[1] /\ (Is("null", v) \/ Is("null", w)) -> Boolean(FALSE)
      [] OTHER -> Error

Apply(op, v, w) ==
    CASE op \in {"Add", "Subtract", "Multiply"} ->
            IF Is("int", v) /\ Is("int", w) THEN math_op(op, v[2], w[2]) ELSE Error
      [] op = "Equal" -> equal(v, w)
      [] op = "NotEqual" -> IF equal(v, w) = Error THEN Error
                            ELSE Boolean(~equal(v, w)[2])
      [] op \in {"Less", "LessEqual", "Greater", "GreaterEqual"} ->
            IF Is("int", v) /\ Is("int", w) THEN Boolean(compare(op, v[2], w[2])) ELSE Error

negate(v) == IF Is("int", v) THEN Number(Wrap(-v[2])) ELSE Error

to_boolean(v) == v \notin {Null, Boolean(FALSE)}

\* A function has no text, nor has a list with one.
RECURSIVE Printable(_)
Printable(v) == IF Is("list", v) THEN \A i \in DOMAIN v[2] : Printable(v[2][i]) ELSE ~Is("fun", v)
\* What is printed of some values: those before the first one without text.
Showable(values) ==
    LET bad == {i \in DOMAIN values : ~Printable(values[i])}
    IN  IF bad = {} THEN values ELSE SubSeq(values, 1, Min(bad) - 1)
Parts(v) == IF Is("str", v) THEN v[2] ELSE <<v>>

\* Positions count from 1, or from the end if they are negative; 0 is none.
to_base1(items, i) ==
    CASE i > 0 /\ i <= Len(items) -> i
      [] i < 0 /\ -i <= Len(items) -> Len(items) + 1 + i
      [] OTHER -> 0
Item(list, index) ==
    IF Is("list", list) /\ Is("int", index) /\ to_base1(list[2], index[2]) # 0
    THEN list[2][to_base1(list[2], index[2])] ELSE Error
=============================================================================
