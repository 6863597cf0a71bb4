---------------------------- MODULE TextAbstract ----------------------------
(***************************************************************************)
(* What the functions on strings promise: a variable has a text of its own *)
(* which is counted, indexed and cut by graphemes, the characters that a   *)
(* user perceives.  There is no buffer, no count and no cache here, and a  *)
(* function that searches and replaces is a cut and a join.                *)
(***************************************************************************)
EXTENDS Integers, Sequences, SequencesExt

CONSTANTS
    Character,       \* code points
    Joined,          \* pairs of code points that no grapheme break separates
    Blank, NewLine,  \* code points that trim and trim_new_line take off
    Upper, Lower,    \* functions on code points
    Self, Other,     \* the string functions are called on, and another one
    Index, Count,    \* positions and numbers of graphemes
    MaxSize,         \* bound: longest text
    Null, Error      \* results of a call that returns nothing, and that throws

VARIABLES
    text,  \* the text of each variable
    call   \* the last call: its name, its arguments and its result

abstract == <<text, call>>

self == text[Self]

-----------------------------------------------------------------------------
Concat(parts) == FlattenSeq(parts)

Graphemes(t) ==
    LET starts == {k \in DOMAIN t : k = 1 \/ <<t[k - 1], t[k]>> \notin Joined}
        cut == SetToSortSeq(starts, <)
    IN  [j \in DOMAIN cut |->
            SubSeq(t, cut[j], IF j = Len(cut) THEN Len(t) ELSE cut[j + 1] - 1)]

\* A position counts graphemes from 1, or from the end if negative.
IsIndex(t, i) == i # 0 /\ i \in -Len(Graphemes(t))..Len(Graphemes(t))
Position(t, i) == IF i < 0 THEN Len(Graphemes(t)) + 1 + i ELSE i
\* The graphemes from position p to position q - 1.
Part(t, p, q) ==
    LET g == Graphemes(t) IN Concat(SubSeq(g, p, Min({q - 1, Len(g)})))
Before(t, i) == Part(t, 1, Position(t, i))
From(t, i, n) == Part(t, Position(t, i), Position(t, i) + n)
After(t, i, n) == Part(t, Position(t, i) + n, Len(t) + 1)

Occurrences(t, part) ==
    {o \in 0..Len(t) - Len(part) : SubSeq(t, o + 1, o + Len(part)) = part}
NumberAt(t, o) == 1 + Len(Graphemes(SubSeq(t, 1, o)))

\* A text cut at the first n places where a separator occurs.
Cut(t, sep, n) ==
    LET cut[k \in 0..n, o \in 0..Len(t)] ==
            LET rest == SubSeq(t, o + 1, Len(t))
                first == Min(Occurrences(rest, sep))
            IN  IF k = 0 \/ Occurrences(rest, sep) = {} THEN <<rest>>
                ELSE <<SubSeq(rest, 1, first)>> \o cut[k - 1, o + first + Len(sep)]
    IN  cut[n, 0]
CutLast(t, sep) ==
    IF Occurrences(t, sep) = {} THEN <<t>>
    ELSE LET o == Max(Occurrences(t, sep))
         IN  <<SubSeq(t, 1, o), SubSeq(t, o + 1 + Len(sep), Len(t))>>
Join(parts, sep) ==
    Concat([k \in 1..2 * Len(parts) - 1 |-> IF k % 2 = 1 THEN parts[(k + 1) \div 2] ELSE sep])

\* The longest part that has no code point of a set at its ends.
Trimmed(t, left, right) ==
    LET inside == {k \in DOMAIN t : /\ left => \E j \in 1..k : t[j] \notin Blank
                                    /\ right => \E j \in k..Len(t) : t[j] \notin Blank}
    IN  IF inside = {} THEN <<>> ELSE SubSeq(t, Min(inside), Max(inside))
WithoutNewLine(t) ==
    LET kept == {k \in DOMAIN t : t[k] \notin NewLine}
    IN  IF kept = {} THEN <<>> ELSE SubSeq(t, 1, Max(kept))

-----------------------------------------------------------------------------
(* A call that changes the text of a variable, one that returns a value,   *)
(* and the same for arguments that may be invalid: then the call throws.   *)

Named(name) == call'.name = name
Sets(v, args, t) ==
    call'.args = args /\ call'.result = Null /\ text' = [text EXCEPT ![v] = t]
Becomes(args, t) == Sets(Self, args, t)
Returns(args, result) == call'.args = args /\ call'.result = result /\ UNCHANGED text
BecomesIf(valid, args, t) ==
    call'.args = args /\ IF valid THEN Becomes(args, t) ELSE Returns(args, Error)
ReturnsIf(valid, args, result) ==
    call'.args = args /\ Returns(args, IF valid THEN result ELSE Error)

AbstractInit == text = [v \in {Self, Other} |-> <<>>] /\ call.name = "init"

AbstractAssign ==
    \/ /\ Named("assign") /\ \/ Sets(Self, <<Self>>, text[Other])
                             \/ Sets(Other, <<Other>>, text[Self])
    \/ Named("string") /\ Becomes(<<>>, <<>>)
    \/ Named("new") /\ \E c \in Character : Becomes(<<c>>, <<c>>)

AbstractJoin == \E v \in {Self, Other} :
    \/ Named("append") /\ Becomes(<<v>>, self \o text[v])
    \/ Named("prepend") /\ Becomes(<<v>>, text[v] \o self)
    \/ Named("insert") /\ \E i \in Index :
         BecomesIf(IsIndex(self, i), <<i, v>>, Before(self, i) \o text[v] \o After(self, i, 0))

AbstractReplace == \E v \in {Self, Other} :
    \/ Named("remove") /\ Becomes(<<v>>, Concat(Cut(self, text[v], MaxSize)))
    \/ Named("remove_first") /\ Becomes(<<v>>, Concat(Cut(self, text[v], 1)))
    \/ Named("remove_last") /\ Becomes(<<v>>, Concat(CutLast(self, text[v])))
    \/ \E w \in {Self, Other} :
         \/ Named("replace") /\ Becomes(<<v, w>>, Join(Cut(self, text[v], MaxSize), text[w]))
         \/ Named("replace_first") /\ Becomes(<<v, w>>, Join(Cut(self, text[v], 1), text[w]))
         \/ Named("replace_last") /\ Becomes(<<v, w>>, Join(CutLast(self, text[v]), text[w]))

\* Nothing is removed before the first position, and nothing replaced if no grapheme is.
Replaceable(i, n) == IsIndex(self, i) /\ (n >= 0 \/ Position(self, i) = 1)
Replaced(i, n, t) == IF n <= 0 THEN self ELSE Before(self, i) \o t \o After(self, i, n)
AbstractReplaceAt ==
    \/ Named("remove_at") /\ \E i \in Index, n \in Count :
         BecomesIf(Replaceable(i, n), <<i, n>>, Replaced(i, n, <<>>))
    \/ Named("replace_at") /\ \E i \in Index, n \in Count, v \in {Self, Other} :
         BecomesIf(Replaceable(i, n), <<i, n, v>>, Replaced(i, n, text[v]))

AbstractWhole ==
    \/ Named("trim") /\ Becomes(<<>>, Trimmed(self, TRUE, TRUE))
    \/ Named("ltrim") /\ Becomes(<<>>, Trimmed(self, TRUE, FALSE))
    \/ Named("rtrim") /\ Becomes(<<>>, Trimmed(self, FALSE, TRUE))
    \/ Named("trim_new_line") /\ Becomes(<<>>, WithoutNewLine(self))
    \/ Named("reverse") /\ Becomes(<<>>, Concat(Reverse(Graphemes(self))))
    \/ Named("clear") /\ Becomes(<<>>, <<>>)
    \/ Named("shrink_to_fit") /\ Becomes(<<>>, self)
    \/ Named("chop") /\ \E n \in Count : Becomes(<<n>>, SubSeq(self, 1, Min({n, Len(self)})))
    \/ Named("fill") /\ \E c \in Character : Becomes(<<c>>, self \o <<c, c>>)
    \/ Named("replace_char") /\ \E c, d \in Character :
         Becomes(<<c, d>>, [k \in DOMAIN self |-> IF self[k] = c THEN d ELSE self[k]])

AbstractAsk ==
    \/ Named("length") /\ Returns(<<>>, Len(Graphemes(self)))
    \/ Named("hash") /\ Returns(<<>>, self)
    \/ Named("to_upper") /\ Returns(<<>>, [k \in DOMAIN self |-> Upper[self[k]]])
    \/ Named("to_lower") /\ Returns(<<>>, [k \in DOMAIN self |-> Lower[self[k]]])
    \/ \E n \in Count :
         \/ Named("repeat") /\ Returns(<<n>>, Concat([k \in 1..n |-> self]))
         \/ Named("left") /\ Returns(<<n>>, Part(self, 1, n + 1))
         \/ Named("right") /\ Returns(<<n>>, IF n < 0 THEN <<>> ELSE
                LET size == Len(Graphemes(self)) IN Part(self, Max({size - n, 0}) + 1, size + 1))
    \/ Named("char") /\ \E i \in Index : ReturnsIf(IsIndex(self, i), <<i>>, From(self, i, 1))
    \/ Named("slice") /\ \E i \in Index, n \in Count :
         ReturnsIf(IsIndex(self, i), <<i, n>>,
                   IF n < 0 THEN After(self, i, 0) ELSE From(self, i, n))

\* The grapheme where the first, or last, occurrence that satisfies a condition starts.
At(v) == Occurrences(self, text[v])
FoundIn(places, Choice(_)) == IF places = {} THEN 0 ELSE NumberAt(self, Choice(places))
AbstractSearch == \E v \in {Self, Other} :
    \/ Named("contains") /\ Returns(<<v>>, At(v) # {})
    \/ Named("starts_with") /\ Returns(<<v>>, 0 \in At(v))
    \/ Named("ends_with") /\ Returns(<<v>>, Len(self) - Len(text[v]) \in At(v))
    \/ Named("count") /\ Returns(<<v>>, Len(Cut(self, text[v], MaxSize)) - 1)
    \/ Named("join") /\ Returns(<<v>>, self)
    \/ Named("split") /\ ReturnsIf(text[v] # <<>>, <<v>>, Cut(self, text[v], MaxSize))
    \/ Named("find") /\ \E i \in Index :
         ReturnsIf(IsIndex(self, i), <<v, i>>,
                   FoundIn({o \in At(v) : o >= Len(Before(self, i))}, Min))
    \/ Named("find_back") /\ \E i \in Index :
         ReturnsIf(IsIndex(self, i), <<v, i>>,
                   FoundIn({o \in At(v) : o <= Len(Before(self, i))}, Max))

AbstractNext == \/ AbstractAssign \/ AbstractJoin \/ AbstractReplace \/ AbstractReplaceAt
                \/ AbstractWhole \/ AbstractAsk \/ AbstractSearch

AbstractSpec == AbstractInit /\ [][AbstractNext]_abstract
=============================================================================
