-------------------------------- MODULE Text --------------------------------
(***************************************************************************)
(* Strings: buffers of UTF-8 that are shared until one of their owners     *)
(* changes them, and that remember their hash and their length in          *)
(* graphemes until they change.  A code point stands for the bytes that    *)
(* encode it: an offset counts code points.                                *)
(***************************************************************************)
EXTENDS Integers, Sequences, FiniteSets, SequencesExt

CONSTANTS
    Character,       \* code points
    Joined,          \* pairs of code points that utf8proc does not break
    Blank, NewLine,  \* isspace, and the ends of lines
    Upper, Lower,    \* utf8proc_toupper, utf8proc_tolower
    Buffer,          \* allocated string data, model values
    Static,          \* the data of the empty string, which is never freed
    Self, Other,     \* the variable that functions are called on, another variable
    Index, Count,    \* positions and numbers of graphemes that scripts pass
    MinCapacity,     \* smallest capacity (8 in the code)
    MaxSize, MaxOther,  \* bounds: longest text of Self, and of Other
    Null, Error,     \* results: nothing; an exception
    Hangs,           \* the result of a call that does not return
    Precaution       \* what scripts take care of, see Careful

VARIABLES
    heap,  \* the data: text, capacity, cached length and hash, reference count
    impl,  \* the data that each variable points to
    call   \* history: the last call

vars == <<heap, impl, call>>

Variable == {Self, Other}
Data == Buffer \cup {Static}

ASSUME ConstantsAssumption ==
    /\ Static \notin Buffer /\ Self # Other
    /\ Blank \subseteq Character /\ NewLine \subseteq Blank
    /\ Index \subseteq Int /\ Count \subseteq Int
    /\ MinCapacity \in Nat \ {0} /\ MaxSize \in Nat /\ MaxOther \in 0..MaxSize
    /\ Precaution \subseteq {"empty", "grapheme", "self", "split", "exact"}
\* A variable can have a new buffer before the one it has and the two arguments of
\* the call are freed.
ASSUME BufferAssumption ==
    \E a, b, c, d \in Buffer : a # b /\ a # c /\ a # d /\ b # c /\ b # d /\ c # d

Careful(what, condition) == what \in Precaution => condition

next_capacity(n) == IF n < 32 THEN 2 * n ELSE n + n \div 2
find_capacity(requested, current) ==
    LET grow[n \in Nat] == IF n < requested THEN grow[next_capacity(n)] ELSE n
    IN  grow[current]

-----------------------------------------------------------------------------
(* Texts: offsets count from 0, positions from 1 or, if negative, from the *)
(* end.                                                                    *)

grapheme_break(c1, c2) == <<c1, c2>> \notin Joined
Boundaries(text) ==
    {0, Len(text)} \cup {o \in 1..Len(text) - 1 : grapheme_break(text[o], text[o + 1])}
CountGraphemes(text) == Cardinality(Boundaries(text)) - 1

next_grapheme(text, it) ==
    IF it = Len(text) THEN it ELSE Min({o \in Boundaries(text) : o > it})
previous_grapheme(text, it) ==
    IF it = 0 THEN it ELSE Max({o \in Boundaries(text) : o < it})
advance(text, it, n) ==
    LET walk[k \in Nat] == IF k = 0 THEN it
                           ELSE IF n > 0 THEN next_grapheme(text, walk[k - 1])
                           ELSE previous_grapheme(text, walk[k - 1])
    IN  walk[IF n < 0 THEN -n ELSE n]

\* The walk passes over an offset inside a grapheme, and stays at the end for ever.
distance(text, to) ==
    IF to \in Boundaries(text) THEN Cardinality({o \in Boundaries(text) : o < to}) ELSE Hangs

Slice(text, from, to) == SubSeq(text, from + 1, to)
From(text, it) == Slice(text, it, Len(text))
Occurs(text, part, o) ==
    o + Len(part) <= Len(text) /\ Slice(text, o, o + Len(part)) = part

\* Both searches answer the end of the text if there is no match.
find(text, part, from) ==
    Min({o \in from..Len(text) : Occurs(text, part, o)} \cup {Len(text)})
rfind(text, part, from) ==
    LET at == {o \in 0..from : Occurs(text, part, o)}
    IN  IF at = {} THEN Len(text) ELSE Max(at)

\* Counts from the end of each match, hence for ever if the match is empty.
count(text, part) ==
    LET tally[o \in 0..Len(text)] ==
            IF o = Len(text) THEN 0
            ELSE LET next == find(text, part, o)
                 IN  IF next = Len(text) THEN 0 ELSE 1 + tally[next + Len(part)]
    IN  IF part = <<>> /\ text # <<>> THEN Hangs ELSE tally[0]

split(text, separator) ==
    LET last == Len(text) - Len(separator)
        chunk[i, start \in 0..Len(text)] ==
            IF i > last THEN <<From(text, start)>>
            ELSE IF Occurs(text, separator, i)
            THEN <<Slice(text, start, i)>> \o chunk[i + Len(separator), i + Len(separator)]
            ELSE chunk[i + 1, start]
    IN  IF last <= 0 THEN <<text>> ELSE chunk[0, 0]
join(strings, separator) ==
    FoldLeft(LAMBDA text, k : text \o (IF k > 1 THEN separator ELSE <<>>) \o strings[k],
             <<>>, [k \in DOMAIN strings |-> k])

reverse(text) ==
    LET back[it \in 0..Len(text)] ==
            LET previous == previous_grapheme(text, it)
            IN  IF it = 0 THEN <<>> ELSE Slice(text, previous, it) \o back[previous]
    IN  back[Len(text)]

\* What trim, trim_new_line and chop leave.
Trim(text, left, right) ==
    LET first == Min({o \in 0..Len(text) :
                        o = Len(text) \/ ~left \/ text[o + 1] \notin Blank})
        last == Max({o \in first..Len(text) :
                        o = first \/ ~right \/ text[o] \notin Blank})
    IN  Slice(text, first, last)
TrimNewLine(text) ==
    Slice(text, 0, Max({o \in 0..Len(text) : o = 0 \/ text[o] \notin NewLine}))

-----------------------------------------------------------------------------
(* The data.  A memory m is what the variables heap and impl hold in the   *)
(* course of a call.                                                       *)

Memory == [heap |-> heap, impl |-> impl]
Text(m, v) == m.heap[m.impl[v]].data
capacity(m, v) == m.heap[m.impl[v]].capacity
shared(m, v) == m.heap[m.impl[v]].count > 1
check_capacity(m, v, requested) == requested < capacity(m, v)

NewData(text, size) ==
    [data |-> text, capacity |-> size, length |-> 0, hash |-> <<>>, count |-> 1]
Freed == [NewData(<<>>, 0) EXCEPT !.count = 0]
retain(m, b) == [m EXCEPT !.heap[b].count = @ + 1]
release(m, b) ==
    IF m.heap[b].count = 1 THEN [m EXCEPT !.heap[b] = Freed]
    ELSE [m EXCEPT !.heap[b].count = @ - 1]

\* A new string that a variable is swapped with, and the old one destroyed.
create(m, v, text, size) ==
    LET b == CHOOSE x \in Buffer : m.heap[x].count = 0
    IN  release([m EXCEPT !.heap[b] = NewData(text, size), !.impl[v] = b], m.impl[v])
AtLeast(size) == IF size < MinCapacity THEN MinCapacity ELSE size
Fitting(text) == find_capacity(Len(text) + 1, MinCapacity)
assign(m, v, b) == release([retain(m, b) EXCEPT !.impl[v] = b], m.impl[v])

adjust_hash(m, v, text) ==  \* mutant: the hash is not reset
    LET b == m.impl[v]
    IN  [m EXCEPT !.heap[b] = [@ EXCEPT !.data = text, !.length = 0]]
adjust(m, v, text) ==
    LET b == m.impl[v]
    IN  [m EXCEPT !.heap[b] = [@ EXCEPT !.data = text, !.length = 0, !.hash = <<>>]]

FitsAlone_shared(m, v, text) ==  \* mutant: the other owners are forgotten
    check_capacity(m, v, Len(text) + 1)
FitsAlone(m, v, text) == ~shared(m, v) /\ check_capacity(m, v, Len(text) + 1)

append(m, v, suffix) ==
    LET text == Text(m, v) \o suffix
    IN  IF FitsAlone(m, v, text) THEN adjust(m, v, text)
        ELSE create(m, v, text, AtLeast(find_capacity(Len(text) + 1, capacity(m, v))))

insert(m, v, it, infix) ==
    LET text == Slice(Text(m, v), 0, it) \o infix \o From(Text(m, v), it)
    IN  IF infix = <<>> THEN m
        ELSE IF FitsAlone(m, v, text) THEN adjust(m, v, text)
        ELSE create(m, v, text, AtLeast(find_capacity(Len(text) + 1, capacity(m, v))))

replace_range(m, v, from, to, after) ==
    LET text == Slice(Text(m, v), 0, from) \o after \o From(Text(m, v), to)
    IN  IF from = to THEN m
        ELSE IF FitsAlone(m, v, text) THEN adjust(m, v, text)
        ELSE create(m, v, text, Fitting(text))

\* One turn of the loop of replace after another.  No text takes more turns than it
\* has places, unless turns leave the position where it is.
replace(m, v, before, after, ntimes) ==
    LET more(x) == x.pos < Len(Text(x.m, v)) /\ (ntimes < 0 \/ x.counter < ntimes)
        at(x) == find(Text(x.m, v), before, x.pos)
        turn(x) == IF at(x) = Len(Text(x.m, v)) THEN [x EXCEPT !.pos = at(x)]
                   ELSE [m |-> replace_range(x.m, v, at(x), at(x) + Len(before), after),
                         pos |-> at(x) + Len(after), counter |-> x.counter + 1]
        run[k \in Nat] ==
            IF k = 0 THEN [m |-> m, pos |-> 0, counter |-> 0]
            ELSE IF more(run[k - 1]) THEN turn(run[k - 1]) ELSE run[k - 1]
        end == run[Len(Text(m, v)) + 1]
    IN  [m |-> end.m, result |-> IF more(end) THEN Hangs ELSE Null]
replace_last(m, v, before, after) ==
    LET pos == rfind(Text(m, v), before, Len(Text(m, v)))
    IN  IF pos = Len(Text(m, v)) THEN m
        ELSE replace_range(m, v, pos, pos + Len(before), after)

\* A shared buffer is left to the others, one's own is cut in place.
Shorten(m, v, text) ==
    IF Len(text) = Len(Text(m, v)) THEN m
    ELSE IF shared(m, v) THEN create(m, v, text, Fitting(text))
    ELSE adjust(m, v, text)

grapheme_count(m, v) ==
    LET d == m.heap[m.impl[v]]
    IN  IF d.length = 0 /\ d.data # <<>> THEN CountGraphemes(d.data) ELSE d.length
CacheLength(m, v) == [m EXCEPT !.heap[m.impl[v]].length = grapheme_count(m, v)]
hash(m, v) ==
    LET d == m.heap[m.impl[v]] IN IF d.hash = <<>> THEN d.data ELSE d.hash

InRange(m, v, i) == i # 0 /\ i \in -grapheme_count(m, v)..grapheme_count(m, v)
index_to_iter(m, v, i) ==
    IF i > 0 THEN advance(Text(m, v), 0, i - 1)
    ELSE advance(Text(m, v), Len(Text(m, v)), i)

-----------------------------------------------------------------------------
(* The functions on strings: func_string.hpp.  The string that a function  *)
(* changes is passed by reference, the others by value: they are counted   *)
(* until the function returns.  The last ones are for host programs.       *)

Init ==
    /\ heap = [b \in Data |-> IF b = Static THEN [NewData(<<>>, MinCapacity) EXCEPT !.count = 3]
                              ELSE Freed]
    /\ impl = [v \in Variable |-> Static]
    /\ call = [name |-> "init"]

Call(name, args, m, result) ==
    /\ Len(Text(m, Self)) <= MaxSize
    /\ call' = [name |-> name, args |-> args, result |-> result]
    /\ heap' = m.heap /\ impl' = m.impl
Edit(name, args, m) == Call(name, args, m, Null)
Ask(name, args, result) == Call(name, args, Memory, result)

Held(v) == retain(Memory, impl[v])
HeldBoth(v, w) == retain(Held(v), impl[w])
EditWith(name, args, v, m) == Edit(name, args, release(m, impl[v]))
self == Text(Memory, Self)
text_of(v) == Text(Memory, v)
Measured(m) == CacheLength(m, Self)

Assign ==
    \/ Edit("assign", <<Self>>, assign(Memory, Self, impl[Other]))
    \/ Len(self) <= MaxOther /\ Edit("assign", <<Other>>, assign(Memory, Other, impl[Self]))
\* A string that is computed: String() and String(const char *, intptr_t).
string_init == Edit("string", <<>>, assign(Memory, Self, Static))
NewString(c) == Edit("new", <<c>>, create(Memory, Self, <<c>>, Fitting(<<c>>)))

string_append(v) == EditWith("append", <<v>>, v, append(Held(v), Self, text_of(v)))
string_prepend(v) == EditWith("prepend", <<v>>, v, insert(Held(v), Self, 0, text_of(v)))
string_insert(i, v) ==
    LET m == Measured(Held(v))
    IN  IF InRange(m, Self, i)
        THEN EditWith("insert", <<i, v>>, v,
                      insert(m, Self, index_to_iter(m, Self, i), text_of(v)))
        ELSE Call("insert", <<i, v>>, release(m, impl[v]), Error)

string_trim == Edit("trim", <<>>, Shorten(Memory, Self, Trim(self, TRUE, TRUE)))
string_ltrim == Edit("ltrim", <<>>, Shorten(Memory, Self, Trim(self, TRUE, FALSE)))
string_rtrim == Edit("rtrim", <<>>, Shorten(Memory, Self, Trim(self, FALSE, TRUE)))

\* In: what to replace or remove is some text.
SomeText(v) == Careful("empty", text_of(v) # <<>>)
RemoveSome(name, v, ntimes) ==
    LET r == replace(Held(v), Self, text_of(v), <<>>, ntimes)
    IN  SomeText(v) /\ Call(name, <<v>>, release(r.m, impl[v]), r.result)
ReplaceSome(name, v, w, ntimes) ==
    LET r == replace(HeldBoth(v, w), Self, text_of(v), text_of(w), ntimes)
    IN  SomeText(v) /\ Call(name, <<v, w>>, release(release(r.m, impl[w]), impl[v]), r.result)
string_remove(v) == RemoveSome("remove", v, -1)
string_remove_first(v) == RemoveSome("remove_first", v, 1)
string_remove_last(v) ==
    SomeText(v) /\ EditWith("remove_last", <<v>>, v, replace_last(Held(v), Self, text_of(v), <<>>))
string_replace(v, w) == ReplaceSome("replace", v, w, -1)
string_replace_first(v, w) == ReplaceSome("replace_first", v, w, 1)
string_replace_last(v, w) ==
    LET m == replace_last(HeldBoth(v, w), Self, text_of(v), text_of(w))
    IN  SomeText(v) /\ EditWith("replace_last", <<v, w>>, v, release(m, impl[w]))

EditAt(m, i, n, after) ==
    LET start == index_to_iter(m, Self, i)
        bound == advance(self, start, n)
    IN  IF ~InRange(m, Self, i) \/ bound < start THEN [m |-> m, result |-> Error]
        ELSE [m |-> replace_range(m, Self, start, bound, after), result |-> Null]
string_remove_at(i, n) ==
    LET r == EditAt(Measured(Memory), i, n, <<>>)
    IN  Call("remove_at", <<i, n>>, r.m, r.result)
\* The replacement is read from the first argument, the string itself.
string_replace_at(i, n, v) ==
    LET r == EditAt(Measured(Held(v)), i, n, self)
    IN  /\ Careful("self", v = Self)
        /\ Call("replace_at", <<i, n, v>>, release(r.m, impl[v]), r.result)

string_reverse ==
    Edit("reverse", <<>>, create(Memory, Self, reverse(self),
                                 find_capacity(Len(self) + 1, AtLeast(Len(self)))))

string_get_field == Call("length", <<>>, Measured(Memory), grapheme_count(Memory, Self))
\* A string is looked up in a table.
Hash == Call("hash", <<>>, [Memory EXCEPT !.heap[impl[Self]].hash = hash(Memory, Self)],
             hash(Memory, Self))

string_contains(v) ==
    /\ Careful("empty", text_of(v) # <<>> \/ self # <<>>)
    /\ Ask("contains", <<v>>, find(self, text_of(v), 0) # Len(self))
string_starts_with(v) == Ask("starts_with", <<v>>, Occurs(self, text_of(v), 0))
string_ends_with(v) ==
    Ask("ends_with", <<v>>, /\ Len(text_of(v)) <= Len(self)
                            /\ Occurs(self, text_of(v), Len(self) - Len(text_of(v))))

At(i) == index_to_iter(Memory, Self, i)
Search(name, v, i, at) ==
    LET result == IF at = Len(self) THEN 0
                  ELSE LET d == distance(self, at) IN IF d = Hangs THEN Hangs ELSE d + 1
    IN  IF ~InRange(Memory, Self, i) THEN Call(name, <<v, i>>, Measured(Memory), Error)
        ELSE /\ Careful("grapheme", result # Hangs)
             /\ Call(name, <<v, i>>, Measured(Memory), result)
string_find(v, i) == Search("find", v, i, find(self, text_of(v), At(i)))
string_find_back(v, i) == Search("find_back", v, i, rfind(self, text_of(v), At(i)))

string_left(n) == Ask("left", <<n>>, Slice(self, 0, advance(self, 0, n)))
string_right(n) == Ask("right", <<n>>, From(self, advance(self, Len(self), -n)))
CutAt(name, args, i, end) ==
    Call(name, args, Measured(Memory),
         IF InRange(Memory, Self, i) THEN Slice(self, At(i), end) ELSE Error)
string_slice(i, n) ==
    CutAt("slice", <<i, n>>, i, IF n < 0 THEN Len(self) ELSE advance(self, At(i), n))
string_char(i) == CutAt("char", <<i>>, i, next_grapheme(self, At(i)))
string_count(v) ==
    /\ Careful("empty", text_of(v) # <<>>)
    /\ Ask("count", <<v>>, count(self, text_of(v)))
string_to_upper == Ask("to_upper", <<>>, [k \in DOMAIN self |-> Upper[self[k]]])
string_to_lower == Ask("to_lower", <<>>, [k \in DOMAIN self |-> Lower[self[k]]])
string_split(v) ==
    /\ Careful("split", self # text_of(v))
    /\ Ask("split", <<v>>, IF text_of(v) = <<>> THEN Error ELSE split(self, text_of(v)))

-----------------------------------------------------------------------------
trim_new_line == Edit("trim_new_line", <<>>, Shorten(Memory, Self, TrimNewLine(self)))
chop(n) == n >= 0 /\ Edit("chop", <<n>>, IF n >= Len(self) THEN Memory
                               ELSE Shorten(Memory, Self, Slice(self, 0, n)))
clear(flush) ==
    Edit("clear", <<>>, IF flush \/ shared(Memory, Self) THEN assign(Memory, Self, Static)
                        ELSE adjust(Memory, Self, <<>>))
fill(c) == Edit("fill", <<c>>, append(append(Memory, Self, <<c>>), Self, <<c>>))
\* unshare, then the new buffer is written to.
replace_char(c, d) ==
    Edit("replace_char", <<c, d>>,
         create(Memory, Self, [k \in DOMAIN self |-> IF self[k] = c THEN d ELSE self[k]],
                Fitting(self)))
\* The data of a string has room for a pointer, which the constructor clears.
shrink_to_fit ==
    LET needed == self # <<>> /\ capacity(Memory, Self) > Len(self) + Len(self) \div 6
    IN  /\ Careful("exact", needed => Len(self) + 1 >= MinCapacity)
        /\ Edit("shrink_to_fit", <<>>, IF needed THEN create(Memory, Self, self, Len(self) + 1)
                                       ELSE Memory)
repeat(n) == Ask("repeat", <<n>>, FoldLeft(LAMBDA text, k : text \o self, <<>>, [k \in 1..n |-> k]))
Join(v) ==
    /\ text_of(v) # <<>>
    /\ Ask("join", <<v>>, join(split(self, text_of(v)), text_of(v)))

Next ==
    \/ Assign \/ string_init
    \/ string_trim \/ string_ltrim \/ string_rtrim \/ string_reverse
    \/ string_get_field \/ Hash \/ string_to_upper \/ string_to_lower
    \/ trim_new_line \/ clear(TRUE) \/ clear(FALSE) \/ shrink_to_fit
    \/ \E c, d \in Character : NewString(c) \/ fill(c) \/ replace_char(c, d)
    \/ \E v, w \in Variable :
         \/ string_replace(v, w) \/ string_replace_first(v, w) \/ string_replace_last(v, w)
    \/ \E v \in Variable :
         \/ string_append(v) \/ string_prepend(v)
         \/ string_remove(v) \/ string_remove_first(v) \/ string_remove_last(v)
         \/ string_contains(v) \/ string_starts_with(v) \/ string_ends_with(v)
         \/ string_count(v) \/ string_split(v) \/ Join(v)
    \/ \E i \in Index, v \in Variable :
         \/ string_insert(i, v) \/ string_find(v, i) \/ string_find_back(v, i)
    \/ \E n \in Count : string_left(n) \/ string_right(n) \/ repeat(n) \/ chop(n)
    \/ \E i \in Index : string_char(i)
    \/ \E i \in Index, n \in Count :
         \/ string_remove_at(i, n) \/ string_slice(i, n)
         \/ \E v \in Variable : string_replace_at(i, n, v)

Spec == Init /\ [][Next]_vars

-----------------------------------------------------------------------------
TypeOK ==
    /\ impl \in [Variable -> Data]
    /\ \A b \in Data : /\ heap[b].data \in Seq(Character) /\ heap[b].hash \in Seq(Character)
                       /\ heap[b].capacity \in Nat /\ heap[b].length \in Nat
                       /\ heap[b].count \in Nat

\* Data is counted once for each variable that points to it (the empty string once
\* more), and freed with the last one.
CountsExact == \A b \in Data :
    heap[b].count = Cardinality({v \in Variable : impl[v] = b}) + (IF b = Static THEN 1 ELSE 0)

\* The text and its terminator are within the buffer, which is as large as the
\* constructor takes it to be.
FitsBuffer == \A b \in Data : heap[b].count > 0 =>
    heap[b].capacity >= MinCapacity /\ Len(heap[b].data) < heap[b].capacity

\* A length or a hash that is remembered is the one that would be computed.
CachesTrue == \A b \in Data :
    /\ heap[b].length \in {0, CountGraphemes(heap[b].data)}
    /\ heap[b].hash \in {<<>>, heap[b].data}

\* Nobody writes to the empty string that all strings begin with.
EmptyStaysEmpty == heap[Static].data = <<>>

BuffersSound == TypeOK /\ CountsExact /\ FitsBuffer /\ CachesTrue /\ EmptyStaysEmpty

\* Strings are independent texts, whichever buffers they share, and what the functions
\* answer is true of the texts.
Texts == INSTANCE TextAbstract WITH text <- [v \in Variable |-> Text(Memory, v)]
ImplementsTexts == Texts!AbstractSpec
=============================================================================
