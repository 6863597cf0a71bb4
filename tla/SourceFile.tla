----------------------------- MODULE SourceFile -----------------------------
(***************************************************************************)
(* Files, and the source of a program: file.cpp and source_code.cpp.  A    *)
(* file is the sequence of its bytes with the state of the stream; an      *)
(* operation gives the next one.  A byte that is an ASCII character stands *)
(* for itself, the others are written in hexadecimal.  The machine is      *)
(* little-endian.  Surrogate pairs are left out.                           *)
(***************************************************************************)
EXTENDS Integers, Sequences, SequencesExt

NUL == "00"
NewLine == "\n"

\* The encodings in the order in which get_bom looks for their marks.
Mark(enc, bytes) == [enc |-> enc, bytes |-> bytes]
Marks == <<Mark("utf-8", <<"EF", "BB", "BF">>),
           Mark("utf-16be", <<"FE", "FF">>), Mark("utf-16le", <<"FF", "FE">>),
           Mark("utf-32be", <<NUL, NUL, "FE", "FF">>), Mark("utf-32le", <<"FF", "FE", NUL, NUL>>)>>
MarkOf(enc) == Marks[SelectInSeq(Marks, LAMBDA mark : mark.enc = enc)].bytes

\* How many bytes the units of an encoding have.
Width(enc) == CASE enc \in {"utf-16be", "utf-16le"} -> 2
                [] enc \in {"utf-32be", "utf-32le"} -> 4
                [] OTHER -> 1
needs_swap(f) == f.enc \in {"utf-16be", "utf-32be"}

-----------------------------------------------------------------------------
(* The stream.                                                             *)

\* Reading past the last byte sets the mark of the end.
Read(f, n) ==
    IF f.pos + n <= Len(f.bytes) THEN [f EXCEPT !.pos = @ + n]
    ELSE [f EXCEPT !.pos = Len(f.bytes), !.at_end = TRUE]
rewind(f) == [f EXCEPT !.pos = 0, !.at_end = FALSE]
check(f, condition) == [f EXCEPT !.failed = @ \/ ~condition]

\* The first four bytes, which are zero where the file has none.
get_bom(f) ==
    LET head == SubSeq(f.bytes \o <<NUL, NUL, NUL, NUL>>, 1, 4)
        i == SelectInSeq(Marks, LAMBDA mark : IsPrefix(mark.bytes, head))
    IN  [rewind(f) EXCEPT !.enc = IF i = 0 THEN "" ELSE Marks[i].enc]
skip_bom(f) ==
    IF f.enc = "" THEN f
    ELSE LET read == Read(f, Len(MarkOf(f.enc))) IN check(read, ~read.at_end)

\* Only the modes w and w+ have the flag Write, only r and r+ the flag Read.  An
\* encoding that is asked for is forgotten: m_enc is set if there is none.
File(bytes, mode, enc) ==
    LET f == [bytes |-> bytes, pos |-> 0, at_end |-> FALSE, enc |-> "", line |-> <<>>,
              failed |-> FALSE]
        read == skip_bom(IF enc = "" THEN get_bom(f) ELSE f)
    IN  CASE mode \in {"w", "w+"} ->
                [f EXCEPT !.enc = IF enc = "" THEN "utf-8" ELSE "",
                          !.bytes = IF enc = "" THEN MarkOf("utf-8") ELSE <<>>]
          [] mode \in {"r", "r+"} -> [read EXCEPT !.enc = IF @ = "" THEN "utf-8" ELSE @]
          [] OTHER -> f

\* At the end of the file.
write(f, text) == [f EXCEPT !.bytes = @ \o text]
write_line(f, text) == write(write(f, text), <<NewLine>>)

-----------------------------------------------------------------------------
(* Lines.                                                                  *)

\* A byte of all ones is taken for the end of the file.
EOF == "FF"
limit == 32

\* A byte goes to the buffer, which is appended to the line when it is full.
put(b, ch) ==
    IF Len(b.buffer) < limit THEN [b EXCEPT !.buffer = Append(@, ch)]
    ELSE [line |-> b.line \o b.buffer, buffer |-> <<ch>>]
read_line_utf8(f) ==
    LET end == SelectInSubSeq(f.bytes, f.pos + 1, Len(f.bytes), LAMBDA b : b \in {NewLine, EOF})
        last == IF end = 0 THEN Len(f.bytes) ELSE end
        bytes == SelectSeq(SubSeq(f.bytes, f.pos + 1, last), LAMBDA b : b # EOF)
        read == FoldLeft(put, [line |-> <<>>, buffer |-> <<>>], bytes)
    IN  [Read(f, last - f.pos + (IF end = 0 THEN 1 ELSE 0))
            EXCEPT !.line = read.line \o read.buffer]

\* get_char_utf16 and get_char_utf32: the end of the file is a character, U+FFFF,
\* and its bytes are swapped like the others.
Zeros(n) == [i \in 1..n |-> NUL]
Unit(f, k) ==
    LET width == Width(f.enc)
        first == f.pos + width * (k - 1) + 1
        Eof == <<"FF", "FF">> \o Zeros(width - 2)
        unit == IF first + width - 1 > Len(f.bytes) THEN Eof
                ELSE SubSeq(f.bytes, first, first + width - 1)
    IN  IF needs_swap(f) THEN Reverse(unit) ELSE unit
EndsLine(unit) == unit \in {<<NewLine, NUL>>, <<NewLine, NUL, NUL, NUL>>,
                            <<"FF", "FF">>, <<"FF", "FF", NUL, NUL>>}
\* The character of a unit; Strange is one that is not ASCII.
Strange == "~"
Ascii(byte) == IF Len(byte) = 1 THEN byte ELSE Strange
Point(unit) == IF \A i \in 2..Len(unit) : unit[i] = NUL THEN Ascii(unit[1]) ELSE Strange

\* read_line_utf16 and read_line_utf32.  A loop that meets no end of the line does
\* not end; here it fails.
read_line_wide(f) ==
    LET width == Width(f.enc)
        units == (Len(f.bytes) - f.pos) \div width + 1
        last == SelectInSeq([k \in 1..units |-> Unit(f, k)], EndsLine)
    IN  IF last = 0 THEN check(Read(f, width * units), FALSE)
        ELSE [Read(f, width * last) EXCEPT !.line = [k \in 1..last |-> Point(Unit(f, k))]]

read_line(f) ==
    CASE f.enc = "" -> check(f, FALSE)
      [] Width(f.enc) = 1 -> read_line_utf8(f)
      [] OTHER -> read_line_wide(f)

\* The lines that are left, one after the other: the last one has no end, and is
\* empty if the text ends with the end of a line.
RECURSIVE read_lines(_, _)
read_lines(f, lines) ==
    LET next == read_line(f)
    IN  IF f.at_end \/ f.failed THEN [lines |-> lines, failed |-> f.failed]
        ELSE read_lines(next, Append(lines, next.line))

-----------------------------------------------------------------------------
(* The source of a program.                                                *)

AsString(line) == FoldLeft(LAMBDA text, byte : text \o Ascii(byte), "", line)
AsBytes(text) == [i \in 1..Len(text) |-> SubSeq(text, i, i)]

load_file(bytes) ==
    LET read == read_lines(File(bytes, "r", ""), <<>>)
    IN  [text |-> FlattenSeq([i \in DOMAIN read.lines |-> AsString(read.lines[i])]),
         failed |-> read.failed]
\* The text is split into lines, each of which gets an end.
load_code(text) == text \o NewLine
=============================================================================
