------------------------------ MODULE Scanner ------------------------------
(***************************************************************************)
(* The scanner and its tokens: scanner.cpp, token.cpp.  A text is a string *)
(* of TLA+, that is, a sequence of characters; a token has the name that   *)
(* the table of token.cpp gives to its kind.  Lines are numbered only for  *)
(* messages, and so are not modelled.                                      *)
(***************************************************************************)
EXTENDS SourceFile

Char(text, i) == SubSeq(text, i, i)
ETX == "ETX"
CharAt(text, pos) == IF pos > Len(text) THEN ETX ELSE Char(text, pos)
Chars(text) == {Char(text, i) : i \in 1..Len(text)}

Letters == Chars("abcdefghijklmnopqrstuvwxyzABCDEFGHIJKLMNOPQRSTUVWXYZ")
Digits == Chars("0123456789")
Spaces == Chars(" \t\r\f")

\* The words of the table token_names.  A word that is not in it is an identifier;
\* the first entry names no token, but as a word of a text it is found as well.
Words == {"unknown", "and", "as", "assert", "break", "class", "continue", "debug", "do",
    "downto", "else", "elsif", "end", "false", "field", "for", "foreach", "function", "if",
    "import", "in", "inherits", "local", "method", "nan", "not", "null", "option", "or", "pass",
    "print", "ref", "repeat", "return", "step", "super", "then", "this", "throw", "to", "true",
    "until", "var", "while"}
Symbols == {"=", "&=", "-=", "%=", "+=", "^=", "/=", "*=", "@", "<=>", "&", "==", ">=", ">",
    "<=", "<", "-", "%", "!=", "+", "^", "/", "*", ",", ":", ".", "(", ")", "{", "}", "[", "]",
    ";"}

Token(id, spelling, next) == [id |-> id, spelling |-> spelling, next |-> next]

\* The first position from pos on whose character is not in the set.
RECURSIVE Past(_, _, _)
Past(text, pos, chars) ==
    IF CharAt(text, pos) \in chars THEN Past(text, pos + 1, chars) ELSE pos

Between(text, first, next) == SubSeq(text, first, next - 1)
Without(text, char) ==
    FoldLeft(LAMBDA s, i : IF Char(text, i) = char THEN s ELSE s \o Char(text, i), "",
             [i \in 1..Len(text) |-> i])

read_word(text, pos) ==
    LET letters == Past(text, pos, Letters \union Digits \union {"_"})
        next == Past(text, letters, {"$"})
        word == Between(text, pos, next)
    IN  Token(IF word \in Words THEN word ELSE "identifier", word, next)

\* Digits may be grouped with "_".
read_number(text, pos) ==
    LET whole == Past(text, pos, Digits \union {"_"})
        next == Past(text, whole + 1, Digits \union {"_"})
    IN  IF CharAt(text, whole) = "."
        THEN Token("float literal", Without(Between(text, pos, next), "_"), next)
        ELSE Token("integer literal", Without(Between(text, pos, whole), "_"), whole)

Escapes == [c \in Chars("ntrf\\'\"") |->
    CASE c = "n" -> "\n" [] c = "t" -> "\t" [] c = "r" -> "\r" [] c = "f" -> "\f" [] OTHER -> c]

\* What follows a backslash is taken as it is, also the backslash, unless it is
\* an escape (three more stand for characters that TLA+ cannot write).  A string
\* that is not closed ends with the text.
RECURSIVE scan_string(_, _, _, _)
scan_string(text, pos, quote, spelling) ==
    LET char == CharAt(text, pos)
        next == CharAt(text, pos + 1)
        escaped == IF next \in DOMAIN Escapes THEN Escapes[next] ELSE "\\" \o next
    IN  CASE char = quote -> Token("string literal", spelling, pos + 1)
          [] char = ETX -> Token("string literal", spelling, pos)
          [] char = "\\" /\ next = ETX -> Token("invalid", spelling, pos)
          [] char = "\\" /\ next # ETX -> scan_string(text, pos + 2, quote, spelling \o escaped)
          [] OTHER -> scan_string(text, pos + 1, quote, spelling \o char)

\* The longest symbol.
read_symbol(text, pos) ==
    LET lengths == {n \in 1..3 : pos + n - 1 <= Len(text) /\ SubSeq(text, pos, pos + n - 1) \in Symbols}
        next == pos + Max(lengths)
    IN  IF lengths = {} THEN Token("invalid", CharAt(text, pos), pos + 1)
        ELSE Token(Between(text, pos, next), Between(text, pos, next), next)

\* A comment takes the end of its line with it.
RECURSIVE skip_blank(_, _)
skip_blank(text, pos) ==
    LET start == Past(text, pos, Spaces)
        end == Past(text, start, Chars(text) \ {"\n"})
    IN  IF CharAt(text, start) # "#" THEN start ELSE skip_blank(text, end + 1)

read_token(text, from) ==
    LET pos == skip_blank(text, from)
        char == CharAt(text, pos)
    IN  CASE char = ETX -> Token("end of text", "EOT", pos)
          [] char = "\n" -> Token("end of line", "", pos + 1)
          [] char \in Letters -> read_word(text, pos)
          [] char \in Digits -> read_number(text, pos)
          [] char \in {"'", "\""} -> scan_string(text, pos + 1, char, "")
          [] OTHER -> read_symbol(text, pos)

RECURSIVE Tokens(_, _)
Tokens(text, pos) ==
    LET token == read_token(text, pos)
    IN  IF token.id \in {"end of text", "invalid"} THEN <<token>>
        ELSE <<token>> \o Tokens(text, token.next)

load_string(text) == Tokens(load_code(text), 1)
=============================================================================
