------------------------------- MODULE Lexer --------------------------------
(***************************************************************************)
(* Lexer.cpp: the tokens of an LPC source text.                            *)
(*                                                                         *)
(* A text is a string, a position counts from 1, and a scanner of one      *)
(* token gives [type, text, next]: the token and the position after it.    *)
(* A throw is the token Unreadable, which ends tokenize() with no tokens   *)
(* at all.  Line numbers, which only error messages use, are left out.     *)
(***************************************************************************)
EXTENDS Integers, Sequences, FiniteSetsExt

\* The character at p, "" (NUL) at the end.
At(src, p) == IF p <= Len(src) THEN SubSeq(src, p, p) ELSE ""

\* The characters from .. to of src, those that exist.
Slice(src, from, to) ==
    LET end == Min({to, Len(src)})
    IN  IF from <= end THEN SubSeq(src, from, end) ELSE ""

CharsOf(str) == {SubSeq(str, i, i) : i \in 1 .. Len(str)}

Digits    == CharsOf("0123456789")
HexDigits == CharsOf("0123456789abcdefABCDEF")
Letters   == CharsOf("abcdefghijklmnopqrstuvwxyzABCDEFGHIJKLMNOPQRSTUVWXYZ_")
NameChars == Letters \cup Digits
Blanks    == {" ", "\t", "\r", "\n"}

\* The characters with codes 32 .. 95 and 97 .. 126, in order.
LowChars  == " !\"#$%&'()*+,-./0123456789:;<=>?@ABCDEFGHIJKLMNOPQRSTUVWXYZ[\\]^_"
HighChars == "abcdefghijklmnopqrstuvwxyz{|}~"

PlaceIn(str, c) == CHOOSE i \in 1 .. Len(str) : At(str, i) = c

CodeOf(c) ==
    CASE c = "\n" -> 10
      [] c = "\t" -> 9
      [] c \in CharsOf(LowChars)  -> 31 + PlaceIn(LowChars, c)
      [] c \in CharsOf(HighChars) -> 96 + PlaceIn(HighChars, c)

DigitNames == [i \in 0 .. 15 |-> SubSeq("0123456789abcdef", i + 1, i + 1)]

RECURSIVE Decimal(_)
Decimal(n) == IF n < 10 THEN DigitNames[n]
              ELSE Decimal(n \div 10) \o DigitNames[n % 10]

Keywords ==
    {"void", "int", "string", "object", "float", "mapping", "status", "mixed",
     "function", "return", "if", "else", "while", "for", "do", "static",
     "private", "public", "protected", "nomask", "varargs", "inherit", "break",
     "continue", "foreach", "in", "switch", "case", "default"}

Token(type, text, next) == [type |-> type, text |-> text, next |-> next]
Unreadable == Token("Unreadable", "", 0)

-----------------------------------------------------------------------------

\* The first position from p on whose character is not in C.
RECURSIVE RunEnd(_, _, _)
RunEnd(src, p, C) == IF At(src, p) \in C THEN RunEnd(src, p + 1, C) ELSE p

\* The position after the next mark at or after p, or the end of the text.
RECURSIVE After(_, _, _)
After(src, p, mark) ==
    CASE p > Len(src) -> p
      [] Slice(src, p, p + Len(mark) - 1) = mark -> p + Len(mark)
      [] OTHER -> After(src, p + 1, mark)

RECURSIVE skipWhitespaceAndComments(_, _)
skipWhitespaceAndComments(src, p) ==
    CASE At(src, p) \in Blanks -> skipWhitespaceAndComments(src, p + 1)
      [] At(src, p) = "/" /\ At(src, p + 1) = "/" ->
           skipWhitespaceAndComments(src, After(src, p, "\n"))
      [] At(src, p) = "/" /\ At(src, p + 1) = "*" ->
           skipWhitespaceAndComments(src, After(src, p + 2, "*/"))
      [] OTHER -> p

lexIdentOrKeyword(src, p, dialect) ==
    LET next == RunEnd(src, p, NameChars)
        text == Slice(src, p, next - 1)
        isKeyword == \/ text \in Keywords
                     \/ dialect = "DGD" /\ text \in {"atomic", "nil"}
    IN  Token(IF isKeyword THEN "Keyword" ELSE "Ident", text, next)

lexNumber(src, p) ==
    LET whole == RunEnd(src, p, Digits)
        isHex == /\ Slice(src, p, whole - 1) = "0"
                 /\ At(src, whole) \in {"x", "X"}
                 /\ At(src, whole + 1) \in HexDigits
        isFraction == At(src, whole) = "." /\ At(src, whole + 1) \in Digits
        next == CASE isHex      -> RunEnd(src, whole + 1, HexDigits)
                  [] isFraction -> RunEnd(src, whole + 1, Digits)
                  [] OTHER      -> whole
    IN  Token("Number", Slice(src, p, next - 1), next)

lexLambdaParam(src, p) ==
    LET next == RunEnd(src, p + 1, Digits)
    IN  IF next = p + 1 THEN Token("Symbol", "$", next)
        ELSE Token("Ident", Slice(src, p, next - 1), next)

Escaped(c) == CASE c = "n" -> "\n" [] c = "t" -> "\t" [] OTHER -> c

\* The rest of a string literal from p on, after the text read so far.
RECURSIVE StringRest(_, _, _)
StringRest(src, p, text) ==
    CASE p > Len(src)      -> Unreadable
      [] At(src, p) = "\"" -> Token("String", text, p + 1)
      [] At(src, p) = "\\" /\ p < Len(src) ->
           StringRest(src, p + 2, text \o Escaped(At(src, p + 1)))
      [] OTHER             -> StringRest(src, p + 1, text \o At(src, p))

lexString(src, p) == StringRest(src, p + 1, "")

lexChar(src, p) ==
    LET isEscape == At(src, p + 1) = "\\" /\ p + 1 < Len(src)
        close    == IF isEscape THEN p + 3 ELSE p + 2
        char     == IF isEscape THEN Escaped(At(src, p + 2)) ELSE At(src, p + 1)
    IN  IF At(src, close) # "'" THEN Unreadable
        ELSE Token("Number", Decimal(CodeOf(char)), close + 1)

\* "@END": the lines up to one that starts with END.
RECURSIVE HeredocRest(_, _, _, _)
HeredocRest(src, p, terminator, text) ==
    LET line == After(src, p, "\n")
    IN  CASE Slice(src, p, p + Len(terminator) - 1) = terminator ->
               Token("String", text, p + Len(terminator))
          [] line > Len(src) -> Unreadable
          [] OTHER -> HeredocRest(src, line, terminator,
                                  text \o Slice(src, p, line - 1))

lexHeredoc(src, p) ==
    LET body == After(src, p, "\n")
        terminator == Slice(src, p + 1, body - 2)
    IN  IF At(src, p + 1) = "@" \/ terminator = "" \/ body > Len(src)
        THEN Unreadable
        ELSE HeredocRest(src, body, terminator, "")

\* LDMud: 'name is a quoted symbol unless it is the character literal 'c'.
lexQuote(src, p) ==
    LET next == RunEnd(src, p + 1, NameChars)
    IN  IF At(src, p + 1) \in Letters /\ ~(next = p + 2 /\ At(src, next) = "'")
        THEN Token("QuotedSymbol", Slice(src, p + 1, next - 1), next)
        ELSE lexChar(src, p)

lexHashQuote(p) == Token("Symbol", "#'", p + 2)

LongSymbols ==
    {"->", "::", "++", "--", "+=", "-=", "*=", "/=", "%=", "|=", "&=", "^=",
     "==", "!=", "<<", "<<=", ">>", ">>=", "<=", ">=", "||", "&&", "..", "..."}

\* Mutant: the operators of three characters are not tried.
TwoCharSymbol(src, p) ==
    LET n == IF Slice(src, p, p + 1) \in LongSymbols /\ p < Len(src) THEN 2 ELSE 1
    IN  Token("Symbol", Slice(src, p, p + n - 1), p + n)

\* The longest operator the text has at p.
lexSymbol(src, p) ==
    LET n == Max({1} \cup {k \in {2, 3} : Slice(src, p, p + k - 1) \in LongSymbols
                                          /\ p + k - 1 <= Len(src)})
    IN  Token("Symbol", Slice(src, p, p + n - 1), p + n)

SymbolChars == CharsOf("(){}[]:;,-=!<>*+|&/%.?^~")

NextToken(src, p, dialect) ==
    LET c == At(src, p)
    IN  CASE c \in Letters -> lexIdentOrKeyword(src, p, dialect)
          [] c \in Digits \/ (c = "." /\ At(src, p + 1) \in Digits) ->
               lexNumber(src, p)
          [] c = "\"" -> lexString(src, p)
          [] c = "'" -> IF dialect = "LDMud" THEN lexQuote(src, p)
                        ELSE lexChar(src, p)
          [] c = "#" /\ dialect = "LDMud" /\ At(src, p + 1) = "'" ->
               lexHashQuote(p)
          [] c = "@" -> lexHeredoc(src, p)
          [] c = "$" -> lexLambdaParam(src, p)
          [] c \in SymbolChars /\ ~(c = "." /\ At(src, p + 1) \in Digits) ->
               lexSymbol(src, p)
          [] OTHER -> Unreadable

RECURSIVE TokensFrom(_, _, _, _)
TokensFrom(src, p, dialect, toks) ==
    LET start == skipWhitespaceAndComments(src, p)
        tok   == NextToken(src, start, dialect)
    IN  CASE start > Len(src) ->
               Append(toks, [type |-> "End", text |-> ""])
          [] tok = Unreadable -> <<>>
          [] OTHER -> TokensFrom(src, tok.next, dialect,
                         Append(toks, [type |-> tok.type, text |-> tok.text]))

tokenize(src, dialect) == TokensFrom(src, 1, dialect, <<>>)
=============================================================================
