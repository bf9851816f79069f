----------------------------- MODULE TomlLexer -----------------------------
(***************************************************************************)
(* The TOML lexer (lex.go) and the parser that drives it (parse.go). Both  *)
(* run in one goroutine: nextItem runs state functions until an item is in *)
(* the channel and hands it over. A state function reads runes, backs up   *)
(* over them by the width of the last one read, emits items, and keeps in  *)
(* a stack the states to return to. Here the parser only checks that each  *)
(* item is one its caller expects, and the texts it converts; the tables   *)
(* the items define are in TomlTables.                                     *)
(*                                                                         *)
(* A document is a sequence of bytes. The printed ones have their own      *)
(* names; "nl" is a line end, "sp" a blank, "nul" the byte 0, which is     *)
(* also the rune eof. The first bytes of the runes of two and of three     *)
(* bytes are "two" and "three", and "cont" is each byte after them. What   *)
(* an escape stands for is "ctl" where no one looks at it again.           *)
(***************************************************************************)
EXTENDS Integers, Sequences

CONSTANT Documents     \* the texts to parse; lex adds a line end

\* "two" and "three" are the bytes that begin a whole rune: one that does not is
\* a byte without meaning to the lexer, as "cont" alone is, and as wide.
Whole(d) ==
  \A i \in 1 .. Len(d) :
    /\ d[i] \in {"two", "three"} => i + 1 <= Len(d) /\ d[i + 1] = "cont"
    /\ d[i] = "three" => i + 2 <= Len(d) /\ d[i + 2] = "cont"

ASSUME DocumentsAssumption == \A d \in Documents : d \in Seq(STRING) /\ Whole(d)

VARIABLES
  doc,       \* lx.input
  lx,        \* lx.start, lx.pos, lx.width, lx.state, lx.stack, lx.items
  wants,     \* what the calls of the parser are waiting for, innermost first
  verdict    \* "run", "ok", "error" (a parseError), "bug" (log.Fatalf), "panic"

lexVars == <<doc, lx, wants, verdict>>

Blank == {"sp", "nl"}
Decimals == {"0", "1", "2", "3", "4", "5", "6", "7", "8", "9"}
Hexes == <<"0", "1", "2", "3", "4", "5", "6", "7", "8", "9",
           "a", "b", "c", "d", "e", "f", "A", "B", "C", "D", "E", "F">>
Hexadecimal == {Hexes[i] : i \in 1 .. 22}
Escapes == {"b", "t", "n", "f", "r", "\"", "/", "\\"}
\* All bytes are STRINGs; the ones with names of their own are what proofs compare.
Bytes == STRING \cup Hexadecimal \cup {"\\", "u", "nl", "ctl", "two", "three", "cont"}
Width == [two |-> 2, three |-> 3]

\* lexer.next: the rune at pos, and the lexer after it; at the end, eof of width 0.
Rune(l) == IF l.pos > Len(doc) \/ doc[l.pos] = "nul" THEN "eof" ELSE doc[l.pos]
NextRune(l) ==
  LET w == IF l.pos > Len(doc) THEN 0
           ELSE IF doc[l.pos] \in DOMAIN Width THEN Width[doc[l.pos]] ELSE 1
  IN  [l EXCEPT !.width = w, !.pos = @ + w]

Backup(l) == [l EXCEPT !.pos = @ - l.width]
Ignore(l) == [l EXCEPT !.start = l.pos]
ToState(l, s) == [l EXCEPT !.state = s]
PushState(l, s) == [l EXCEPT !.stack = <<s>> \o @]
Accepts(l, r) == Rune(l) = r

Errorf(l) == [l EXCEPT !.items = Append(@, [typ |-> "Error", text |-> <<>>]), !.state = "nil"]
PopState(l) == IF l.stack = <<>> THEN Errorf(l)
          ELSE [l EXCEPT !.state = Head(l.stack), !.stack = Tail(l.stack)]

\* lexer.emit sends the input from start to pos.
Emit(l, typ) ==
  Ignore([l EXCEPT !.items = Append(@, [typ |-> typ, text |-> SubSeq(doc, l.start, l.pos - 1)])])
EmitPop(l, typ) == PopState(Emit(l, typ))

\* The n bytes from l on, and whether they match a pattern of sets of runes.
Skip(l, n) == [l EXCEPT !.pos = @ + n, !.width = 1]
Matches(l, pattern) ==
  /\ l.pos + Len(pattern) - 1 <= Len(doc)
  /\ \A i \in 1 .. Len(pattern) : doc[l.pos + i - 1] \in pattern[i]
-----------------------------------------------------------------------------
\* The top level and tables. lexSkip is the Ignore before going on.
LexTop(l, r, n) ==
  CASE r \in Blank -> Ignore(n)
    [] r = "#"     -> ToState(PushState(n, "top"), "commentStart")
    [] r = "["     -> ToState(n, "tableStart")
    [] r = "eof"   -> IF n.pos > n.start THEN Errorf(n) ELSE ToState(Emit(n, "EOF"), "nil")
    [] OTHER       -> ToState(PushState(Backup(n), "topEnd"), "keyStart")

LexTopEnd(l, r, n) ==
  CASE r = "#"            -> ToState(PushState(n, "top"), "commentStart")
    [] r = "sp"           -> n
    [] r \in {"nl", "eof"} -> ToState(Ignore(n), "top")
    [] OTHER              -> Errorf(n)

LexTableStart(l, r, n) ==
  IF r = "[" THEN ToState(PushState(Emit(n, "ArrayTableStart"), "arrayTableEnd"), "tableNameStart")
  ELSE ToState(PushState(Emit(l, "TableStart"), "tableEnd"), "tableNameStart")

LexArrayTableEnd(l, r, n) ==
  IF r = "]" THEN ToState(Emit(n, "ArrayTableEnd"), "topEnd") ELSE Errorf(n)

LexTableNameStart(l, r, n) ==
  IF r \in {"]", "eof", "."} THEN Errorf(n) ELSE ToState(n, "tableName")

\* Plausible fault, not used by the specification.
NameBrokenOpen == {"["}

NameBroken == {"eof", "["}
LexTableName(l, r, n) ==
  CASE r \in NameBroken -> Errorf(l)
    [] r = "]"          -> PopState(NextRune(Emit(l, "Text")))
    [] r = "."          -> ToState(Ignore(NextRune(Emit(l, "Text"))), "tableNameStart")
    [] OTHER            -> n

LexKeyStart(l, r, n) ==
  CASE r = "="     -> Errorf(l)
    [] r \in Blank -> Ignore(n)
    [] OTHER       -> ToState(NextRune(Emit(Ignore(l), "KeyStart")), "key")

LexKey(l, r, n) ==
  CASE r = "#"          -> Errorf(l)
    [] r \in {"nl", "="} -> ToState(Emit(l, "Text"), "keyEnd")
    [] OTHER            -> n

LexKeyEnd(l, r, n) == IF r = "=" THEN ToState(Ignore(n), "value") ELSE Errorf(n)

\* Plausible fault, not used by the specification.
LexCommentStartBare(l, r, n) == ToState(Ignore(l), "comment")

LexCommentStart(l, r, n) == ToState(Emit(Ignore(l), "CommentStart"), "comment")

LexComment(l, r, n) == IF r \in {"nl", "eof"} THEN EmitPop(l, "Text") ELSE n
-----------------------------------------------------------------------------
\* Values. After the opening quote q: a second and a third q open a multiline
\* string; after a second alone, accept has backed up over the third rune and
\* backup goes back once more, by the width of that rune.
OpenString(n, q, one, many) ==
  LET two == NextRune(n)  three == NextRune(two)
  IN  IF ~Accepts(n, q) THEN ToState(Ignore(Backup(two)), one)
      ELSE IF ~Accepts(two, q) THEN ToState(Ignore(Backup(Backup(three))), one)
      ELSE ToState(Ignore(three), many)

LexValue(l, r, n) ==
  CASE r = "sp"      -> Ignore(n)
    [] r = "["       -> ToState(Emit(Ignore(n), "Array"), "arrayValue")
    [] r = "\""      -> OpenString(n, r, "string", "multilineString")
    [] r = "'"       -> OpenString(n, r, "rawString", "multilineRawString")
    [] r = "t"       -> ToState(n, "true")
    [] r = "f"       -> ToState(n, "false")
    [] r = "-"       -> ToState(n, "numberStart")
    [] r \in Decimals  -> ToState(Backup(n), "numberOrDateStart")
    [] OTHER         -> Errorf(n)

ArrayEnd(n) == EmitPop(Ignore(n), "ArrayEnd")

LexArrayValue(l, r, n) ==
  CASE r \in Blank -> Ignore(n)
    [] r = "#"     -> ToState(PushState(n, "arrayValue"), "commentStart")
    [] r = ","     -> Errorf(n)
    [] r = "]"     -> ArrayEnd(n)
    [] OTHER       -> ToState(PushState(Backup(n), "arrayValueEnd"), "value")

LexArrayValueEnd(l, r, n) ==
  CASE r \in Blank -> Ignore(n)
    [] r = "#"     -> ToState(PushState(n, "arrayValueEnd"), "commentStart")
    [] r = ","     -> ToState(Ignore(n), "arrayValue")
    [] r = "]"     -> ArrayEnd(n)
    [] OTHER       -> Errorf(n)

\* A string of which l has read the k closing quotes. current() slices the input
\* from start to pos: with pos before start it panics.
Close(l, k, typ) ==
  IF l.pos - k < l.start THEN ToState(l, "panic")
  ELSE PopState(Ignore(Skip(Emit([l EXCEPT !.pos = @ - k], typ), k)))

LexString(l, r, n) ==
  CASE r = "nl" -> Errorf(n)
    [] r = "\\" -> ToState(n, "stringEscape")
    [] r = "\"" -> Close(n, 1, "String")
    [] OTHER    -> n

LexRawString(l, r, n) ==
  CASE r = "nl" -> Errorf(n)
    [] r = "'"  -> Close(n, 1, "RawString")
    [] OTHER    -> n

\* A quote q inside a multiline string, in the way of OpenString.
Closing(n, q, typ) ==
  LET two == NextRune(n)  three == NextRune(two)
  IN  IF ~Accepts(n, q) THEN Backup(two)
      ELSE IF ~Accepts(two, q) THEN Backup(Backup(three))
      ELSE Close(three, 3, typ)

LexMultilineString(l, r, n) ==
  CASE r = "\\" -> ToState(n, "multilineStringEscape")
    [] r = "\"" -> Closing(n, r, "MultilineString")
    [] OTHER    -> n

LexMultilineRawString(l, r, n) == IF r = "'" THEN Closing(n, r, "RawMultilineString") ELSE n

\* Plausible fault, not used by the specification.
StringEscapeAny(r, n, string, unicode) ==
  IF r \in Escapes \cup {"u"} THEN ToState(n, string) ELSE Errorf(n)

StringEscape(r, n, string, unicode) ==
  CASE r \in Escapes -> ToState(n, string)
    [] r = "u"       -> ToState(n, unicode)
    [] OTHER         -> Errorf(n)

LexStringEscape(l, r, n) == StringEscape(r, n, "string", "stringUnicode")
LexMultilineStringEscape(l, r, n) ==
  IF r = "nl" THEN ToState(NextRune(n), "multilineString")
  ELSE StringEscape(r, n, "multilineString", "multilineStringUnicode")

Unicode(l, string) ==
  LET four == [i \in 1 .. 4 |-> Hexadecimal]
  IN  IF Matches(l, four) THEN ToState(Skip(l, 4), string) ELSE Errorf(l)

\* A text s of true or false that does not go on emits an error and a bool.
LexConst(l, rest) ==
  IF Matches(l, rest) THEN EmitPop(Skip(l, Len(rest)), "Bool") ELSE EmitPop(Errorf(NextRune(l)), "Bool")

\* Numbers and dates.
NumberThen(l, r, n, next) == IF r \in Decimals THEN ToState(n, next) ELSE Errorf(n)

LexNumberOrDate(l, r, n) ==
  CASE r = "-"        -> IF n.pos - n.start = 5 THEN ToState(n, "dateAfterYear") ELSE Errorf(n)
    [] r \in Decimals   -> n
    [] r = "."        -> ToState(n, "floatStart")
    [] OTHER          -> EmitPop(l, "Integer")

LexNumber(l, r, n) ==
  CASE r \in Decimals -> n
    [] r = "."      -> ToState(n, "floatStart")
    [] OTHER        -> EmitPop(l, "Integer")

LexFloat(l, r, n) == IF r \in Decimals THEN n ELSE EmitPop(l, "Float")

LexDateAfterYear(l) ==
  LET D == Decimals
      zulu == <<D, D, {"-"}, D, D, {"T"}, D, D, {":"}, D, D, {":"}, D, D, {"Z"}>>
  IN  IF Matches(l, zulu) THEN EmitPop(Skip(l, 15), "Datetime") ELSE Errorf(l)

\* The state function s of lexer l.
StateFn(s, l) ==
  LET r == Rune(l)  n == NextRune(l)
  IN  CASE s = "top" -> LexTop(l, r, n)
        [] s = "topEnd" -> LexTopEnd(l, r, n)
        [] s = "tableStart" -> LexTableStart(l, r, n)
        [] s = "tableEnd" -> ToState(Emit(l, "TableEnd"), "topEnd")
        [] s = "arrayTableEnd" -> LexArrayTableEnd(l, r, n)
        [] s = "tableNameStart" -> LexTableNameStart(l, r, n)
        [] s = "tableName" -> LexTableName(l, r, n)
        [] s = "keyStart" -> LexKeyStart(l, r, n)
        [] s = "key" -> LexKey(l, r, n)
        [] s = "keyEnd" -> LexKeyEnd(l, r, n)
        [] s = "commentStart" -> LexCommentStart(l, r, n)
        [] s = "comment" -> LexComment(l, r, n)
        [] s = "value" -> LexValue(l, r, n)
        [] s = "arrayValue" -> LexArrayValue(l, r, n)
        [] s = "arrayValueEnd" -> LexArrayValueEnd(l, r, n)
        [] s = "string" -> LexString(l, r, n)
        [] s = "rawString" -> LexRawString(l, r, n)
        [] s = "multilineString" -> LexMultilineString(l, r, n)
        [] s = "multilineRawString" -> LexMultilineRawString(l, r, n)
        [] s = "stringEscape" -> LexStringEscape(l, r, n)
        [] s = "multilineStringEscape" -> LexMultilineStringEscape(l, r, n)
        [] s = "stringUnicode" -> Unicode(l, "string")
        [] s = "multilineStringUnicode" -> Unicode(l, "multilineString")
        [] s = "true" -> LexConst(l, <<{"r"}, {"u"}, {"e"}>>)
        [] s = "false" -> LexConst(l, <<{"a"}, {"l"}, {"s"}, {"e"}>>)
        [] s = "numberOrDateStart" -> NumberThen(l, r, n, "numberOrDate")
        [] s = "numberOrDate" -> LexNumberOrDate(l, r, n)
        [] s = "dateAfterYear" -> LexDateAfterYear(l)
        [] s = "numberStart" -> NumberThen(l, r, n, "number")
        [] s = "number" -> LexNumber(l, r, n)
        [] s = "floatStart" -> NumberThen(l, r, n, "float")
        [] s = "float" -> LexFloat(l, r, n)
-----------------------------------------------------------------------------
\* The parser. wants holds, innermost first, what each call in progress waits for
\* and, for an array, the type of its values so far.
Want(what) == [what |-> what, typ |-> "none"]

\* stripEscapedWhitespace cuts each backslash before a line end, escaped itself or
\* not, with the line end and the blanks after it.
Stripped(t) ==
  LET breaks == {b \in 1 .. Len(t) - 1 : t[b] = "\\" /\ t[b + 1] = "nl"}
      cut == {i \in 1 .. Len(t) : \E b \in breaks : b <= i /\ \A k \in b + 2 .. i : t[k] \in Blank}
      s[i \in 0 .. Len(t)] ==
        IF i = 0 THEN <<>> ELSE IF i \in cut THEN s[i - 1] ELSE Append(s[i - 1], t[i])
  IN  s[Len(t)]

\* A text with taken[i] bytes from i on replaced by piece[i].
Rewritten(t, piece, taken) ==
  LET u[i \in 1 .. Len(t) + 1] == IF i > Len(t) THEN <<>> ELSE piece[i] \o u[i + taken[i]]
  IN  u[1]

\* replaceEscapes.
Unescaped(t) ==
  LET begins(i) == t[i] = "\\" /\ i < Len(t) /\ t[i + 1] \in Escapes
  IN  Rewritten(t, [i \in 1 .. Len(t) |-> IF ~begins(i) THEN <<t[i]>>
                                          ELSE IF t[i + 1] = "\\" THEN <<"\\">> ELSE <<"ctl">>],
                   [i \in 1 .. Len(t) |-> IF begins(i) THEN 2 ELSE 1])

\* asciiEscapeToUnicode: the bytes of the rune of four hexadecimals. The runes 92
\* and 117 are \ and u; a surrogate becomes U+FFFD, as wide as it.
Digit(h) == LET i == CHOOSE i \in 1 .. 22 : Hexes[i] = h IN IF i <= 16 THEN i - 1 ELSE i - 7
ValueAt(s, i) == 4096 * Digit(s[i]) + 256 * Digit(s[i + 1]) + 16 * Digit(s[i + 2]) + Digit(s[i + 3])
BytesOf(v) ==
  CASE v = 92 -> <<"\\">>
    [] v = 117 -> <<"u">>
    [] v \in 48 .. 57 -> <<Hexes[v - 47]>>
    [] v \in 97 .. 102 -> <<Hexes[v - 86]>>
    [] v \in 65 .. 70 -> <<Hexes[v - 48]>>
    [] v \in (0 .. 127) \ ({92, 117} \cup 48 .. 57 \cup 97 .. 102 \cup 65 .. 70) -> <<"ctl">>
    [] v \in 128 .. 2047 -> <<"two", "cont">>
    [] OTHER -> <<"three", "cont", "cont">>

\* replaceUnicode looks for \u again after each replacement, from the start. One that
\* an escaped backslash, or the escape of a backslash, has made has no four
\* hexadecimals checked by the lexer.
Unicodes(s) == {i \in 1 .. Len(s) - 1 : s[i] = "\\" /\ s[i + 1] = "u"}
IndexEsc(s) == CHOOSE b \in Unicodes(s) : \A i \in Unicodes(s) : b <= i
Stops(s) ==
  LET b == IndexEsc(s)
  IN  IF Unicodes(s) = {} THEN "run"
      ELSE IF b + 5 > Len(s) THEN "panic"
      ELSE IF \A j \in b + 2 .. b + 5 : s[j] \in Hexadecimal THEN "run" ELSE "bug"
Replaced(s) ==
  LET b == IndexEsc(s)
      same == {i \in 1 .. Len(s) - 5 : SubSeq(s, i, i + 5) = SubSeq(s, b, b + 5)}
  IN  Rewritten(s, [i \in 1 .. Len(s) |-> IF i \in same THEN BytesOf(ValueAt(s, b + 2)) ELSE <<s[i]>>],
                   [i \in 1 .. Len(s) |-> IF i \in same THEN 6 ELSE 1])

\* Each replacement makes the text shorter, so that Len(t) of them are enough.
ReplaceUnicode(t) ==
  LET again == [s \in Seq(Bytes) |-> IF Unicodes(s) = {} \/ Stops(s) # "run" THEN s ELSE Replaced(s)]
      s[k \in 0 .. Len(t)] == IF k = 0 THEN t ELSE again[s[k - 1]]
  IN  Stops(s[Len(t)])

\* The lexer checks that a date has digits; time.Parse, that it is one. (Later
\* versions of it know the length of each month, too.)
TwoDigits(t, i) == 10 * Digit(t[i]) + Digit(t[i + 1])
ParseTime(t) ==
  IF /\ TwoDigits(t, 6) \in 1 .. 12 /\ TwoDigits(t, 9) \in 1 .. 31 /\ TwoDigits(t, 12) \in 0 .. 23
     /\ TwoDigits(t, 15) \in 0 .. 59 /\ TwoDigits(t, 18) \in 0 .. 59
  THEN "run" ELSE "bug"

Strings == {"String", "MultilineString", "RawString", "RawMultilineString"}
Primitives == Strings \cup {"Bool", "Integer", "Float", "Datetime"}
TypeOfPrimitive(typ) == IF typ \in Strings THEN "String" ELSE typ

Converted(item) ==
  CASE item.typ = "String" -> ReplaceUnicode(Unescaped(item.text))
    [] item.typ = "MultilineString" -> ReplaceUnicode(Unescaped(Stripped(item.text)))
    [] item.typ = "Datetime" -> ParseTime(item.text)
    [] OTHER -> "run"

\* A value of a type has been parsed for the innermost call of ws.
ParsedValue(ws, typ) ==
  IF Head(ws).what = "value" THEN Tail(ws)
  ELSE LET one == IF Head(ws).typ \in {"none", typ} THEN typ ELSE "mixed"
       IN  <<[Head(ws) EXCEPT !.typ = one]>> \o Tail(ws)

\* What the calls wait for after an item they expect.
Opens == [CommentStart |-> <<"text">>, TableStart |-> <<"text", "TableEnd">>,
          ArrayTableStart |-> <<"text", "ArrayTableEnd">>, KeyStart |-> <<"text", "value">>]
Wanted(typ) == [i \in 1 .. Len(Opens[typ]) |-> Want(Opens[typ][i])]

Expects(what, typ) ==
  CASE what = "top"   -> typ \in DOMAIN Opens \cup {"EOF"}
    [] what = "text"  -> typ = "Text"
    [] what = "value" -> typ \in Primitives \cup {"Array"}
    [] what = "array" -> typ \in Primitives \cup {"Array", "CommentStart", "ArrayEnd"}
    [] OTHER          -> typ \in {"Text", what}

Takes(ws, typ) ==
  CASE typ \in DOMAIN Opens -> Wanted(typ) \o ws
    [] typ \in Primitives   -> ParsedValue(ws, TypeOfPrimitive(typ))
    [] typ = "Array"        -> <<Want("array")>> \o ws
    [] typ = "ArrayEnd"     -> ParsedValue(Tail(ws), "Array")
    [] typ = "Text" /\ Head(ws).what # "text" -> ws
    [] OTHER                -> Tail(ws)
-----------------------------------------------------------------------------
LexInit ==
  /\ doc \in {Append(d, "nl") : d \in Documents}
  /\ lx = [start |-> 1, pos |-> 1, width |-> 0, state |-> "top", stack |-> <<>>, items |-> <<>>]
  /\ wants = <<Want("top")>>
  /\ verdict = "run"

\* nextItem, while the channel is empty. A nil state function panics when called.
LexStep ==
  /\ verdict = "run" /\ lx.items = <<>>
  /\ LET l == StateFn(lx.state, lx)
     IN  IF lx.state = "nil" \/ l.state = "panic" THEN verdict' = "panic" /\ UNCHANGED lx
         ELSE lx' = l /\ UNCHANGED verdict
  /\ UNCHANGED <<doc, wants>>

\* The parser takes an item: parser.next, expect, topLevel and value.
ParseItem ==
  /\ verdict = "run" /\ lx.items # <<>>
  /\ lx' = [lx EXCEPT !.items = Tail(@)]
  /\ LET item == Head(lx.items)
     IN  CASE item.typ = "Error" -> verdict' = "error" /\ UNCHANGED wants
           [] item.typ # "Error" /\ ~Expects(Head(wants).what, item.typ) -> verdict' = "bug" /\ UNCHANGED wants
           [] OTHER ->
                /\ wants' = Takes(wants, item.typ)
                /\ verdict' = CASE item.typ = "EOF" -> "ok"
                                [] item.typ = "ArrayEnd" /\ Head(wants).typ = "mixed" -> "error"
                                [] OTHER -> Converted(item)
  /\ UNCHANGED doc

LexNext == LexStep \/ ParseItem

LexSpec == LexInit /\ [][LexNext]_lexVars
-----------------------------------------------------------------------------
\* Types, the capacity of the channel, and pos within the input.
LexTypeOK ==
  /\ verdict \in {"run", "ok", "error", "bug", "panic"}
  /\ lx.start \in 1 .. Len(doc) + 1 /\ lx.pos \in 1 .. Len(doc) + 1
  /\ Len(lx.items) <= 2 /\ Len(wants) <= Len(doc) + 3

\* The lexer, with its stack of states, and the parser, with its stack of calls,
\* keep to each other in every document: an item that is not an error is one the
\* innermost call expects, and when there is none there is a state to run.
ItemsExpected ==
  verdict = "run" =>
    IF lx.items = <<>> THEN lx.state # "nil"
    ELSE \/ Head(lx.items).typ = "Error"
         \/ wants # <<>> /\ Expects(Head(wants).what, Head(lx.items).typ)

\* A document in which no backslash is followed by another or by a line end, and none
\* is written as an escape \u005c, is parsed or rejected with an error. It stops the
\* program ("BUG", log.Fatalf) only if it has a date, and panics only if it has a rune
\* of three bytes.
Follows(a, b) == \E i \in 1 .. Len(doc) - 1 : doc[i] = a /\ doc[i + 1] = b
Holds(r) == \E i \in 1 .. Len(doc) : doc[i] = r
Spells(s, i) ==
  /\ s[i] = "\\" /\ s[i + 1] = "u" /\ s[i + 2] = "0" /\ s[i + 3] = "0" /\ s[i + 4] = "5"
  /\ s[i + 5] \in {"c", "C"}
ItemsFit ==
  LET escaped == \/ Follows("\\", "\\") \/ Follows("\\", "nl")
                 \/ \E i \in 1 .. Len(doc) - 5 : Spells(doc, i)
  IN  /\ verdict = "bug" => escaped \/ Holds("Z")
      /\ verdict = "panic" => escaped \/ Holds("three")

\* What bug says when four bytes after \u are no hexadecimals (parse.go:431): that the
\* lexer claims they are. A document without an escaped backslash, a backslash before
\* a line end, or a date, never gets there.
LexerChecksHex ==
  verdict = "bug" => Follows("\\", "\\") \/ Follows("\\", "nl") \/ Holds("Z")

\* Once begun, the parse of a document ends, or is inside a multiline string: only
\* there does a state function not look for the end of the input.
Unending == {"multilineString", "multilineRawString", "multilineStringEscape",
             "multilineStringUnicode"}
ParseEnds == lx.pos > 1 ~> verdict # "run" \/ lx.state \in Unending
=============================================================================
