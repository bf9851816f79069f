----------------------------- MODULE TomlProofs -----------------------------
(***************************************************************************)
(* The TOML lexer and the parser that drives it keep to each other: in any *)
(* document, the lexer emits nothing but errors and what the innermost     *)
(* call of the parser expects, and has a state to run when it is asked.    *)
(* And the texts it emits are ones the parser can convert: the invariant   *)
(* for that (FitInv) says where start and pos are, and what every          *)
(* backslash of the text in between begins.                                *)
(***************************************************************************)
EXTENDS TomlLexer, DataInduction, SequenceTheorems, TLAPS

\* The states inside a value that is not an array, the states on the stack, and
\* what a call of the parser may wait for.
ValueStates ==
  {"value", "string", "rawString", "multilineString", "multilineRawString", "stringEscape",
   "multilineStringEscape", "stringUnicode", "multilineStringUnicode", "true", "false",
   "numberOrDateStart", "numberOrDate", "dateAfterYear", "numberStart", "number",
   "floatStart", "float"}
Stacked == {"top", "topEnd", "tableEnd", "arrayTableEnd", "arrayValue", "arrayValueEnd"}
Types == {"none", "mixed", "String", "Bool", "Integer", "Float", "Datetime", "Array"}
Wants == [what : {"top", "text", "value", "array", "TableEnd", "ArrayTableEnd"}, typ : Types]

Awaits(w, whats) == Len(w) = Len(whats) /\ \A i \in 1 .. Len(whats) : w[i].what = whats[i]

\* A stack of states under a value, and the calls that wait with d arrays that
\* are not on the stack: a call of value for the key, and one for each array.
Nested(st, w, d) ==
  /\ Len(st) > 0 /\ st[Len(st)] = "topEnd"
  /\ \A i \in 1 .. Len(st) - 1 : st[i] = "arrayValueEnd"
  /\ Len(w) = Len(st) + d + 1
  /\ \A i \in 1 .. Len(w) - 2 : w[i].what = "array"
  /\ w[Len(w) - 1].what = "value" /\ w[Len(w)].what = "top"

\* Where a comment ends.
Returns(st, w) ==
  \/ st = <<"top">> /\ Awaits(w, <<"top">>)
  \/ st # <<>> /\ Head(st) \in {"arrayValue", "arrayValueEnd"} /\ Nested(Tail(st), w, 1)

\* A table's name, of which the parser has taken parts or not.
EndItem == [tableEnd |-> "TableEnd", arrayTableEnd |-> "ArrayTableEnd"]
Naming(st, w) ==
  \E end \in {"tableEnd", "arrayTableEnd"} :
    /\ st = <<end>>
    /\ Awaits(w, <<"text", EndItem[end], "top">>) \/ Awaits(w, <<EndItem[end], "top">>)

\* What the calls of the parser, which have taken all items, wait for in state s
\* of the lexer with stack st.
Fits(s, st, w) ==
  /\ st \in Seq(Stacked) /\ w \in Seq(Wants)
  /\ \/ s \in {"top", "topEnd", "tableStart"} /\ st = <<>> /\ Awaits(w, <<"top">>)
     \/ s = "commentStart" /\ Returns(st, w)
     \/ s = "comment" /\ w # <<>> /\ Head(w).what = "text" /\ Returns(st, Tail(w))
     \/ s \in {"tableNameStart", "tableName"} /\ Naming(st, w)
     \/ s = "tableEnd" /\ st = <<>> /\ Awaits(w, <<"TableEnd", "top">>)
     \/ s = "arrayTableEnd" /\ st = <<>> /\ Awaits(w, <<"ArrayTableEnd", "top">>)
     \/ s = "keyStart" /\ st = <<"topEnd">> /\ Awaits(w, <<"top">>)
     \/ s = "key" /\ st = <<"topEnd">> /\ Awaits(w, <<"text", "value", "top">>)
     \/ s = "keyEnd" /\ st = <<"topEnd">> /\ Awaits(w, <<"value", "top">>)
     \/ s \in ValueStates /\ Nested(st, w, 0)
     \/ s \in {"arrayValue", "arrayValueEnd"} /\ Nested(st, w, 1)

\* A lexer in state s with stack st and one item of kind k, or none, or an error.
IsLexer(l) ==
  l = [start |-> l.start, pos |-> l.pos, width |-> l.width, state |-> l.state,
       stack |-> l.stack, items |-> l.items]
Carries(items, k) ==
  CASE k = "none"  -> items = <<>>
    [] k = "Error" -> items # <<>> /\ Head(items).typ = "Error"
    [] OTHER       -> \E t : items = <<[typ |-> k, text |-> t]>>
Has(l, s, st, k) == IsLexer(l) /\ l.state = s /\ l.stack = st /\ Carries(l.items, k)

\* A lexer the parser gets on with: it expects the item, and once it has taken
\* it, or if there is none, it waits for what the state of the lexer is in.
Fine(l, w) ==
  \E s, st, k :
    /\ Has(l, s, st, k)
    /\ \/ k = "Error"
       \/ k = "none" /\ Fits(s, st, w)
       \/ /\ k \notin {"none", "Error"} /\ w # <<>> /\ Expects(Head(w).what, k)
          /\ k = "EOF" \/ Fits(s, st, Takes(w, k))

LexInv == verdict = "run" => Fine(lx, wants)

-----------------------------------------------------------------------------
(* Sequences: an element before, and the rest after the first.             *)

LEMMA ConsFacts ==
  ASSUME NEW S, NEW x \in S, NEW s \in Seq(S)
  PROVE  /\ <<x>> \o s \in Seq(S) /\ <<x>> \o s # <<>>
         /\ Len(<<x>> \o s) = Len(s) + 1 /\ Len(s) \in Nat
         /\ Head(<<x>> \o s) = x /\ Tail(<<x>> \o s) = s
         /\ (<<x>> \o s)[1] = x
         /\ \A i \in 1 .. Len(s) : (<<x>> \o s)[i + 1] = s[i]
         /\ \A i \in 2 .. Len(s) + 1 : (<<x>> \o s)[i] = s[i - 1]
<1> DEFINE c == <<x>> \o s
<1>1. /\ c \in Seq(S) /\ Len(c) = Len(s) + 1 /\ Len(s) \in Nat /\ c[1] = x
      /\ \A i \in 2 .. Len(s) + 1 : c[i] = s[i - 1]
  OBVIOUS
<1>2. c # <<>> /\ Head(c) = x
  BY <1>1
<1>3. Tail(c) = s
  <2>1. Tail(c) \in Seq(S) /\ Len(Tail(c)) = Len(s) /\ \A i \in 1 .. Len(s) : Tail(c)[i] = s[i]
    BY <1>1, <1>2
  <2> QED BY <2>1
<1>4. \A i \in 1 .. Len(s) : c[i + 1] = s[i]
  BY <1>1
<1> QED BY <1>1, <1>2, <1>3, <1>4

LEMMA RestFacts ==
  ASSUME NEW S, NEW s \in Seq(S), s # <<>>
  PROVE  /\ Len(s) \in Nat \ {0} /\ Head(s) = s[1] /\ Head(s) \in S
         /\ Tail(s) \in Seq(S) /\ Len(Tail(s)) = Len(s) - 1
         /\ \A i \in 1 .. Len(s) - 1 : Tail(s)[i] = s[i + 1]
OBVIOUS

LEMMA AwaitsOne ==
  ASSUME NEW w \in Seq(Wants), NEW a
  PROVE  Awaits(w, <<a>>) <=> Len(w) = 1 /\ w[1].what = a
BY DEF Awaits

LEMMA AwaitsTwo ==
  ASSUME NEW w \in Seq(Wants), NEW a, NEW b
  PROVE  Awaits(w, <<a, b>>) <=> Len(w) = 2 /\ w[1].what = a /\ w[2].what = b
<1>1. Len(<<a, b>>) = 2 /\ <<a, b>>[1] = a /\ <<a, b>>[2] = b
  OBVIOUS
<1>2. \A i \in 1 .. 2 : i = 1 \/ i = 2
  OBVIOUS
<1> QED BY <1>1, <1>2 DEF Awaits

LEMMA AwaitsThree ==
  ASSUME NEW w \in Seq(Wants), NEW a, NEW b, NEW c
  PROVE  Awaits(w, <<a, b, c>>) <=> Len(w) = 3 /\ w[1].what = a /\ w[2].what = b /\ w[3].what = c
<1>1. Len(<<a, b, c>>) = 3 /\ <<a, b, c>>[1] = a /\ <<a, b, c>>[2] = b /\ <<a, b, c>>[3] = c
  OBVIOUS
<1>2. \A i \in 1 .. 3 : i = 1 \/ i = 2 \/ i = 3
  OBVIOUS
<1> QED BY <1>1, <1>2 DEF Awaits

-----------------------------------------------------------------------------
(* What the helpers of the lexer do to a lexer.                            *)

Is(m, s, st, items) == IsLexer(m) /\ m.state = s /\ m.stack = st /\ m.items = items

LEMMA SetStart ==
  ASSUME NEW l, IsLexer(l), NEW x PROVE Is([l EXCEPT !.start = x], l.state, l.stack, l.items)
BY DEF Is, IsLexer

LEMMA SetPos ==
  ASSUME NEW l, IsLexer(l), NEW x PROVE Is([l EXCEPT !.pos = x], l.state, l.stack, l.items)
BY DEF Is, IsLexer

LEMMA SetWidth ==
  ASSUME NEW l, IsLexer(l), NEW x PROVE Is([l EXCEPT !.width = x], l.state, l.stack, l.items)
BY DEF Is, IsLexer

LEMMA SetState ==
  ASSUME NEW l, IsLexer(l), NEW x PROVE Is([l EXCEPT !.state = x], x, l.stack, l.items)
BY DEF Is, IsLexer

LEMMA SetStack ==
  ASSUME NEW l, IsLexer(l), NEW x PROVE Is([l EXCEPT !.stack = x], l.state, x, l.items)
BY DEF Is, IsLexer

LEMMA SetItems ==
  ASSUME NEW l, IsLexer(l), NEW x PROVE Is([l EXCEPT !.items = x], l.state, l.stack, x)
BY DEF Is, IsLexer

LEMMA Twice ==
  ASSUME NEW l, IsLexer(l), NEW x, NEW y
  PROVE  /\ [l EXCEPT !.width = x, !.pos = y] = [[l EXCEPT !.width = x] EXCEPT !.pos = y]
         /\ [l EXCEPT !.pos = x, !.width = y] = [[l EXCEPT !.pos = x] EXCEPT !.width = y]
         /\ [l EXCEPT !.state = x, !.stack = y] = [[l EXCEPT !.state = x] EXCEPT !.stack = y]
         /\ [l EXCEPT !.items = x, !.state = y] = [[l EXCEPT !.items = x] EXCEPT !.state = y]
BY DEF IsLexer
LEMMA Moving ==
  ASSUME NEW l, NEW s, NEW st, NEW k, Has(l, s, st, k)
  PROVE  /\ Has(NextRune(l), s, st, k) /\ Has(Backup(l), s, st, k) /\ Has(Ignore(l), s, st, k)
         /\ \A n : Has(Skip(l, n), s, st, k) /\ Has([l EXCEPT !.pos = @ - n], s, st, k)
<1>1. ASSUME NEW m, Is(m, l.state, l.stack, l.items)
      PROVE  Has(m, s, st, k)
  BY <1>1 DEF Has, Is
<1>2. IsLexer(l)
  BY DEF Has
<1>3. ASSUME NEW p PROVE Is([l EXCEPT !.pos = p], l.state, l.stack, l.items)
  BY <1>2, SetPos
<1>4. Has(NextRune(l), s, st, k)
  <2>1. PICK x, p : NextRune(l) = [l EXCEPT !.width = x, !.pos = p]
    BY DEF NextRune
  <2> DEFINE a == [l EXCEPT !.width = x]
  <2>2. NextRune(l) = [a EXCEPT !.pos = p]
    BY <1>2, <2>1, Twice
  <2>3. Is(a, l.state, l.stack, l.items)
    BY <1>2, SetWidth
  <2> HIDE DEF a
  <2>4. Is(NextRune(l), a.state, a.stack, a.items)
    BY <2>2, <2>3, SetPos DEF Is
  <2> QED BY <1>1, <2>3, <2>4 DEF Is
<1>5. Has(Backup(l), s, st, k) /\ Has(Ignore(l), s, st, k)
  BY <1>1, <1>2, <1>3, SetStart DEF Backup, Ignore
<1>6. ASSUME NEW n PROVE Has(Skip(l, n), s, st, k) /\ Has([l EXCEPT !.pos = @ - n], s, st, k)
  <2>1. Has([l EXCEPT !.pos = @ - n], s, st, k)
    BY <1>1, <1>3
  <2> DEFINE a == [l EXCEPT !.pos = @ + n]
  <2>2. Skip(l, n) = [a EXCEPT !.width = 1]
    BY <1>2, Twice DEF Skip
  <2>3. Is(a, l.state, l.stack, l.items)
    BY <1>3
  <2> HIDE DEF a
  <2>4. Is(Skip(l, n), a.state, a.stack, a.items)
    BY <2>2, <2>3, SetWidth DEF Is
  <2> QED BY <1>1, <2>1, <2>3, <2>4 DEF Is
<1> QED BY <1>4, <1>5, <1>6

LEMMA Going ==
  ASSUME NEW l, NEW s, NEW st, NEW k, Has(l, s, st, k), NEW t
  PROVE  /\ Has(ToState(l, t), t, st, k)
         /\ Has(PushState(l, t), s, <<t>> \o st, k)
<1>1. IsLexer(l) /\ l.state = s /\ l.stack = st
  BY DEF Has
<1>2. Is(ToState(l, t), t, st, l.items)
  BY <1>1, SetState DEF ToState
<1>3. Is(PushState(l, t), s, <<t>> \o st, l.items)
  BY <1>1, SetStack DEF PushState
<1> QED BY <1>2, <1>3 DEF Has, Is

LEMMA Popping ==
  ASSUME NEW l, NEW s, NEW st, NEW k, Has(l, s, st, k), st # <<>>
  PROVE  Has(PopState(l), Head(st), Tail(st), k)
<1>1. IsLexer(l) /\ l.stack = st
  BY DEF Has
<1>2. PopState(l) = [l EXCEPT !.state = Head(st), !.stack = Tail(st)]
  BY <1>1 DEF PopState
<1> DEFINE a == [l EXCEPT !.state = Head(st)]
<1>3. Is(a, Head(st), st, l.items)
  BY <1>1, SetState
<1>4. PopState(l) = [a EXCEPT !.stack = Tail(st)]
  BY <1>1, <1>2, Twice
<1>5. IsLexer(a)
  BY <1>3 DEF Is
<1> HIDE DEF a
<1>6. Is(PopState(l), a.state, Tail(st), a.items)
  BY <1>4, <1>5, SetStack
<1> QED BY <1>3, <1>6 DEF Has, Is

LEMMA Emitting ==
  ASSUME NEW l, NEW s, NEW st, Has(l, s, st, "none")
  PROVE  /\ \A typ : typ \notin {"none", "Error"} => Has(Emit(l, typ), s, st, typ)
         /\ Has(Errorf(l), "nil", st, "Error")
<1>1. \A x : Append(<<>>, x) = <<x>>
  OBVIOUS
<1>2. l.items = <<>> /\ IsLexer(l) /\ l.state = s /\ l.stack = st
  BY DEF Has, Carries
<1>3. ASSUME NEW typ, typ \notin {"none", "Error"} PROVE Has(Emit(l, typ), s, st, typ)
  <2> DEFINE x == [typ |-> typ, text |-> SubSeq(doc, l.start, l.pos - 1)]
             m == [l EXCEPT !.items = Append(@, x)]
  <2>1. m = [l EXCEPT !.items = <<x>>]
    BY <1>1, <1>2
  <2>2. Carries(<<x>>, typ)
    BY <1>3 DEF Carries
  <2>3. Emit(l, typ) = Ignore(m)
    BY DEF Emit
  <2> HIDE DEF m, x
  <2>4. Is(m, s, st, <<x>>)
    BY <1>2, <2>1, SetItems
  <2>5. Has(m, s, st, typ)
    BY <2>2, <2>4 DEF Has, Is
  <2> QED BY <2>3, <2>5, Moving
<1>4. Has(Errorf(l), "nil", st, "Error")
  <2> DEFINE x == [typ |-> "Error", text |-> <<>>]
             a == [l EXCEPT !.items = <<x>>]
  <2>1. Errorf(l) = [l EXCEPT !.items = Append(@, x), !.state = "nil"]
    BY DEF Errorf
  <2>2. Errorf(l) = [a EXCEPT !.state = "nil"]
    BY <1>1, <1>2, <2>1, Twice
  <2>3. Carries(<<x>>, "Error")
    BY DEF Carries
  <2>4. Is(a, s, st, <<x>>)
    BY <1>2, SetItems
  <2> HIDE DEF a, x
  <2>5. Is(Errorf(l), "nil", st, <<x>>)
    BY <2>2, <2>4, SetState DEF Is
  <2> QED BY <2>3, <2>5 DEF Has, Is
<1> QED BY <1>3, <1>4

-----------------------------------------------------------------------------
(* What the parser makes of an item.                                       *)

LEMMA TakesIs ==
  ASSUME NEW w \in Seq(Wants)
  PROVE  /\ Takes(w, "CommentStart") = <<Want("text")>> \o w
         /\ Takes(w, "TableStart") = <<Want("text"), Want("TableEnd")>> \o w
         /\ Takes(w, "ArrayTableStart") = <<Want("text"), Want("ArrayTableEnd")>> \o w
         /\ Takes(w, "KeyStart") = <<Want("text"), Want("value")>> \o w
         /\ Takes(w, "Array") = <<Want("array")>> \o w
         /\ Takes(w, "ArrayEnd") = ParsedValue(Tail(w), "Array")
         /\ Takes(w, "Text") = IF Head(w).what = "text" THEN Tail(w) ELSE w
         /\ Takes(w, "TableEnd") = Tail(w) /\ Takes(w, "ArrayTableEnd") = Tail(w)
         /\ \A typ \in Primitives : Takes(w, typ) = ParsedValue(w, TypeOfPrimitive(typ))
<1>1. DOMAIN Opens = {"CommentStart", "TableStart", "ArrayTableStart", "KeyStart"}
  BY DEF Opens
<1>2. Primitives = {"String", "MultilineString", "RawString", "RawMultilineString", "Bool",
                    "Integer", "Float", "Datetime"}
  BY DEF Primitives, Strings
<1>3. ASSUME NEW typ, NEW a, Opens[typ] = <<a>> PROVE Wanted(typ) = <<Want(a)>>
  <2>1. Len(Opens[typ]) = 1 /\ Opens[typ][1] = a
    BY <1>3
  <2>2. Wanted(typ) = [i \in 1 .. 1 |-> Want(Opens[typ][i])]
    BY <2>1 DEF Wanted
  <2> QED BY <2>1, <2>2
<1>4. ASSUME NEW typ, NEW a, NEW b, Opens[typ] = <<a, b>> PROVE Wanted(typ) = <<Want(a), Want(b)>>
  <2>1. Len(Opens[typ]) = 2 /\ Opens[typ][1] = a /\ Opens[typ][2] = b
    BY <1>4
  <2>2. Wanted(typ) = [i \in 1 .. 2 |-> Want(Opens[typ][i])]
    BY <2>1 DEF Wanted
  <2> QED BY <2>1, <2>2
<1>5. Takes(w, "CommentStart") = <<Want("text")>> \o w
  <2>1. Opens["CommentStart"] = <<"text">>
    BY DEF Opens
  <2>2. Wanted("CommentStart") = <<Want("text")>>
    BY <1>3, <2>1
  <2> QED BY <1>1, <1>2, <2>2 DEF Takes
<1>6. Takes(w, "TableStart") = <<Want("text"), Want("TableEnd")>> \o w
  <2>1. Opens["TableStart"] = <<"text", "TableEnd">>
    BY DEF Opens
  <2>2. Wanted("TableStart") = <<Want("text"), Want("TableEnd")>>
    BY <1>4, <2>1
  <2> QED BY <1>1, <1>2, <2>2 DEF Takes
<1>7. Takes(w, "ArrayTableStart") = <<Want("text"), Want("ArrayTableEnd")>> \o w
  <2>1. Opens["ArrayTableStart"] = <<"text", "ArrayTableEnd">>
    BY DEF Opens
  <2>2. Wanted("ArrayTableStart") = <<Want("text"), Want("ArrayTableEnd")>>
    BY <1>4, <2>1
  <2> QED BY <1>1, <1>2, <2>2 DEF Takes
<1>8. Takes(w, "KeyStart") = <<Want("text"), Want("value")>> \o w
  <2>1. Opens["KeyStart"] = <<"text", "value">>
    BY DEF Opens
  <2>2. Wanted("KeyStart") = <<Want("text"), Want("value")>>
    BY <1>4, <2>1
  <2> QED BY <1>1, <1>2, <2>2 DEF Takes
<1>9. /\ Takes(w, "Array") = <<Want("array")>> \o w
      /\ Takes(w, "ArrayEnd") = ParsedValue(Tail(w), "Array")
  BY <1>1, <1>2 DEF Takes
<1>10. Takes(w, "Text") = IF Head(w).what = "text" THEN Tail(w) ELSE w
  BY <1>1, <1>2 DEF Takes
<1>11. Takes(w, "TableEnd") = Tail(w) /\ Takes(w, "ArrayTableEnd") = Tail(w)
  BY <1>1, <1>2 DEF Takes
<1>12. ASSUME NEW typ \in Primitives PROVE Takes(w, typ) = ParsedValue(w, TypeOfPrimitive(typ))
  BY <1>1, <1>2 DEF Takes
<1> QED BY <1>5, <1>6, <1>7, <1>8, <1>9, <1>10, <1>11, <1>12

LEMMA WantIs == \A x \in {"top", "text", "value", "array", "TableEnd", "ArrayTableEnd"} :
                  Want(x) \in Wants /\ Want(x).what = x
<1>1. ASSUME NEW x \in {"top", "text", "value", "array", "TableEnd", "ArrayTableEnd"}
      PROVE  Want(x) \in Wants /\ Want(x).what = x
  <2>1. Want(x) = [what |-> x, typ |-> "none"]
    BY DEF Want
  <2>2. [what |-> x, typ |-> "none"] \in Wants
    BY DEF Wants, Types
  <2> QED BY <2>1, <2>2
<1> QED BY <1>1

LEMMA PairFacts ==
  ASSUME NEW x \in Wants, NEW y \in Wants, NEW w \in Seq(Wants)
  PROVE  /\ <<x, y>> \o w \in Seq(Wants) /\ Len(<<x, y>> \o w) = Len(w) + 2
         /\ (<<x, y>> \o w)[1] = x /\ (<<x, y>> \o w)[2] = y
         /\ \A i \in 1 .. Len(w) : (<<x, y>> \o w)[i + 2] = w[i]
OBVIOUS

\* After a value the lexer goes back to what the innermost call waits for.
LEMMA Parsed ==
  ASSUME NEW st \in Seq(Stacked), NEW w \in Seq(Wants), Nested(st, w, 0), NEW t \in Types
  PROVE  /\ st # <<>> /\ w # <<>> /\ Head(w).what \in {"value", "array"}
         /\ Fits(Head(st), Tail(st), ParsedValue(w, t))
<1>1. /\ Len(st) \in Nat \ {0} /\ st # <<>> /\ Len(w) = Len(st) + 1 /\ w # <<>>
      /\ w[Len(w) - 1].what = "value" /\ w[Len(w)].what = "top"
      /\ st[Len(st)] = "topEnd" /\ \A i \in 1 .. Len(st) - 1 : st[i] = "arrayValueEnd"
      /\ \A i \in 1 .. Len(w) - 2 : w[i].what = "array"
  BY DEF Nested
<1>2. /\ Head(st) = st[1] /\ Tail(st) \in Seq(Stacked) /\ Len(Tail(st)) = Len(st) - 1
      /\ \A i \in 1 .. Len(st) - 1 : Tail(st)[i] = st[i + 1]
  BY <1>1, RestFacts
<1>3. /\ Head(w) = w[1] /\ Head(w) \in Wants /\ Tail(w) \in Seq(Wants) /\ Len(Tail(w)) = Len(w) - 1
      /\ \A i \in 1 .. Len(w) - 1 : Tail(w)[i] = w[i + 1]
  BY <1>1, RestFacts
<1>4. CASE Len(st) = 1
  <2>1. Head(w).what = "value" /\ Head(st) = "topEnd" /\ Tail(st) = <<>>
    <3>1. Tail(st) \in Seq(Stacked) /\ Len(Tail(st)) = 0
      BY <1>2, <1>4
    <3>2. Tail(st) = <<>>
      BY <3>1, EmptySeq
    <3> QED BY <1>1, <1>2, <1>3, <1>4, <3>2
  <2>2. ParsedValue(w, t) = Tail(w)
    BY <2>1 DEF ParsedValue
  <2>3. Len(Tail(w)) = 1 /\ Tail(w)[1].what = "top"
    <3>1. Len(w) = 2 /\ 1 \in 1 .. Len(w) - 1
      BY <1>1, <1>4
    <3>2. Tail(w)[1] = w[2] /\ w[2].what = "top"
      BY <1>1, <1>3, <3>1
    <3>3. Len(Tail(w)) = 1
      BY <1>3, <3>1
    <3> QED BY <3>2, <3>3
  <2>4. Awaits(Tail(w), <<"top">>)
    BY <1>3, <2>3, AwaitsOne
  <2> QED BY <1>1, <1>3, <2>1, <2>2, <2>4 DEF Fits
<1>5. CASE Len(st) # 1
  <2>1. Head(w).what = "array" /\ Head(st) = "arrayValueEnd"
    BY <1>1, <1>2, <1>3, <1>5
  <2> DEFINE v == ParsedValue(w, t)
  <2>2. PICK x \in Wants : x.what = "array" /\ v = <<x>> \o Tail(w)
    <3>1. \A u \in Types : LET x == [Head(w) EXCEPT !.typ = u] IN x \in Wants /\ x.what = "array"
      BY <1>3, <2>1 DEF Wants
    <3>2. PICK u \in Types : v = <<[Head(w) EXCEPT !.typ = u]>> \o Tail(w)
      <4> DEFINE one == IF Head(w).typ \in {"none", t} THEN t ELSE "mixed"
      <4>1. v = <<[Head(w) EXCEPT !.typ = one]>> \o Tail(w)
        BY <2>1 DEF ParsedValue
      <4>2. one \in Types
        BY DEF Types
      <4> HIDE DEF v, one
      <4> QED BY <4>1, <4>2
    <3> HIDE DEF v
    <3> QED BY <3>1, <3>2
  <2>3. /\ v \in Seq(Wants) /\ Len(v) = Len(w) /\ v[1] = x
        /\ \A i \in 2 .. Len(w) : v[i] = w[i]
    <3>1. /\ v \in Seq(Wants) /\ Len(v) = Len(Tail(w)) + 1 /\ v[1] = x
          /\ \A i \in 2 .. Len(Tail(w)) + 1 : v[i] = Tail(w)[i - 1]
      BY <1>3, <2>2, ConsFacts
    <3> HIDE DEF v
    <3> QED BY <1>1, <1>3, <3>1
  <2> HIDE DEF v
  <2>4. Nested(Tail(st), v, 1)
    <3>1. Len(Tail(st)) > 0 /\ Tail(st)[Len(Tail(st))] = "topEnd"
      BY <1>1, <1>2, <1>5
    <3>2. \A i \in 1 .. Len(Tail(st)) - 1 : Tail(st)[i] = "arrayValueEnd"
      BY <1>1, <1>2, <1>5
    <3>3. Len(v) = Len(Tail(st)) + 1 + 1
      BY <1>1, <1>2, <2>3
    <3>4. \A i \in 1 .. Len(v) - 2 : v[i].what = "array"
      BY <1>1, <2>2, <2>3
    <3>5. v[Len(v) - 1].what = "value" /\ v[Len(v)].what = "top"
      <4>1. Len(w) - 1 \in 2 .. Len(w) /\ Len(w) \in 2 .. Len(w)
        <5>1. Len(st) \in Nat /\ Len(st) # 0 /\ Len(w) = Len(st) + 1
          BY <1>1
        <5>2. \A n \in Nat : n # 0 /\ n # 1 => n >= 2
          OBVIOUS
        <5>3. Len(st) >= 2
          BY <1>5, <5>1, <5>2
        <5> QED BY <5>1, <5>3
      <4> QED BY <1>1, <2>3, <4>1
    <3> QED BY <3>1, <3>2, <3>3, <3>4, <3>5 DEF Nested
  <2>5. Fits("arrayValueEnd", Tail(st), v)
    BY <1>2, <2>3, <2>4 DEF Fits
  <2>6. Fits(Head(st), Tail(st), ParsedValue(w, t))
    BY <2>1, <2>5 DEF v
  <2>7. Head(w).what \in {"value", "array"}
    BY <2>1
  <2>8. st # <<>> /\ w # <<>>
    BY <1>1
  <2> QED BY <2>6, <2>7, <2>8
<1> QED BY <1>4, <1>5

\* A value has been lexed: its type is one the innermost call expects.
LEMMA Valued ==
  ASSUME NEW st \in Seq(Stacked), NEW w \in Seq(Wants), Nested(st, w, 0), NEW typ \in Primitives
  PROVE  /\ st # <<>> /\ w # <<>> /\ Expects(Head(w).what, typ)
         /\ Fits(Head(st), Tail(st), Takes(w, typ))
<1>1. TypeOfPrimitive(typ) \in Types
  BY DEF TypeOfPrimitive, Types, Primitives, Strings
<1>2. /\ st # <<>> /\ w # <<>> /\ Head(w).what \in {"value", "array"}
      /\ Fits(Head(st), Tail(st), ParsedValue(w, TypeOfPrimitive(typ)))
  BY <1>1, Parsed
<1>3. Takes(w, typ) = ParsedValue(w, TypeOfPrimitive(typ))
  BY TakesIs
<1>4. Expects(Head(w).what, typ)
  BY <1>2 DEF Expects
<1> QED BY <1>2, <1>3, <1>4

LEMMA Typed ==
  ASSUME NEW s, NEW st, NEW w, Fits(s, st, w)
  PROVE  st \in Seq(Stacked) /\ w \in Seq(Wants)
BY DEF Fits

LEMMA FitsIs ==
  ASSUME NEW st \in Seq(Stacked), NEW w \in Seq(Wants)
  PROVE  /\ \A s \in {"top", "topEnd", "tableStart"} : Fits(s, st, w) <=> st = <<>> /\ Awaits(w, <<"top">>)
         /\ Fits("commentStart", st, w) <=> Returns(st, w)
         /\ Fits("comment", st, w) <=> w # <<>> /\ Head(w).what = "text" /\ Returns(st, Tail(w))
         /\ \A s \in {"tableNameStart", "tableName"} : Fits(s, st, w) <=> Naming(st, w)
         /\ Fits("tableEnd", st, w) <=> st = <<>> /\ Awaits(w, <<"TableEnd", "top">>)
         /\ Fits("arrayTableEnd", st, w) <=> st = <<>> /\ Awaits(w, <<"ArrayTableEnd", "top">>)
         /\ Fits("keyStart", st, w) <=> st = <<"topEnd">> /\ Awaits(w, <<"top">>)
         /\ Fits("key", st, w) <=> st = <<"topEnd">> /\ Awaits(w, <<"text", "value", "top">>)
         /\ Fits("keyEnd", st, w) <=> st = <<"topEnd">> /\ Awaits(w, <<"value", "top">>)
         /\ \A s \in ValueStates : Fits(s, st, w) <=> Nested(st, w, 0)
         /\ \A s \in {"arrayValue", "arrayValueEnd"} : Fits(s, st, w) <=> Nested(st, w, 1)
<1>1. \A s \in {"top", "topEnd", "tableStart"} : Fits(s, st, w) <=> st = <<>> /\ Awaits(w, <<"top">>)
  BY DEF Fits, ValueStates
<1>2. Fits("commentStart", st, w) <=> Returns(st, w)
  BY DEF Fits, ValueStates
<1>3. Fits("comment", st, w) <=> w # <<>> /\ Head(w).what = "text" /\ Returns(st, Tail(w))
  BY DEF Fits, ValueStates
<1>4. \A s \in {"tableNameStart", "tableName"} : Fits(s, st, w) <=> Naming(st, w)
  BY DEF Fits, ValueStates
<1>5. /\ Fits("tableEnd", st, w) <=> st = <<>> /\ Awaits(w, <<"TableEnd", "top">>)
      /\ Fits("arrayTableEnd", st, w) <=> st = <<>> /\ Awaits(w, <<"ArrayTableEnd", "top">>)
  BY DEF Fits, ValueStates
<1>6. /\ Fits("keyStart", st, w) <=> st = <<"topEnd">> /\ Awaits(w, <<"top">>)
      /\ Fits("key", st, w) <=> st = <<"topEnd">> /\ Awaits(w, <<"text", "value", "top">>)
      /\ Fits("keyEnd", st, w) <=> st = <<"topEnd">> /\ Awaits(w, <<"value", "top">>)
  BY DEF Fits, ValueStates
<1>7. \A s \in ValueStates : Fits(s, st, w) <=> Nested(st, w, 0)
  BY DEF Fits, ValueStates
<1>8. \A s \in {"arrayValue", "arrayValueEnd"} : Fits(s, st, w) <=> Nested(st, w, 1)
  BY DEF Fits, ValueStates
<1> QED BY <1>1, <1>2, <1>3, <1>4, <1>5, <1>6, <1>7, <1>8

LEMMA StackedIs == {"top", "topEnd", "tableEnd", "arrayTableEnd", "arrayValue", "arrayValueEnd"} = Stacked
BY DEF Stacked

\* An array begins, has a value, and ends.
LEMMA ArrayBegins ==
  ASSUME NEW st \in Seq(Stacked), NEW w \in Seq(Wants), Nested(st, w, 0)
  PROVE  /\ w # <<>> /\ Expects(Head(w).what, "Array")
         /\ Fits("arrayValue", st, Takes(w, "Array"))
<1> DEFINE x == Want("array")
           v == <<x>> \o w
<1>1. x \in Wants /\ x.what = "array"
  BY WantIs
<1> HIDE DEF x
<1>2. /\ v \in Seq(Wants) /\ Len(v) = Len(w) + 1 /\ v[1] = x
      /\ \A i \in 2 .. Len(w) + 1 : v[i] = w[i - 1]
  BY <1>1, ConsFacts
<1> HIDE DEF v
<1>3. /\ Len(st) \in Nat \ {0} /\ Len(w) = Len(st) + 1 /\ w # <<>>
      /\ \A i \in 1 .. Len(w) - 2 : w[i].what = "array"
      /\ w[Len(w) - 1].what = "value" /\ w[Len(w)].what = "top"
  BY DEF Nested
<1>4. Nested(st, v, 1)
  <2>1. ASSUME NEW i \in 1 .. Len(v) - 2 PROVE v[i].what = "array"
    <3>1. CASE i = 1
      BY <1>1, <1>2, <3>1
    <3>2. CASE i # 1
      <4>1. i \in 2 .. Len(w) + 1 /\ i - 1 \in 1 .. Len(w) - 2
        BY <1>2, <1>3, <3>2
      <4> QED BY <1>2, <1>3, <4>1
    <3> QED BY <3>1, <3>2
  <2>2. v[Len(v) - 1].what = "value" /\ v[Len(v)].what = "top"
    BY <1>2, <1>3
  <2>3. Len(v) = Len(st) + 1 + 1
    BY <1>2, <1>3
  <2> QED BY <2>1, <2>2, <2>3 DEF Nested
<1>5. Takes(w, "Array") = v
  BY TakesIs DEF v, x
<1>6. Expects(Head(w).what, "Array")
  <2>1. Head(w).what \in {"value", "array"}
    <3>1. "Array" \in Types
      BY DEF Types
    <3> QED BY <3>1, Parsed
  <2> QED BY <2>1 DEF Expects
<1>7. Fits("arrayValue", st, v)
  BY <1>2, <1>4, FitsIs
<1> QED BY <1>3, <1>5, <1>6, <1>7

LEMMA ArrayHasValue ==
  ASSUME NEW st \in Seq(Stacked), NEW w \in Seq(Wants), Nested(st, w, 1)
  PROVE  Fits("value", <<"arrayValueEnd">> \o st, w)
<1> DEFINE v == <<"arrayValueEnd">> \o st
<1>1. "arrayValueEnd" \in Stacked
  BY StackedIs
<1>2. /\ v \in Seq(Stacked) /\ Len(v) = Len(st) + 1 /\ v[1] = "arrayValueEnd"
      /\ \A i \in 2 .. Len(st) + 1 : v[i] = st[i - 1]
  BY <1>1, ConsFacts
<1> HIDE DEF v
<1>3. /\ Len(st) \in Nat \ {0} /\ st[Len(st)] = "topEnd"
      /\ \A i \in 1 .. Len(st) - 1 : st[i] = "arrayValueEnd"
      /\ Len(w) = Len(st) + 1 + 1
  BY DEF Nested
<1>4. Nested(v, w, 0)
  <2>1. Len(v) > 0 /\ v[Len(v)] = "topEnd"
    BY <1>2, <1>3
  <2>2. \A i \in 1 .. Len(v) - 1 : v[i] = "arrayValueEnd"
    BY <1>2, <1>3
  <2>3. Len(w) = Len(v) + 0 + 1
    BY <1>2, <1>3
  <2>4. /\ \A i \in 1 .. Len(w) - 2 : w[i].what = "array"
        /\ w[Len(w) - 1].what = "value" /\ w[Len(w)].what = "top"
    BY DEF Nested
  <2> QED BY <2>1, <2>2, <2>3, <2>4 DEF Nested
<1>5. "value" \in ValueStates
  BY DEF ValueStates
<1>6. Fits("value", v, w)
  BY <1>2, <1>4, <1>5, FitsIs
<1> QED BY <1>6 DEF v

LEMMA ArrayEnds ==
  ASSUME NEW st \in Seq(Stacked), NEW w \in Seq(Wants), Nested(st, w, 1)
  PROVE  /\ st # <<>> /\ w # <<>> /\ Head(w).what = "array" /\ Expects(Head(w).what, "ArrayEnd")
         /\ Fits(Head(st), Tail(st), Takes(w, "ArrayEnd"))
<1>1. /\ Len(st) \in Nat \ {0} /\ Len(w) = Len(st) + 1 + 1 /\ w # <<>>
      /\ \A i \in 1 .. Len(w) - 2 : w[i].what = "array"
      /\ w[Len(w) - 1].what = "value" /\ w[Len(w)].what = "top"
  BY DEF Nested
<1> DEFINE v == Tail(w)
<1>2. /\ Head(w) = w[1] /\ v \in Seq(Wants) /\ Len(v) = Len(w) - 1
      /\ \A i \in 1 .. Len(w) - 1 : v[i] = w[i + 1]
  BY <1>1, RestFacts
<1> HIDE DEF v
<1>3. Nested(st, v, 0)
  <2>1. \A i \in 1 .. Len(v) - 2 : v[i].what = "array"
    BY <1>1, <1>2
  <2>2. v[Len(v) - 1].what = "value" /\ v[Len(v)].what = "top"
    BY <1>1, <1>2
  <2>3. Len(v) = Len(st) + 0 + 1
    BY <1>1, <1>2
  <2> QED BY <2>1, <2>2, <2>3 DEF Nested
<1>4. "Array" \in Types
  BY DEF Types
<1>5. st # <<>> /\ Fits(Head(st), Tail(st), ParsedValue(v, "Array"))
  BY <1>2, <1>3, <1>4, Parsed
<1>6. Takes(w, "ArrayEnd") = ParsedValue(v, "Array")
  BY TakesIs DEF v
<1>7. Head(w).what = "array"
  BY <1>1, <1>2
<1>8. Expects("array", "ArrayEnd")
  BY DEF Expects
<1>9. w # <<>>
  BY <1>1
<1> QED BY <1>5, <1>6, <1>7, <1>8, <1>9

\* A comment begins and ends.
LEMMA Commented ==
  ASSUME NEW st \in Seq(Stacked), NEW w \in Seq(Wants), Returns(st, w)
  PROVE  /\ st # <<>> /\ w # <<>> /\ Expects(Head(w).what, "CommentStart")
         /\ Fits("comment", st, Takes(w, "CommentStart"))
         /\ Fits(Head(st), Tail(st), w)
<1>1. w # <<>> /\ Head(w).what \in {"top", "array"} /\ st # <<>> /\ Fits(Head(st), Tail(st), w)
  <2>1. CASE st = <<"top">> /\ Awaits(w, <<"top">>)
    <3>1. Len(w) = 1 /\ w[1].what = "top"
      BY <2>1, AwaitsOne
    <3>2. w # <<>> /\ Head(w).what = "top"
      <4>1. w # <<>>
        <5>1. Len(w) # Len(<<>>)
          BY <3>1
        <5> QED BY <5>1
      <4>2. Head(w) = w[1]
        BY <4>1, RestFacts
      <4> QED BY <3>1, <4>1, <4>2
    <3>3. Head(st) = "top" /\ Tail(st) = <<>> /\ st # <<>> /\ <<>> \in Seq(Stacked)
      BY <2>1
    <3>4. Fits("top", <<>>, w)
      BY <2>1, <3>3, FitsIs
    <3> QED BY <3>2, <3>3, <3>4
  <2>2. CASE st # <<>> /\ Head(st) \in {"arrayValue", "arrayValueEnd"} /\ Nested(Tail(st), w, 1)
    <3>1. Tail(st) \in Seq(Stacked)
      BY <2>2, RestFacts
    <3>2. w # <<>> /\ Head(w).what = "array"
      BY <2>2, <3>1, ArrayEnds
    <3>3. Fits(Head(st), Tail(st), w)
      <4>1. Fits("arrayValue", Tail(st), w) /\ Fits("arrayValueEnd", Tail(st), w)
        BY <2>2, <3>1 DEF Fits
      <4> QED BY <2>2, <4>1
    <3> QED BY <2>2, <3>2, <3>3
  <2> QED BY <2>1, <2>2 DEF Returns
<1> DEFINE x == Want("text")
           v == <<x>> \o w
<1>2. x \in Wants /\ x.what = "text"
  BY WantIs
<1> HIDE DEF x
<1>3. v \in Seq(Wants) /\ v # <<>> /\ Head(v) = x /\ Tail(v) = w
  BY <1>2, ConsFacts
<1> HIDE DEF v
<1>4. Fits("comment", st, v)
  BY <1>2, <1>3, FitsIs
<1>5. Takes(w, "CommentStart") = v
  BY TakesIs DEF v, x
<1>6. \A what \in {"top", "array"} : Expects(what, "CommentStart")
  BY DEF Expects, Opens
<1> QED BY <1>1, <1>4, <1>5, <1>6

-----------------------------------------------------------------------------
(* The state functions of the top level and of tables.                     *)

LEMMA Goes ==
  ASSUME NEW m, NEW s, NEW st, NEW w, Has(m, s, st, "none"), Fits(s, st, w)
  PROVE  Fine(m, w)
BY DEF Fine

LEMMA Sends ==
  ASSUME NEW m, NEW s, NEW st, NEW k, NEW w, Has(m, s, st, k), k \notin {"none", "Error"},
         w # <<>>, Expects(Head(w).what, k), Fits(s, st, Takes(w, k))
  PROVE  Fine(m, w)
BY DEF Fine

LEMMA Ends ==
  ASSUME NEW m, NEW s, NEW st, NEW w, Has(m, s, st, "EOF"), w # <<>>, Head(w).what = "top"
  PROVE  Fine(m, w)
<1>1. Expects(Head(w).what, "EOF")
  BY DEF Expects
<1> QED BY <1>1 DEF Fine

LEMMA Errs ==
  ASSUME NEW m, NEW s, NEW st, NEW w, Has(m, s, st, "none")
  PROVE  Fine(Errorf(m), w)
<1>1. Has(Errorf(m), "nil", st, "Error")
  BY Emitting
<1> QED BY <1>1 DEF Fine

\* A lexer l in state s, and the one that has read a rune more.
Ready(l, n, s, st, w) == Has(l, s, st, "none") /\ Has(n, s, st, "none") /\ Fits(s, st, w)

LEMMA Stays ==
  ASSUME NEW l, NEW n, NEW s, NEW st, NEW w, Ready(l, n, s, st, w)
  PROVE  Fine(n, w) /\ Fine(Ignore(n), w) /\ Fine(Errorf(l), w) /\ Fine(Errorf(n), w)
<1>1. Has(l, s, st, "none") /\ Has(n, s, st, "none") /\ Fits(s, st, w)
  BY DEF Ready
<1>2. Has(Ignore(n), s, st, "none")
  BY <1>1, Moving
<1>3. Fine(n, w) /\ Fine(Ignore(n), w)
  BY <1>1, <1>2, Goes
<1>4. Fine(Errorf(l), w) /\ Fine(Errorf(n), w)
  BY <1>1, Errs
<1> QED BY <1>3, <1>4

LEMMA OneWaits ==
  ASSUME NEW w \in Seq(Wants), NEW a, Awaits(w, <<a>>) \/ (\E b : Awaits(w, <<a, b>>))
                                     \/ (\E b, c : Awaits(w, <<a, b, c>>))
  PROVE  w # <<>> /\ Head(w).what = a
<1>1. Len(w) \in Nat /\ Len(w) # 0 /\ w[1].what = a
  <2>1. CASE Awaits(w, <<a>>)
    BY <2>1, AwaitsOne
  <2>2. CASE \E b : Awaits(w, <<a, b>>)
    BY <2>2, AwaitsTwo
  <2>3. CASE \E b, c : Awaits(w, <<a, b, c>>)
    BY <2>3, AwaitsThree
  <2> QED BY <2>1, <2>2, <2>3
<1>2. Len(<<>>) = 0
  OBVIOUS
<1>3. w # <<>>
  BY <1>1, <1>2
<1>4. Head(w) = w[1]
  BY <1>3, RestFacts
<1> QED BY <1>1, <1>3, <1>4

LEMMA TopComment ==
  ASSUME NEW m, NEW w \in Seq(Wants), Has(m, "top", <<>>, "none") \/ Has(m, "topEnd", <<>>, "none"),
         Awaits(w, <<"top">>)
  PROVE  Fine(ToState(PushState(m, "top"), "commentStart"), w)
<1>1. <<"top">> \o <<>> = <<"top">> /\ <<"top">> \in Seq(Stacked)
  BY StackedIs
<1>2. Has(PushState(m, "top"), "top", <<"top">>, "none") \/ Has(PushState(m, "top"), "topEnd", <<"top">>, "none")
  BY <1>1, Going
<1>3. Has(ToState(PushState(m, "top"), "commentStart"), "commentStart", <<"top">>, "none")
  BY <1>2, Going
<1>4. Fits("commentStart", <<"top">>, w)
  BY <1>1, FitsIs DEF Returns
<1> QED BY <1>3, <1>4, Goes

LEMMA TopFine ==
  ASSUME NEW l, NEW r, NEW n, NEW st, NEW w, Ready(l, n, "top", st, w)
  PROVE  Fine(LexTop(l, r, n), w)
<1>1. Has(n, "top", <<>>, "none") /\ w \in Seq(Wants) /\ Awaits(w, <<"top">>) /\ st = <<>>
  BY Typed, FitsIs DEF Ready
<1>2. LexTop(l, r, n) \in
        {Ignore(n), ToState(PushState(n, "top"), "commentStart"), ToState(n, "tableStart"),
         Errorf(n), ToState(Emit(n, "EOF"), "nil"),
         ToState(PushState(Backup(n), "topEnd"), "keyStart")}
  BY DEF LexTop
<1>3. Fine(Ignore(n), w) /\ Fine(Errorf(n), w)
  BY Stays
<1>4. Fine(ToState(PushState(n, "top"), "commentStart"), w)
  BY <1>1, TopComment
<1>5. Fine(ToState(n, "tableStart"), w)
  <2>1. Fits("tableStart", <<>>, w)
    BY <1>1, FitsIs, EmptySeq
  <2>2. Has(ToState(n, "tableStart"), "tableStart", <<>>, "none")
    BY <1>1, Going
  <2> QED BY <2>1, <2>2, Goes
<1>6. Fine(ToState(Emit(n, "EOF"), "nil"), w)
  <2>1. Has(Emit(n, "EOF"), "top", <<>>, "EOF")
    BY <1>1, Emitting
  <2>2. Has(ToState(Emit(n, "EOF"), "nil"), "nil", <<>>, "EOF")
    BY <2>1, Going
  <2>3. w # <<>> /\ Head(w).what = "top"
    BY <1>1, OneWaits
  <2> QED BY <2>2, <2>3, Ends
<1>7. Fine(ToState(PushState(Backup(n), "topEnd"), "keyStart"), w)
  <2>1. <<"topEnd">> \o <<>> = <<"topEnd">> /\ <<"topEnd">> \in Seq(Stacked)
    BY StackedIs
  <2>2. Has(Backup(n), "top", <<>>, "none")
    BY <1>1, Moving
  <2>3. Has(PushState(Backup(n), "topEnd"), "top", <<"topEnd">>, "none")
    BY <2>1, <2>2, Going
  <2>4. Has(ToState(PushState(Backup(n), "topEnd"), "keyStart"), "keyStart", <<"topEnd">>, "none")
    BY <2>3, Going
  <2>5. Fits("keyStart", <<"topEnd">>, w)
    BY <1>1, <2>1, FitsIs
  <2> QED BY <2>4, <2>5, Goes
<1> QED BY <1>2, <1>3, <1>4, <1>5, <1>6, <1>7

LEMMA TopEndFine ==
  ASSUME NEW l, NEW r, NEW n, NEW st, NEW w, Ready(l, n, "topEnd", st, w)
  PROVE  Fine(LexTopEnd(l, r, n), w)
<1>1. Has(n, "topEnd", <<>>, "none") /\ w \in Seq(Wants) /\ Awaits(w, <<"top">>) /\ st = <<>>
  BY Typed, FitsIs DEF Ready
<1>2. LexTopEnd(l, r, n) \in
        {ToState(PushState(n, "top"), "commentStart"), n, ToState(Ignore(n), "top"), Errorf(n)}
  BY DEF LexTopEnd
<1>3. Fine(n, w) /\ Fine(Errorf(n), w)
  BY Stays
<1>4. Fine(ToState(PushState(n, "top"), "commentStart"), w)
  BY <1>1, TopComment
<1>5. Fine(ToState(Ignore(n), "top"), w)
  <2>1. Fits("top", <<>>, w)
    BY <1>1, FitsIs, EmptySeq
  <2>2. Has(ToState(Ignore(n), "top"), "top", <<>>, "none")
    <3>1. Has(Ignore(n), "topEnd", <<>>, "none")
      BY <1>1, Moving
    <3> QED BY <3>1, Going
  <2> QED BY <2>1, <2>2, Goes
<1> QED BY <1>2, <1>3, <1>4, <1>5

\* A call that waits for a text, and then for e.
LEMMA PairAwaits ==
  ASSUME NEW w \in Seq(Wants), Awaits(w, <<"top">>), NEW e \in {"TableEnd", "ArrayTableEnd", "value"}
  PROVE  /\ <<Want("text"), Want(e)>> \o w \in Seq(Wants)
         /\ Awaits(<<Want("text"), Want(e)>> \o w, <<"text", e, "top">>)
<1> DEFINE x == Want("text")
           y == Want(e)
           v == <<x, y>> \o w
<1>1. Len(w) = 1 /\ w[1].what = "top"
  BY AwaitsOne
<1>2. x \in Wants /\ y \in Wants /\ x.what = "text" /\ y.what = e
  BY WantIs
<1> HIDE DEF x, y
<1>3. /\ v \in Seq(Wants) /\ Len(v) = Len(w) + 2 /\ v[1] = x /\ v[2] = y
      /\ \A i \in 1 .. Len(w) : v[i + 2] = w[i]
  BY <1>2, PairFacts
<1> HIDE DEF v
<1>4. 1 \in 1 .. Len(w) /\ 1 + 2 = 3
  BY <1>1
<1>5. v[3] = w[1]
  BY <1>3, <1>4
<1>6. Awaits(v, <<"text", e, "top">>)
  BY <1>1, <1>2, <1>3, <1>5, AwaitsThree
<1> QED BY <1>3, <1>6 DEF v, x, y

LEMMA EndItemIs == EndItem["tableEnd"] = "TableEnd" /\ EndItem["arrayTableEnd"] = "ArrayTableEnd"
BY DEF EndItem

\* A table's name is awaited, and taken in parts.
LEMMA Named ==
  ASSUME NEW w \in Seq(Wants), Awaits(w, <<"top">>)
  PROVE  /\ Naming(<<"tableEnd">>, Takes(w, "TableStart")) /\ Takes(w, "TableStart") \in Seq(Wants)
         /\ Naming(<<"arrayTableEnd">>, Takes(w, "ArrayTableStart"))
         /\ Takes(w, "ArrayTableStart") \in Seq(Wants)
<1>1. Takes(w, "TableStart") \in Seq(Wants) /\ Awaits(Takes(w, "TableStart"), <<"text", "TableEnd", "top">>)
  BY PairAwaits, TakesIs
<1>2. /\ Takes(w, "ArrayTableStart") \in Seq(Wants)
      /\ Awaits(Takes(w, "ArrayTableStart"), <<"text", "ArrayTableEnd", "top">>)
  BY PairAwaits, TakesIs
<1> QED BY <1>1, <1>2, EndItemIs DEF Naming

LEMMA TableStartFine ==
  ASSUME NEW l, NEW r, NEW n, NEW st, NEW w, Ready(l, n, "tableStart", st, w)
  PROVE  Fine(LexTableStart(l, r, n), w)
<1>1. /\ Has(n, "tableStart", <<>>, "none") /\ Has(l, "tableStart", <<>>, "none")
      /\ w \in Seq(Wants) /\ Awaits(w, <<"top">>)
  BY Typed, FitsIs DEF Ready
<1>2. ASSUME NEW m, Has(m, "tableStart", <<>>, "none"),
             NEW typ \in {"TableStart", "ArrayTableStart"}, NEW end \in Stacked,
             Naming(<<end>>, Takes(w, typ)), Takes(w, typ) \in Seq(Wants)
      PROVE  Fine(ToState(PushState(Emit(m, typ), end), "tableNameStart"), w)
  <2>1. Has(Emit(m, typ), "tableStart", <<>>, typ)
    BY <1>2, Emitting
  <2>2. <<end>> \o <<>> = <<end>> /\ <<end>> \in Seq(Stacked)
    OBVIOUS
  <2>3. Has(PushState(Emit(m, typ), end), "tableStart", <<end>>, typ)
    BY <2>1, <2>2, Going
  <2> DEFINE v == ToState(PushState(Emit(m, typ), end), "tableNameStart")
  <2>4. Has(v, "tableNameStart", <<end>>, typ)
    BY <2>3, Going
  <2> HIDE DEF v
  <2>5. Fits("tableNameStart", <<end>>, Takes(w, typ))
    BY <1>2, <2>2, FitsIs
  <2>6. w # <<>> /\ Head(w).what = "top"
    BY <1>1, OneWaits
  <2>7. Expects("top", typ)
    BY DEF Expects, Opens
  <2>8. Fine(v, w)
    BY <2>4, <2>5, <2>6, <2>7, Sends
  <2> QED BY <2>8 DEF v
<1>3. Fine(ToState(PushState(Emit(n, "ArrayTableStart"), "arrayTableEnd"), "tableNameStart"), w)
  BY <1>1, <1>2, Named, StackedIs
<1>4. Fine(ToState(PushState(Emit(l, "TableStart"), "tableEnd"), "tableNameStart"), w)
  BY <1>1, <1>2, Named, StackedIs
<1> QED BY <1>3, <1>4 DEF LexTableStart

\* The bracket that ends a table's name.
LEMMA NameEnds ==
  ASSUME NEW m, NEW end \in {"tableEnd", "arrayTableEnd"}, NEW typ \in {"TableEnd", "ArrayTableEnd"},
         Has(m, end, <<>>, "none"), NEW w \in Seq(Wants), Awaits(w, <<typ, "top">>)
  PROVE  Fine(ToState(Emit(m, typ), "topEnd"), w)
<1>1. Has(Emit(m, typ), end, <<>>, typ)
  BY Emitting
<1> DEFINE v == ToState(Emit(m, typ), "topEnd")
<1>2. Has(v, "topEnd", <<>>, typ)
  BY <1>1, Going
<1> HIDE DEF v
<1>3. w # <<>> /\ Head(w).what = typ
  BY OneWaits
<1>4. Expects(typ, typ)
  BY DEF Expects
<1>5. Takes(w, typ) = Tail(w)
  BY TakesIs
<1>6. Tail(w) \in Seq(Wants) /\ Awaits(Tail(w), <<"top">>)
  <2>1. Len(w) = 2 /\ w[2].what = "top"
    BY AwaitsTwo
  <2>2. /\ Tail(w) \in Seq(Wants) /\ Len(Tail(w)) = Len(w) - 1
        /\ \A i \in 1 .. Len(w) - 1 : Tail(w)[i] = w[i + 1]
    BY <1>3, RestFacts
  <2>3. Len(Tail(w)) = 1 /\ Tail(w)[1] = w[2]
    BY <2>1, <2>2
  <2> QED BY <2>1, <2>2, <2>3, AwaitsOne
<1>7. Fits("topEnd", <<>>, Tail(w))
  BY <1>6, FitsIs, EmptySeq
<1>8. Fine(v, w)
  BY <1>2, <1>3, <1>4, <1>5, <1>7, Sends
<1> QED BY <1>8 DEF v

LEMMA TableEndFine ==
  ASSUME NEW l, NEW r, NEW n, NEW st, NEW w
  PROVE  /\ Ready(l, n, "tableEnd", st, w) => Fine(ToState(Emit(l, "TableEnd"), "topEnd"), w)
         /\ Ready(l, n, "arrayTableEnd", st, w) => Fine(LexArrayTableEnd(l, r, n), w)
<1>1. ASSUME Ready(l, n, "tableEnd", st, w)
      PROVE  Fine(ToState(Emit(l, "TableEnd"), "topEnd"), w)
  <2>1. Has(l, "tableEnd", <<>>, "none") /\ w \in Seq(Wants) /\ Awaits(w, <<"TableEnd", "top">>)
    BY <1>1, Typed, FitsIs DEF Ready
  <2> QED BY <2>1, NameEnds
<1>2. ASSUME Ready(l, n, "arrayTableEnd", st, w)
      PROVE  Fine(LexArrayTableEnd(l, r, n), w)
  <2>1. Has(n, "arrayTableEnd", <<>>, "none") /\ w \in Seq(Wants) /\ Awaits(w, <<"ArrayTableEnd", "top">>)
    BY <1>2, Typed, FitsIs DEF Ready
  <2>2. Fine(ToState(Emit(n, "ArrayTableEnd"), "topEnd"), w)
    BY <2>1, NameEnds
  <2>3. Fine(Errorf(n), w)
    BY <1>2, Stays
  <2> QED BY <2>2, <2>3 DEF LexArrayTableEnd
<1> QED BY <1>1, <1>2

\* The rest after the first call, which the text ends.
LEMMA TextTaken ==
  ASSUME NEW w \in Seq(Wants), w # <<>>, Head(w).what = "text"
  PROVE  /\ Expects(Head(w).what, "Text") /\ Takes(w, "Text") = Tail(w) /\ Tail(w) \in Seq(Wants)
         /\ \A a, b : Awaits(w, <<"text", a, b>>) => Awaits(Tail(w), <<a, b>>)
<1>1. Expects(Head(w).what, "Text")
  BY DEF Expects
<1>2. Takes(w, "Text") = Tail(w)
  BY TakesIs
<1>3. /\ Tail(w) \in Seq(Wants) /\ Len(Tail(w)) = Len(w) - 1
      /\ \A i \in 1 .. Len(w) - 1 : Tail(w)[i] = w[i + 1]
  BY RestFacts
<1>4. ASSUME NEW a, NEW b, Awaits(w, <<"text", a, b>>) PROVE Awaits(Tail(w), <<a, b>>)
  <2>1. Len(w) = 3 /\ w[2].what = a /\ w[3].what = b
    BY <1>4, AwaitsThree
  <2>2. Len(Tail(w)) = 2 /\ Tail(w)[1] = w[2] /\ Tail(w)[2] = w[3]
    <3>1. 1 \in 1 .. Len(w) - 1 /\ 2 \in 1 .. Len(w) - 1
      BY <2>1
    <3>2. Tail(w)[1] = w[1 + 1] /\ Tail(w)[2] = w[2 + 1]
      BY <1>3, <3>1
    <3>3. Len(Tail(w)) = 2
      BY <1>3, <2>1
    <3> QED BY <3>2, <3>3
  <2> QED BY <1>3, <2>1, <2>2, AwaitsTwo
<1> QED BY <1>1, <1>2, <1>3, <1>4

\* A part of a table's name: the parser takes it, and the name may go on or end.
LEMMA NamePart ==
  ASSUME NEW st, NEW w \in Seq(Wants), Naming(st, w)
  PROVE  /\ w # <<>> /\ Expects(Head(w).what, "Text") /\ Takes(w, "Text") \in Seq(Wants)
         /\ Naming(st, Takes(w, "Text"))
         /\ st # <<>> /\ Fits(Head(st), Tail(st), Takes(w, "Text"))
<1> DEFINE v == Takes(w, "Text")
<1>1. PICK a \in {"tableEnd", "arrayTableEnd"} :
        /\ st = <<a>>
        /\ Awaits(w, <<"text", EndItem[a], "top">>) \/ Awaits(w, <<EndItem[a], "top">>)
  BY DEF Naming
<1> DEFINE e == EndItem[a]
<1>2. /\ (a = "tableEnd" /\ e = "TableEnd") \/ (a = "arrayTableEnd" /\ e = "ArrayTableEnd")
      /\ Awaits(w, <<"text", e, "top">>) \/ Awaits(w, <<e, "top">>)
  <2>1. CASE a = "tableEnd"
    BY <1>1, <2>1, EndItemIs
  <2>2. CASE a = "arrayTableEnd"
    BY <1>1, <2>2, EndItemIs
  <2> QED BY <1>1, <2>1, <2>2
<1> HIDE DEF e
<1>3. /\ w # <<>> /\ Expects(Head(w).what, "Text") /\ v \in Seq(Wants)
      /\ Awaits(v, <<e, "top">>)
  <2>1. CASE Awaits(w, <<"text", e, "top">>)
    <3>1. w # <<>> /\ Head(w).what = "text"
      BY <2>1, OneWaits
    <3> QED BY <2>1, <3>1, TextTaken
  <2>2. CASE Awaits(w, <<e, "top">>)
    <3>1. w # <<>> /\ Head(w).what = e
      BY <2>2, OneWaits
    <3>2. Expects(e, "Text") /\ e # "text"
      BY <1>2 DEF Expects
    <3>3. v = w
      BY <3>1, <3>2, TakesIs
    <3> QED BY <2>2, <3>1, <3>2, <3>3
  <2> QED BY <1>2, <2>1, <2>2
<1> HIDE DEF v
<1>4. Naming(st, v)
  BY <1>1, <1>3 DEF Naming, e
<1>5. st # <<>> /\ Head(st) = a /\ Tail(st) = <<>>
  BY <1>1
<1>6. Fits(a, <<>>, v)
  <2>1. CASE a = "tableEnd" /\ e = "TableEnd"
    BY <1>3, <2>1, FitsIs, EmptySeq
  <2>2. CASE a = "arrayTableEnd" /\ e = "ArrayTableEnd"
    BY <1>3, <2>2, FitsIs, EmptySeq
  <2> QED BY <1>2, <2>1, <2>2
<1> QED BY <1>3, <1>4, <1>5, <1>6 DEF v

LEMMA TableNameFine ==
  ASSUME NEW l, NEW r, NEW n, NEW st, NEW w
  PROVE  /\ Ready(l, n, "tableNameStart", st, w) => Fine(LexTableNameStart(l, r, n), w)
         /\ Ready(l, n, "tableName", st, w) => Fine(LexTableName(l, r, n), w)
<1>1. ASSUME Ready(l, n, "tableNameStart", st, w)
      PROVE  Fine(LexTableNameStart(l, r, n), w)
  <2>1. /\ Has(n, "tableNameStart", st, "none") /\ st \in Seq(Stacked) /\ w \in Seq(Wants)
        /\ Naming(st, w)
    BY <1>1, Typed, FitsIs DEF Ready
  <2>2. Has(ToState(n, "tableName"), "tableName", st, "none")
    BY <2>1, Going
  <2>3. Fits("tableName", st, w)
    BY <2>1, FitsIs
  <2>4. Fine(ToState(n, "tableName"), w) /\ Fine(Errorf(n), w)
    BY <1>1, <2>2, <2>3, Goes, Stays
  <2> QED BY <2>4 DEF LexTableNameStart
<1>2. ASSUME Ready(l, n, "tableName", st, w)
      PROVE  Fine(LexTableName(l, r, n), w)
  <2>1. /\ Has(l, "tableName", st, "none") /\ st \in Seq(Stacked) /\ w \in Seq(Wants)
        /\ Naming(st, w)
    BY <1>2, Typed, FitsIs DEF Ready
  <2>2. LexTableName(l, r, n) \in
          {Errorf(l), PopState(NextRune(Emit(l, "Text"))),
           ToState(Ignore(NextRune(Emit(l, "Text"))), "tableNameStart"), n}
    BY DEF LexTableName
  <2> DEFINE m == NextRune(Emit(l, "Text"))
  <2>3. Has(m, "tableName", st, "Text")
    BY <2>1, Emitting, Moving
  <2> HIDE DEF m
  <2>4. /\ w # <<>> /\ Expects(Head(w).what, "Text") /\ Takes(w, "Text") \in Seq(Wants)
        /\ Naming(st, Takes(w, "Text"))
        /\ st # <<>> /\ Fits(Head(st), Tail(st), Takes(w, "Text"))
    BY <2>1, NamePart
  <2>5. Fine(PopState(m), w)
    <3>1. Has(PopState(m), Head(st), Tail(st), "Text")
      BY <2>3, <2>4, Popping
    <3> QED BY <2>4, <3>1, Sends
  <2>6. Fine(ToState(Ignore(m), "tableNameStart"), w)
    <3>1. Has(Ignore(m), "tableName", st, "Text")
      BY <2>3, Moving
    <3>2. Has(ToState(Ignore(m), "tableNameStart"), "tableNameStart", st, "Text")
      BY <3>1, Going
    <3>3. Fits("tableNameStart", st, Takes(w, "Text"))
      BY <2>1, <2>4, FitsIs
    <3> QED BY <2>4, <3>2, <3>3, Sends
  <2>7. Fine(Errorf(l), w) /\ Fine(n, w)
    BY <1>2, Stays
  <2> QED BY <2>2, <2>5, <2>6, <2>7 DEF m
<1> QED BY <1>1, <1>2

-----------------------------------------------------------------------------
(* Keys and comments.                                                      *)

LEMMA ValueBegins ==
  ASSUME NEW w \in Seq(Wants), Awaits(w, <<"value", "top">>)
  PROVE  Fits("value", <<"topEnd">>, w)
<1>1. Len(w) = 2 /\ w[1].what = "value" /\ w[2].what = "top"
  BY AwaitsTwo
<1>2. /\ <<"topEnd">> \in Seq(Stacked) /\ Len(<<"topEnd">>) = 1 /\ <<"topEnd">>[1] = "topEnd"
  BY StackedIs
<1>3. Nested(<<"topEnd">>, w, 0)
  BY <1>1, <1>2 DEF Nested
<1>4. "value" \in ValueStates
  BY DEF ValueStates
<1> QED BY <1>2, <1>3, <1>4, FitsIs

LEMMA KeyFine ==
  ASSUME NEW l, NEW r, NEW n, NEW st, NEW w
  PROVE  /\ Ready(l, n, "keyStart", st, w) => Fine(LexKeyStart(l, r, n), w)
         /\ Ready(l, n, "key", st, w) => Fine(LexKey(l, r, n), w)
         /\ Ready(l, n, "keyEnd", st, w) => Fine(LexKeyEnd(l, r, n), w)
<1>1. ASSUME Ready(l, n, "keyStart", st, w)
      PROVE  Fine(LexKeyStart(l, r, n), w)
  <2>1. /\ Has(l, "keyStart", st, "none") /\ st \in Seq(Stacked) /\ w \in Seq(Wants)
        /\ st = <<"topEnd">> /\ Awaits(w, <<"top">>)
    BY <1>1, Typed, FitsIs DEF Ready
  <2>2. LexKeyStart(l, r, n) \in
          {Errorf(l), Ignore(n), ToState(NextRune(Emit(Ignore(l), "KeyStart")), "key")}
    BY DEF LexKeyStart
  <2>3. Fine(ToState(NextRune(Emit(Ignore(l), "KeyStart")), "key"), w)
    <3> DEFINE m == NextRune(Emit(Ignore(l), "KeyStart"))
    <3>1. Has(Ignore(l), "keyStart", st, "none")
      BY <2>1, Moving
    <3>2. Has(Emit(Ignore(l), "KeyStart"), "keyStart", st, "KeyStart")
      BY <3>1, Emitting
    <3>3. Has(m, "keyStart", st, "KeyStart")
      BY <3>2, Moving
    <3> HIDE DEF m
    <3>4. Has(ToState(m, "key"), "key", st, "KeyStart")
      BY <3>3, Going
    <3>5. w # <<>> /\ Head(w).what = "top"
      BY <2>1, OneWaits
    <3>6. Expects("top", "KeyStart")
      BY DEF Expects, Opens
    <3>7. Fits("key", st, Takes(w, "KeyStart"))
      <4>1. /\ Takes(w, "KeyStart") \in Seq(Wants)
            /\ Awaits(Takes(w, "KeyStart"), <<"text", "value", "top">>)
        BY <2>1, PairAwaits, TakesIs
      <4> QED BY <2>1, <4>1 DEF Fits
    <3>8. Fine(ToState(m, "key"), w)
      BY <3>4, <3>5, <3>6, <3>7, Sends
    <3> QED BY <3>8 DEF m
  <2> QED BY <1>1, <2>2, <2>3, Stays
<1>2. ASSUME Ready(l, n, "key", st, w)
      PROVE  Fine(LexKey(l, r, n), w)
  <2>1. /\ Has(l, "key", st, "none") /\ st \in Seq(Stacked) /\ w \in Seq(Wants)
        /\ st = <<"topEnd">> /\ Awaits(w, <<"text", "value", "top">>)
    BY <1>2, Typed, FitsIs DEF Ready
  <2>2. LexKey(l, r, n) \in {Errorf(l), ToState(Emit(l, "Text"), "keyEnd"), n}
    BY DEF LexKey
  <2>3. Fine(ToState(Emit(l, "Text"), "keyEnd"), w)
    <3>1. Has(Emit(l, "Text"), "key", st, "Text")
      BY <2>1, Emitting
    <3>2. Has(ToState(Emit(l, "Text"), "keyEnd"), "keyEnd", st, "Text")
      BY <3>1, Going
    <3>3. w # <<>> /\ Head(w).what = "text"
      BY <2>1, OneWaits
    <3>4. /\ Expects(Head(w).what, "Text") /\ Takes(w, "Text") = Tail(w) /\ Tail(w) \in Seq(Wants)
          /\ Awaits(Tail(w), <<"value", "top">>)
      BY <2>1, <3>3, TextTaken
    <3>5. Fits("keyEnd", st, Takes(w, "Text"))
      BY <2>1, <3>4 DEF Fits
    <3> QED BY <3>2, <3>3, <3>4, <3>5, Sends
  <2> QED BY <1>2, <2>2, <2>3, Stays
<1>3. ASSUME Ready(l, n, "keyEnd", st, w)
      PROVE  Fine(LexKeyEnd(l, r, n), w)
  <2>1. /\ Has(n, "keyEnd", st, "none") /\ st \in Seq(Stacked) /\ w \in Seq(Wants)
        /\ st = <<"topEnd">> /\ Awaits(w, <<"value", "top">>)
    BY <1>3, Typed, FitsIs DEF Ready
  <2>2. Has(Ignore(n), "keyEnd", st, "none")
    BY <2>1, Moving
  <2>3. Has(ToState(Ignore(n), "value"), "value", st, "none")
    BY <2>2, Going
  <2>4. Fits("value", st, w)
    BY <2>1, ValueBegins
  <2>5. Fine(ToState(Ignore(n), "value"), w)
    BY <2>3, <2>4, Goes
  <2> QED BY <1>3, <2>5, Stays DEF LexKeyEnd
<1> QED BY <1>1, <1>2, <1>3

LEMMA CommentFine ==
  ASSUME NEW l, NEW r, NEW n, NEW st, NEW w
  PROVE  /\ Ready(l, n, "commentStart", st, w) => Fine(LexCommentStart(l, r, n), w)
         /\ Ready(l, n, "comment", st, w) => Fine(LexComment(l, r, n), w)
<1>1. ASSUME Ready(l, n, "commentStart", st, w)
      PROVE  Fine(LexCommentStart(l, r, n), w)
  <2>1. /\ Has(l, "commentStart", st, "none") /\ st \in Seq(Stacked) /\ w \in Seq(Wants)
        /\ Returns(st, w)
    BY <1>1, Typed, FitsIs DEF Ready
  <2> DEFINE m == Emit(Ignore(l), "CommentStart")
  <2>2. Has(Ignore(l), "commentStart", st, "none")
    BY <2>1, Moving
  <2>3. Has(m, "commentStart", st, "CommentStart")
    BY <2>2, Emitting
  <2> HIDE DEF m
  <2>4. Has(ToState(m, "comment"), "comment", st, "CommentStart")
    BY <2>3, Going
  <2>5. /\ w # <<>> /\ Expects(Head(w).what, "CommentStart")
        /\ Fits("comment", st, Takes(w, "CommentStart"))
    BY <2>1, Commented
  <2>6. Fine(ToState(m, "comment"), w)
    BY <2>4, <2>5, Sends
  <2> QED BY <2>6 DEF m, LexCommentStart
<1>2. ASSUME Ready(l, n, "comment", st, w)
      PROVE  Fine(LexComment(l, r, n), w)
  <2>1. /\ Has(l, "comment", st, "none") /\ st \in Seq(Stacked) /\ w \in Seq(Wants)
        /\ w # <<>> /\ Head(w).what = "text" /\ Returns(st, Tail(w))
    BY <1>2, Typed, FitsIs DEF Ready
  <2>2. /\ Expects(Head(w).what, "Text") /\ Takes(w, "Text") = Tail(w) /\ Tail(w) \in Seq(Wants)
    BY <2>1, TextTaken
  <2>3. st # <<>> /\ Fits(Head(st), Tail(st), Tail(w))
    BY <2>1, <2>2, Commented
  <2> DEFINE m == Emit(l, "Text")
  <2>4. Has(m, "comment", st, "Text")
    BY <2>1, Emitting
  <2> HIDE DEF m
  <2>5. Has(PopState(m), Head(st), Tail(st), "Text")
    BY <2>3, <2>4, Popping
  <2>6. Fits(Head(st), Tail(st), Takes(w, "Text"))
    BY <2>2, <2>3
  <2>7. Fine(PopState(m), w)
    BY <2>1, <2>2, <2>5, <2>6, Sends
  <2>8. Fine(EmitPop(l, "Text"), w)
    BY <2>7 DEF m, EmitPop
  <2> QED BY <1>2, <2>8, Stays DEF LexComment
<1> QED BY <1>1, <1>2

-----------------------------------------------------------------------------
(* Values.                                                                 *)

\* What a value state may lead to: another, an error, or a value.
LEMMA ValueGoes ==
  ASSUME NEW m, NEW s \in ValueStates, NEW st \in Seq(Stacked), NEW w \in Seq(Wants),
         Nested(st, w, 0), Has(m, s, st, "none")
  PROVE  /\ \A t \in ValueStates : Fine(ToState(m, t), w)
         /\ Fine(m, w) /\ Fine(Errorf(m), w)
         /\ \A typ \in Primitives : Fine(EmitPop(m, typ), w)
<1>1. \A t \in ValueStates : Fits(t, st, w)
  BY FitsIs
<1>2. ASSUME NEW t \in ValueStates PROVE Fine(ToState(m, t), w)
  <2>1. Has(ToState(m, t), t, st, "none")
    BY Going
  <2> QED BY <1>1, <2>1, Goes
<1>3. Fine(m, w) /\ Fine(Errorf(m), w)
  BY <1>1, Goes, Errs
<1>4. ASSUME NEW typ \in Primitives PROVE Fine(EmitPop(m, typ), w)
  <2>1. typ \notin {"none", "Error"}
    BY DEF Primitives, Strings
  <2> DEFINE e == Emit(m, typ)
  <2>2. Has(e, s, st, typ)
    BY <2>1, Emitting
  <2>3. /\ st # <<>> /\ w # <<>> /\ Expects(Head(w).what, typ)
        /\ Fits(Head(st), Tail(st), Takes(w, typ))
    BY Valued
  <2> HIDE DEF e
  <2>4. Has(PopState(e), Head(st), Tail(st), typ)
    BY <2>2, <2>3, Popping
  <2>5. Fine(PopState(e), w)
    BY <2>1, <2>3, <2>4, Sends
  <2> QED BY <2>5 DEF e, EmitPop
<1> QED BY <1>2, <1>3, <1>4

\* Any number of steps over the input leave the lexer in its state.
LEMMA Moved ==
  ASSUME NEW n, NEW s, NEW st, Has(n, s, st, "none")
  PROVE  /\ Has(NextRune(n), s, st, "none") /\ Has(NextRune(NextRune(n)), s, st, "none")
         /\ Has(Backup(NextRune(n)), s, st, "none")
         /\ Has(Backup(Backup(NextRune(NextRune(n)))), s, st, "none")
         /\ Has(Ignore(Backup(NextRune(n))), s, st, "none")
         /\ Has(Ignore(Backup(Backup(NextRune(NextRune(n))))), s, st, "none")
         /\ Has(Ignore(NextRune(NextRune(n))), s, st, "none")
         /\ \A k : Has(Skip(n, k), s, st, "none")
<1>1. Has(NextRune(n), s, st, "none")
  BY Moving
<1>2. Has(NextRune(NextRune(n)), s, st, "none")
  BY <1>1, Moving
<1>3. Has(Backup(NextRune(n)), s, st, "none")
  BY <1>1, Moving
<1>4. Has(Backup(NextRune(NextRune(n))), s, st, "none")
  BY <1>2, Moving
<1>5. Has(Backup(Backup(NextRune(NextRune(n)))), s, st, "none")
  BY <1>4, Moving
<1>6. Has(Ignore(Backup(NextRune(n))), s, st, "none")
  BY <1>3, Moving
<1>7. Has(Ignore(Backup(Backup(NextRune(NextRune(n))))), s, st, "none")
  BY <1>5, Moving
<1>8. Has(Ignore(NextRune(NextRune(n))), s, st, "none")
  BY <1>2, Moving
<1>9. \A k : Has(Skip(n, k), s, st, "none")
  BY Moving
<1> QED BY <1>1, <1>2, <1>3, <1>5, <1>6, <1>7, <1>8, <1>9

LEMMA ValueFine ==
  ASSUME NEW l, NEW r, NEW n, NEW st, NEW w, Ready(l, n, "value", st, w)
  PROVE  Fine(LexValue(l, r, n), w)
<1>1. "value" \in ValueStates
  BY DEF ValueStates
<1>2. /\ Has(n, "value", st, "none") /\ st \in Seq(Stacked) /\ w \in Seq(Wants)
      /\ Nested(st, w, 0)
  BY <1>1, Typed, FitsIs DEF Ready
<1>3. LexValue(l, r, n) \in
        {Ignore(n), ToState(Emit(Ignore(n), "Array"), "arrayValue"),
         OpenString(n, r, "string", "multilineString"),
         OpenString(n, r, "rawString", "multilineRawString"), ToState(n, "true"),
         ToState(n, "false"), ToState(n, "numberStart"),
         ToState(Backup(n), "numberOrDateStart"), Errorf(n)}
  BY DEF LexValue
<1>4. ASSUME NEW s \in ValueStates, NEW m, Has(m, "value", st, "none")
      PROVE  Fine(ToState(m, s), w)
  BY <1>1, <1>2, <1>4, ValueGoes
<1>5. ASSUME NEW one \in ValueStates, NEW many \in ValueStates
      PROVE  Fine(OpenString(n, r, one, many), w)
  <2>1. OpenString(n, r, one, many) \in
          {ToState(Ignore(Backup(NextRune(n))), one),
           ToState(Ignore(Backup(Backup(NextRune(NextRune(n))))), one),
           ToState(Ignore(NextRune(NextRune(n))), many)}
    BY DEF OpenString
  <2>2. /\ Has(Ignore(Backup(NextRune(n))), "value", st, "none")
        /\ Has(Ignore(Backup(Backup(NextRune(NextRune(n))))), "value", st, "none")
        /\ Has(Ignore(NextRune(NextRune(n))), "value", st, "none")
    BY <1>2, Moved
  <2> QED BY <1>4, <2>1, <2>2
<1>6. Has(Backup(n), "value", st, "none") /\ Has(Ignore(n), "value", st, "none")
  BY <1>2, Moving
<1>7. {"string", "multilineString", "rawString", "multilineRawString", "true", "false",
       "numberStart", "numberOrDateStart"} \subseteq ValueStates
  BY DEF ValueStates
<1>8. Fine(ToState(Emit(Ignore(n), "Array"), "arrayValue"), w)
  <2> DEFINE m == Emit(Ignore(n), "Array")
  <2>1. Has(m, "value", st, "Array")
    BY <1>6, Emitting
  <2> HIDE DEF m
  <2>2. Has(ToState(m, "arrayValue"), "arrayValue", st, "Array")
    BY <2>1, Going
  <2>3. w # <<>> /\ Expects(Head(w).what, "Array") /\ Fits("arrayValue", st, Takes(w, "Array"))
    BY <1>2, ArrayBegins
  <2>4. Fine(ToState(m, "arrayValue"), w)
    BY <2>2, <2>3, Sends
  <2> QED BY <2>4 DEF m
<1>9. Fine(Ignore(n), w) /\ Fine(Errorf(n), w)
  BY Stays
<1>10. /\ Fine(ToState(n, "true"), w) /\ Fine(ToState(n, "false"), w)
       /\ Fine(ToState(n, "numberStart"), w) /\ Fine(ToState(Backup(n), "numberOrDateStart"), w)
  BY <1>2, <1>4, <1>6, <1>7
<1>11. /\ Fine(OpenString(n, r, "string", "multilineString"), w)
       /\ Fine(OpenString(n, r, "rawString", "multilineRawString"), w)
  BY <1>5, <1>7
<1> QED BY <1>3, <1>8, <1>9, <1>10, <1>11

\* The functions of strings, numbers and dates stay within the value or end it.
LEMMA Closed ==
  ASSUME NEW n, NEW s \in ValueStates, NEW st \in Seq(Stacked), NEW w \in Seq(Wants),
         Nested(st, w, 0), Has(n, s, st, "none"), NEW k, NEW typ \in Primitives
  PROVE  Close(n, k, typ).state = "panic" \/ Fine(Close(n, k, typ), w)
<1>1. CASE n.pos - k < n.start
  <2>1. Has(ToState(n, "panic"), "panic", st, "none")
    BY Going
  <2> QED BY <1>1, <2>1 DEF Close, Has
<1>2. CASE ~(n.pos - k < n.start)
  <2>1. typ \notin {"none", "Error"}
    BY DEF Primitives, Strings
  <2> DEFINE b == [n EXCEPT !.pos = @ - k]
             e == Emit(b, typ)
             m == Ignore(Skip(e, k))
  <2>2. Close(n, k, typ) = PopState(m)
    BY <1>2 DEF Close
  <2>3. Has(b, s, st, "none")
    BY Moving
  <2> HIDE DEF b
  <2>4. Has(e, s, st, typ)
    BY <2>1, <2>3, Emitting
  <2> HIDE DEF e
  <2>5. Has(Skip(e, k), s, st, typ)
    BY <2>4, Moving
  <2>6. Has(m, s, st, typ)
    BY <2>5, Moving
  <2> HIDE DEF m
  <2>7. /\ st # <<>> /\ w # <<>> /\ Expects(Head(w).what, typ)
        /\ Fits(Head(st), Tail(st), Takes(w, typ))
    BY Valued
  <2>8. Has(PopState(m), Head(st), Tail(st), typ)
    BY <2>6, <2>7, Popping
  <2>9. Fine(PopState(m), w)
    BY <2>1, <2>7, <2>8, Sends
  <2> QED BY <2>2, <2>9
<1> QED BY <1>1, <1>2

LEMMA StringFine ==
  ASSUME NEW l, NEW r, NEW n, NEW st, NEW w
  PROVE  /\ Ready(l, n, "string", st, w) =>
              LexString(l, r, n).state = "panic" \/ Fine(LexString(l, r, n), w)
         /\ Ready(l, n, "rawString", st, w) =>
              LexRawString(l, r, n).state = "panic" \/ Fine(LexRawString(l, r, n), w)
         /\ Ready(l, n, "multilineString", st, w) =>
              LexMultilineString(l, r, n).state = "panic" \/ Fine(LexMultilineString(l, r, n), w)
         /\ Ready(l, n, "multilineRawString", st, w) =>
              LexMultilineRawString(l, r, n).state = "panic" \/ Fine(LexMultilineRawString(l, r, n), w)
<1>1. /\ {"string", "rawString", "multilineString", "multilineRawString", "stringEscape",
           "multilineStringEscape"} \subseteq ValueStates
      /\ {"String", "RawString", "MultilineString", "RawMultilineString"} \subseteq Primitives
  BY DEF ValueStates, Primitives, Strings
<1>2. ASSUME NEW s \in ValueStates, Ready(l, n, s, st, w)
      PROVE  /\ st \in Seq(Stacked) /\ w \in Seq(Wants) /\ Nested(st, w, 0)
             /\ Has(n, s, st, "none") /\ Fine(n, w) /\ Fine(Errorf(n), w)
             /\ \A t \in ValueStates : Fine(ToState(n, t), w)
             /\ \A k : \A typ \in Primitives :
                  Close(n, k, typ).state = "panic" \/ Fine(Close(n, k, typ), w)
             /\ \A q : \A typ \in Primitives :
                  Closing(n, q, typ).state = "panic" \/ Fine(Closing(n, q, typ), w)
  <2>1. /\ Has(n, s, st, "none") /\ st \in Seq(Stacked) /\ w \in Seq(Wants)
        /\ Nested(st, w, 0)
    BY <1>2, Typed, FitsIs DEF Ready
  <2>2. /\ Fine(n, w) /\ Fine(Errorf(n), w)
        /\ \A t \in ValueStates : Fine(ToState(n, t), w)
    BY <2>1, ValueGoes
  <2>3. \A k : \A typ \in Primitives :
          Close(n, k, typ).state = "panic" \/ Fine(Close(n, k, typ), w)
    BY <2>1, Closed
  <2>4. ASSUME NEW q, NEW typ \in Primitives
        PROVE  Closing(n, q, typ).state = "panic" \/ Fine(Closing(n, q, typ), w)
    <3> DEFINE three == NextRune(NextRune(n))
    <3>1. Closing(n, q, typ) \in
            {Backup(NextRune(n)), Backup(Backup(three)), Close(three, 3, typ)}
      BY DEF Closing
    <3>2. /\ Has(Backup(NextRune(n)), s, st, "none") /\ Has(Backup(Backup(three)), s, st, "none")
          /\ Has(three, s, st, "none")
      BY <2>1, Moved
    <3> HIDE DEF three
    <3>3. Fine(Backup(NextRune(n)), w) /\ Fine(Backup(Backup(three)), w)
      BY <2>1, <3>2, ValueGoes
    <3>4. Close(three, 3, typ).state = "panic" \/ Fine(Close(three, 3, typ), w)
      BY <2>1, <3>2, Closed
    <3> QED BY <3>1, <3>3, <3>4
  <2> QED BY <2>1, <2>2, <2>3, <2>4
<1>3. ASSUME Ready(l, n, "string", st, w)
      PROVE  LexString(l, r, n).state = "panic" \/ Fine(LexString(l, r, n), w)
  <2>1. LexString(l, r, n) \in {Errorf(n), ToState(n, "stringEscape"), Close(n, 1, "String"), n}
    BY DEF LexString
  <2> QED BY <1>1, <1>2, <1>3, <2>1
<1>4. ASSUME Ready(l, n, "rawString", st, w)
      PROVE  LexRawString(l, r, n).state = "panic" \/ Fine(LexRawString(l, r, n), w)
  <2>1. LexRawString(l, r, n) \in {Errorf(n), Close(n, 1, "RawString"), n}
    BY DEF LexRawString
  <2> QED BY <1>1, <1>2, <1>4, <2>1
<1>5. ASSUME Ready(l, n, "multilineString", st, w)
      PROVE  LexMultilineString(l, r, n).state = "panic" \/ Fine(LexMultilineString(l, r, n), w)
  <2>1. LexMultilineString(l, r, n) \in
          {ToState(n, "multilineStringEscape"), Closing(n, r, "MultilineString"), n}
    BY DEF LexMultilineString
  <2> QED BY <1>1, <1>2, <1>5, <2>1
<1>6. ASSUME Ready(l, n, "multilineRawString", st, w)
      PROVE  LexMultilineRawString(l, r, n).state = "panic" \/ Fine(LexMultilineRawString(l, r, n), w)
  <2>1. LexMultilineRawString(l, r, n) \in {Closing(n, r, "RawMultilineString"), n}
    BY DEF LexMultilineRawString
  <2> QED BY <1>1, <1>2, <1>6, <2>1
<1> QED BY <1>3, <1>4, <1>5, <1>6

LEMMA EscapeFine ==
  ASSUME NEW l, NEW r, NEW n, NEW st, NEW w
  PROVE  /\ Ready(l, n, "stringEscape", st, w) => Fine(LexStringEscape(l, r, n), w)
         /\ Ready(l, n, "multilineStringEscape", st, w) => Fine(LexMultilineStringEscape(l, r, n), w)
         /\ Ready(l, n, "stringUnicode", st, w) => Fine(Unicode(l, "string"), w)
         /\ Ready(l, n, "multilineStringUnicode", st, w) => Fine(Unicode(l, "multilineString"), w)
<1>1. {"string", "multilineString", "stringEscape", "multilineStringEscape", "stringUnicode",
       "multilineStringUnicode"} \subseteq ValueStates
  BY DEF ValueStates
<1>2. ASSUME NEW s \in ValueStates, Ready(l, n, s, st, w), NEW a \in ValueStates, NEW b \in ValueStates
      PROVE  /\ Fine(StringEscape(r, n, a, b), w) /\ Fine(ToState(NextRune(n), a), w)
             /\ Fine(Unicode(l, a), w)
  <2>1. /\ Has(n, s, st, "none") /\ Has(l, s, st, "none") /\ st \in Seq(Stacked) /\ w \in Seq(Wants)
        /\ Nested(st, w, 0)
    BY <1>2, Typed, FitsIs DEF Ready
  <2>2. Has(NextRune(n), s, st, "none") /\ Has(Skip(l, 4), s, st, "none")
    BY <2>1, Moved
  <2>3. Fine(ToState(n, a), w) /\ Fine(ToState(n, b), w) /\ Fine(Errorf(n), w) /\ Fine(Errorf(l), w)
    BY <1>2, <2>1, ValueGoes
  <2>4. Fine(ToState(NextRune(n), a), w) /\ Fine(ToState(Skip(l, 4), a), w)
    BY <1>2, <2>1, <2>2, ValueGoes
  <2>5. StringEscape(r, n, a, b) \in {ToState(n, a), ToState(n, b), Errorf(n)}
    BY DEF StringEscape
  <2>6. Unicode(l, a) \in {ToState(Skip(l, 4), a), Errorf(l)}
    BY DEF Unicode
  <2> QED BY <2>3, <2>4, <2>5, <2>6
<1>3. Ready(l, n, "stringEscape", st, w) => Fine(LexStringEscape(l, r, n), w)
  BY <1>1, <1>2 DEF LexStringEscape
<1>4. Ready(l, n, "multilineStringEscape", st, w) => Fine(LexMultilineStringEscape(l, r, n), w)
  BY <1>1, <1>2 DEF LexMultilineStringEscape
<1>5. Ready(l, n, "stringUnicode", st, w) => Fine(Unicode(l, "string"), w)
  BY <1>1, <1>2
<1>6. Ready(l, n, "multilineStringUnicode", st, w) => Fine(Unicode(l, "multilineString"), w)
  BY <1>1, <1>2
<1> QED BY <1>3, <1>4, <1>5, <1>6

\* A bool that goes wrong sends an error first.
LEMMA ConstFails ==
  ASSUME NEW n, NEW s, NEW st, NEW w, Has(n, s, st, "none"), st # <<>>
  PROVE  Fine(EmitPop(Errorf(n), "Bool"), w)
<1> DEFINE x == [typ |-> "Error", text |-> <<>>]
           e == Errorf(n)
           y == [typ |-> "Bool", text |-> SubSeq(doc, e.start, e.pos - 1)]
           m == [e EXCEPT !.items = Append(@, y)]
<1>1. Has(e, "nil", st, "Error") /\ n.items = <<>>
  BY Emitting DEF Has, Carries
<1>2. e.items = <<x>>
  <2>1. IsLexer(n)
    BY DEF Has
  <2>2. e = [n EXCEPT !.items = Append(@, x), !.state = "nil"]
    BY DEF Errorf
  <2>3. Append(<<>>, x) = <<x>>
    OBVIOUS
  <2> HIDE DEF e
  <2> QED BY <1>1, <2>1, <2>2, <2>3 DEF IsLexer
<1>3. Emit(e, "Bool") = Ignore(m)
  BY DEF Emit
<1> HIDE DEF e
<1>4. Is(e, "nil", st, <<x>>)
  BY <1>1, <1>2 DEF Is, Has
<1>5. ASSUME NEW a, NEW b PROVE Append(<<a>>, b) # <<>> /\ Head(Append(<<a>>, b)) = a
  <2>1. <<a>> \in Seq({a, b}) /\ b \in {a, b} /\ Len(<<a>>) = 1 /\ <<a>>[1] = a
    OBVIOUS
  <2>2. /\ Append(<<a>>, b) \in Seq({a, b}) /\ Len(Append(<<a>>, b)) = 2
        /\ Append(<<a>>, b)[1] = a
    BY <2>1
  <2>3. Append(<<a>>, b) # <<>>
    BY <2>2, EmptySeq
  <2> QED BY <2>2, <2>3, RestFacts
<1>6. Is(m, "nil", st, Append(<<x>>, y))
  <2>1. IsLexer(e) /\ e.state = "nil" /\ e.stack = st
    BY <1>4 DEF Is
  <2>2. m = [e EXCEPT !.items = Append(<<x>>, y)]
    BY <1>2
  <2> HIDE DEF m, x, y
  <2> QED BY <2>1, <2>2, SetItems
<1> HIDE DEF m
<1>7. Carries(Append(<<x>>, y), "Error")
  <2>1. x.typ = "Error"
    OBVIOUS
  <2> HIDE DEF x, y
  <2> QED BY <1>5, <2>1 DEF Carries
<1> HIDE DEF x, y
<1>8. Has(m, "nil", st, "Error")
  BY <1>6, <1>7 DEF Is, Has
<1>9. Has(Ignore(m), "nil", st, "Error")
  BY <1>8, Moving
<1>10. Has(PopState(Ignore(m)), Head(st), Tail(st), "Error")
  BY <1>9, Popping
<1>11. Fine(PopState(Ignore(m)), w)
  BY <1>10 DEF Fine
<1> QED BY <1>3, <1>11 DEF EmitPop, e

LEMMA NumberFine ==
  ASSUME NEW l, NEW r, NEW n, NEW s \in ValueStates, NEW st, NEW w, Ready(l, n, s, st, w)
  PROVE  /\ \A rest : Fine(LexConst(l, rest), w)
         /\ \A t \in ValueStates : Fine(NumberThen(l, r, n, t), w)
         /\ Fine(LexNumberOrDate(l, r, n), w) /\ Fine(LexNumber(l, r, n), w)
         /\ Fine(LexFloat(l, r, n), w) /\ Fine(LexDateAfterYear(l), w)
<1>1. /\ {"dateAfterYear", "floatStart"} \subseteq ValueStates
      /\ {"Bool", "Integer", "Float", "Datetime"} \subseteq Primitives
  BY DEF ValueStates, Primitives, Strings
<1>2. /\ Has(n, s, st, "none") /\ Has(l, s, st, "none") /\ st \in Seq(Stacked) /\ w \in Seq(Wants)
      /\ Nested(st, w, 0)
  BY Typed, FitsIs DEF Ready
<1>3. st # <<>>
  BY <1>1, <1>2, Valued
<1>4. /\ Fine(n, w) /\ Fine(Errorf(n), w) /\ Fine(Errorf(l), w)
      /\ \A t \in ValueStates : Fine(ToState(n, t), w)
      /\ \A typ \in Primitives : Fine(EmitPop(l, typ), w)
  BY <1>2, ValueGoes
<1>5. \A k : \A typ \in Primitives : Fine(EmitPop(Skip(l, k), typ), w)
  <2>1. \A k : Has(Skip(l, k), s, st, "none")
    BY <1>2, Moved
  <2> QED BY <1>2, <2>1, ValueGoes
<1>6. ASSUME NEW rest PROVE Fine(LexConst(l, rest), w)
  <2>1. Has(NextRune(l), s, st, "none")
    BY <1>2, Moving
  <2>2. Fine(EmitPop(Errorf(NextRune(l)), "Bool"), w)
    BY <1>3, <2>1, ConstFails
  <2>3. LexConst(l, rest) \in
          {EmitPop(Skip(l, Len(rest)), "Bool"), EmitPop(Errorf(NextRune(l)), "Bool")}
    BY DEF LexConst
  <2> QED BY <1>1, <1>5, <2>2, <2>3
<1>7. ASSUME NEW t \in ValueStates PROVE Fine(NumberThen(l, r, n, t), w)
  BY <1>4 DEF NumberThen
<1>8. Fine(LexNumberOrDate(l, r, n), w)
  <2>1. LexNumberOrDate(l, r, n) \in
          {ToState(n, "dateAfterYear"), Errorf(n), n, ToState(n, "floatStart"), EmitPop(l, "Integer")}
    BY DEF LexNumberOrDate
  <2> QED BY <1>1, <1>4, <2>1
<1>9. Fine(LexNumber(l, r, n), w)
  <2>1. LexNumber(l, r, n) \in {n, ToState(n, "floatStart"), EmitPop(l, "Integer")}
    BY DEF LexNumber
  <2> QED BY <1>1, <1>4, <2>1
<1>10. Fine(LexFloat(l, r, n), w)
  BY <1>1, <1>4 DEF LexFloat
<1>11. Fine(LexDateAfterYear(l), w)
  <2>1. LexDateAfterYear(l) \in {EmitPop(Skip(l, 15), "Datetime"), Errorf(l)}
    BY DEF LexDateAfterYear
  <2> QED BY <1>1, <1>4, <1>5, <2>1
<1> QED BY <1>6, <1>7, <1>8, <1>9, <1>10, <1>11

\* Inside an array, between its values.
LEMMA InArray ==
  ASSUME NEW n, NEW s \in {"arrayValue", "arrayValueEnd"}, NEW st \in Seq(Stacked),
         NEW w \in Seq(Wants), Nested(st, w, 1), Has(n, s, st, "none")
  PROVE  /\ Fine(ToState(PushState(n, s), "commentStart"), w) /\ Fine(ArrayEnd(n), w)
         /\ Fine(ToState(PushState(n, "arrayValueEnd"), "value"), w)
         /\ Fine(ToState(n, "arrayValue"), w)
<1>1. ASSUME NEW a \in Stacked, NEW t
      PROVE  Has(ToState(PushState(n, a), t), t, <<a>> \o st, "none")
  <2>1. Has(PushState(n, a), s, <<a>> \o st, "none")
    BY Going
  <2> QED BY <2>1, Going
<1>2. s \in Stacked /\ "arrayValueEnd" \in Stacked
  BY DEF Stacked
<1>3. Fine(ToState(PushState(n, s), "commentStart"), w)
  <2> DEFINE c == <<s>> \o st
  <2>1. c \in Seq(Stacked) /\ c # <<>> /\ Head(c) = s /\ Tail(c) = st
    BY <1>2, ConsFacts
  <2>2. Has(ToState(PushState(n, s), "commentStart"), "commentStart", c, "none")
    BY <1>1, <1>2
  <2> HIDE DEF c
  <2>3. Fits("commentStart", c, w)
    BY <2>1, FitsIs DEF Returns
  <2> QED BY <2>2, <2>3, Goes
<1>4. Fine(ToState(PushState(n, "arrayValueEnd"), "value"), w)
  BY <1>1, <1>2, ArrayHasValue, Goes
<1>5. Fine(ToState(n, "arrayValue"), w)
  <2>1. Fits("arrayValue", st, w)
    BY FitsIs
  <2>2. Has(ToState(n, "arrayValue"), "arrayValue", st, "none")
    BY Going
  <2> QED BY <2>1, <2>2, Goes
<1>6. Fine(ArrayEnd(n), w)
  <2> DEFINE e == Emit(Ignore(n), "ArrayEnd")
  <2>1. Has(Ignore(n), s, st, "none")
    BY Moving
  <2>2. Has(e, s, st, "ArrayEnd")
    BY <2>1, Emitting
  <2>3. /\ st # <<>> /\ w # <<>> /\ Expects(Head(w).what, "ArrayEnd")
        /\ Fits(Head(st), Tail(st), Takes(w, "ArrayEnd"))
    BY ArrayEnds
  <2> HIDE DEF e
  <2>4. Has(PopState(e), Head(st), Tail(st), "ArrayEnd")
    BY <2>2, <2>3, Popping
  <2>5. Fine(PopState(e), w)
    BY <2>3, <2>4, Sends
  <2> QED BY <2>5 DEF e, ArrayEnd, EmitPop
<1> QED BY <1>3, <1>4, <1>5, <1>6

LEMMA ArrayFine ==
  ASSUME NEW l, NEW r, NEW n, NEW st, NEW w
  PROVE  /\ Ready(l, n, "arrayValue", st, w) => Fine(LexArrayValue(l, r, n), w)
         /\ Ready(l, n, "arrayValueEnd", st, w) => Fine(LexArrayValueEnd(l, r, n), w)
<1>1. ASSUME Ready(l, n, "arrayValue", st, w) PROVE Fine(LexArrayValue(l, r, n), w)
  <2>1. /\ Has(n, "arrayValue", st, "none") /\ st \in Seq(Stacked) /\ w \in Seq(Wants)
        /\ Nested(st, w, 1)
    BY <1>1, Typed, FitsIs DEF Ready
  <2>2. Has(Backup(n), "arrayValue", st, "none")
    BY <2>1, Moving
  <2>3. LexArrayValue(l, r, n) \in
          {Ignore(n), ToState(PushState(n, "arrayValue"), "commentStart"), Errorf(n), ArrayEnd(n),
           ToState(PushState(Backup(n), "arrayValueEnd"), "value")}
    BY DEF LexArrayValue
  <2>4. Fine(Ignore(n), w) /\ Fine(Errorf(n), w)
    BY <1>1, Stays
  <2>5. Fine(ToState(PushState(n, "arrayValue"), "commentStart"), w) /\ Fine(ArrayEnd(n), w)
    BY <2>1, InArray
  <2>6. Fine(ToState(PushState(Backup(n), "arrayValueEnd"), "value"), w)
    BY <2>1, <2>2, InArray
  <2> QED BY <2>3, <2>4, <2>5, <2>6
<1>2. ASSUME Ready(l, n, "arrayValueEnd", st, w) PROVE Fine(LexArrayValueEnd(l, r, n), w)
  <2>1. /\ Has(n, "arrayValueEnd", st, "none") /\ st \in Seq(Stacked) /\ w \in Seq(Wants)
        /\ Nested(st, w, 1)
    BY <1>2, Typed, FitsIs DEF Ready
  <2>2. Has(Ignore(n), "arrayValueEnd", st, "none")
    BY <2>1, Moving
  <2>3. LexArrayValueEnd(l, r, n) \in
          {Ignore(n), ToState(PushState(n, "arrayValueEnd"), "commentStart"),
           ToState(Ignore(n), "arrayValue"), ArrayEnd(n), Errorf(n)}
    BY DEF LexArrayValueEnd
  <2>4. Fine(Ignore(n), w) /\ Fine(Errorf(n), w)
    BY <1>2, Stays
  <2>5. Fine(ToState(PushState(n, "arrayValueEnd"), "commentStart"), w) /\ Fine(ArrayEnd(n), w)
    BY <2>1, InArray
  <2>6. Fine(ToState(Ignore(n), "arrayValue"), w)
    BY <2>1, <2>2, InArray
  <2> QED BY <2>3, <2>4, <2>5, <2>6
<1> QED BY <1>1, <1>2

-----------------------------------------------------------------------------
(* The steps.                                                              *)

\* What the state of a lexer runs leaves a lexer the parser gets on with.
LEMMA StateFine ==
  ASSUME NEW l, NEW s, NEW st, NEW w, Has(l, s, st, "none"), Fits(s, st, w)
  PROVE  StateFn(s, l).state = "panic" \/ Fine(StateFn(s, l), w)
<1> DEFINE r == Rune(l)
           n == NextRune(l)
<1>1. Ready(l, n, s, st, w)
  BY Moving DEF Ready
<1> HIDE DEF r, n
<1>2. s \in ValueStates \cup {"top", "topEnd", "tableStart", "tableEnd", "arrayTableEnd",
        "tableNameStart", "tableName", "keyStart", "key", "keyEnd", "commentStart", "comment",
        "arrayValue", "arrayValueEnd"}
  BY DEF Fits
<1>3. CASE s \in {"top", "topEnd", "tableStart"}
  <2>1. /\ StateFn("top", l) = LexTop(l, r, n) /\ StateFn("topEnd", l) = LexTopEnd(l, r, n)
        /\ StateFn("tableStart", l) = LexTableStart(l, r, n)
    BY DEF StateFn, r, n
  <2> QED BY <1>1, <1>3, <2>1, TopFine, TopEndFine, TableStartFine
<1>4. CASE s \in {"tableEnd", "arrayTableEnd", "tableNameStart", "tableName"}
  <2>1. /\ StateFn("tableEnd", l) = ToState(Emit(l, "TableEnd"), "topEnd")
        /\ StateFn("arrayTableEnd", l) = LexArrayTableEnd(l, r, n)
        /\ StateFn("tableNameStart", l) = LexTableNameStart(l, r, n)
        /\ StateFn("tableName", l) = LexTableName(l, r, n)
    BY DEF StateFn, r, n
  <2> QED BY <1>1, <1>4, <2>1, TableEndFine, TableNameFine
<1>5. CASE s \in {"keyStart", "key", "keyEnd", "commentStart", "comment"}
  <2>1. /\ StateFn("keyStart", l) = LexKeyStart(l, r, n) /\ StateFn("key", l) = LexKey(l, r, n)
        /\ StateFn("keyEnd", l) = LexKeyEnd(l, r, n)
        /\ StateFn("commentStart", l) = LexCommentStart(l, r, n)
        /\ StateFn("comment", l) = LexComment(l, r, n)
    BY DEF StateFn, r, n
  <2> QED BY <1>1, <1>5, <2>1, KeyFine, CommentFine
<1>6. CASE s \in {"value", "arrayValue", "arrayValueEnd"}
  <2>1. /\ StateFn("value", l) = LexValue(l, r, n)
        /\ StateFn("arrayValue", l) = LexArrayValue(l, r, n)
        /\ StateFn("arrayValueEnd", l) = LexArrayValueEnd(l, r, n)
    BY DEF StateFn, r, n
  <2> QED BY <1>1, <1>6, <2>1, ValueFine, ArrayFine
<1>7. CASE s \in {"string", "rawString", "multilineString", "multilineRawString"}
  <2>1. /\ StateFn("string", l) = LexString(l, r, n)
        /\ StateFn("rawString", l) = LexRawString(l, r, n)
        /\ StateFn("multilineString", l) = LexMultilineString(l, r, n)
        /\ StateFn("multilineRawString", l) = LexMultilineRawString(l, r, n)
    BY DEF StateFn, r, n
  <2> QED BY <1>1, <1>7, <2>1, StringFine
<1>8. CASE s \in {"stringEscape", "multilineStringEscape", "stringUnicode", "multilineStringUnicode"}
  <2>1. /\ StateFn("stringEscape", l) = LexStringEscape(l, r, n)
        /\ StateFn("multilineStringEscape", l) = LexMultilineStringEscape(l, r, n)
        /\ StateFn("stringUnicode", l) = Unicode(l, "string")
        /\ StateFn("multilineStringUnicode", l) = Unicode(l, "multilineString")
    BY DEF StateFn, r, n
  <2> QED BY <1>1, <1>8, <2>1, EscapeFine
<1>9. CASE s \in {"true", "false", "numberOrDateStart", "numberOrDate", "dateAfterYear",
                  "numberStart", "number", "floatStart", "float"}
  <2>1. \E rest \in {<<{"r"}, {"u"}, {"e"}>>, <<{"a"}, {"l"}, {"s"}, {"e"}>>} :
          s \in {"true", "false"} => StateFn(s, l) = LexConst(l, rest)
    BY DEF StateFn
  <2>2. /\ StateFn("numberOrDateStart", l) = NumberThen(l, r, n, "numberOrDate")
        /\ StateFn("numberOrDate", l) = LexNumberOrDate(l, r, n)
        /\ StateFn("dateAfterYear", l) = LexDateAfterYear(l)
    BY DEF StateFn, r, n
  <2>3. /\ StateFn("numberStart", l) = NumberThen(l, r, n, "number")
        /\ StateFn("number", l) = LexNumber(l, r, n)
        /\ StateFn("floatStart", l) = NumberThen(l, r, n, "float")
        /\ StateFn("float", l) = LexFloat(l, r, n)
    BY DEF StateFn, r, n
  <2>4. s \in ValueStates /\ {"numberOrDate", "number", "float"} \subseteq ValueStates
    BY <1>9 DEF ValueStates
  <2>5. /\ \A rest : Fine(LexConst(l, rest), w)
        /\ \A t \in ValueStates : Fine(NumberThen(l, r, n, t), w)
        /\ Fine(LexNumberOrDate(l, r, n), w) /\ Fine(LexNumber(l, r, n), w)
        /\ Fine(LexFloat(l, r, n), w) /\ Fine(LexDateAfterYear(l), w)
    BY <1>1, <2>4, NumberFine
  <2> QED BY <1>9, <2>1, <2>2, <2>3, <2>4, <2>5
<1> QED BY <1>2, <1>3, <1>4, <1>5, <1>6, <1>7, <1>8, <1>9 DEF ValueStates

LEMMA LexInitInv == LexInit => LexInv
<1> SUFFICES ASSUME LexInit PROVE Fine(lx, wants)
  BY DEF LexInv
<1>1. Has(lx, "top", <<>>, "none")
  BY DEF LexInit, Has, IsLexer, Carries
<1>2. wants \in Seq(Wants) /\ Awaits(wants, <<"top">>)
  <2>1. Want("top") \in Wants /\ Want("top").what = "top"
    BY WantIs
  <2>2. wants = <<Want("top")>>
    BY DEF LexInit
  <2>3. wants \in Seq(Wants) /\ Len(wants) = 1 /\ wants[1].what = "top"
    BY <2>1, <2>2
  <2> QED BY <2>3, AwaitsOne
<1>3. Fits("top", <<>>, wants)
  BY <1>2, FitsIs, EmptySeq
<1> QED BY <1>1, <1>3, Goes

\* The lexer without items is one whose state fits.
LEMMA Waiting ==
  ASSUME NEW l, NEW w, Fine(l, w), l.items = <<>>
  PROVE  \E s, st : Has(l, s, st, "none") /\ Fits(s, st, w)
<1>1. PICK s, st, k :
        /\ Has(l, s, st, k)
        /\ \/ k = "Error"
           \/ k = "none" /\ Fits(s, st, w)
           \/ /\ k \notin {"none", "Error"} /\ w # <<>> /\ Expects(Head(w).what, k)
              /\ k = "EOF" \/ Fits(s, st, Takes(w, k))
  BY DEF Fine
<1>2. CASE k = "Error"
  BY <1>1, <1>2 DEF Has, Carries
<1>3. CASE k = "none"
  BY <1>1, <1>3
<1>4. CASE k \notin {"none", "Error"}
  <2>1. PICK t : l.items = <<[typ |-> k, text |-> t]>>
    BY <1>1, <1>4 DEF Has, Carries
  <2>2. \A x : <<x>> # <<>>
    OBVIOUS
  <2> QED BY <2>1, <2>2
<1> QED BY <1>2, <1>3, <1>4

LEMMA LexStepInv == LexInv /\ LexStep => LexInv'
<1> SUFFICES ASSUME LexInv, LexStep, verdict' = "run" PROVE Fine(lx', wants')
  BY DEF LexInv
<1>1. verdict = "run" /\ lx.items = <<>> /\ wants' = wants /\ Fine(lx, wants)
  BY DEF LexStep, LexInv
<1>2. PICK s, st : Has(lx, s, st, "none") /\ Fits(s, st, wants)
  BY <1>1, Waiting
<1>3. lx.state = s
  BY <1>2 DEF Has
<1> DEFINE l == StateFn(lx.state, lx)
<1>4. l.state # "panic" /\ lx' = l
  BY DEF LexStep
<1>5. l.state = "panic" \/ Fine(l, wants)
  BY <1>2, <1>3, StateFine
<1> QED BY <1>1, <1>4, <1>5

\* The lexer's items are empty or begin with one the parser expects.
LEMMA Taking ==
  ASSUME NEW l, NEW w, Fine(l, w), l.items # <<>>
  PROVE  \/ Head(l.items).typ = "Error"
         \/ \E s, st, k, t :
              /\ Has(l, s, st, k) /\ l.items = <<[typ |-> k, text |-> t]>> /\ k # "Error"
              /\ w # <<>> /\ Expects(Head(w).what, k)
              /\ k = "EOF" \/ Fits(s, st, Takes(w, k))
<1>1. PICK s, st, k :
        /\ Has(l, s, st, k)
        /\ \/ k = "Error"
           \/ k = "none" /\ Fits(s, st, w)
           \/ /\ k \notin {"none", "Error"} /\ w # <<>> /\ Expects(Head(w).what, k)
              /\ k = "EOF" \/ Fits(s, st, Takes(w, k))
  BY DEF Fine
<1>2. CASE k = "Error"
  BY <1>1, <1>2 DEF Has, Carries
<1>3. CASE k = "none"
  BY <1>1, <1>3 DEF Has, Carries
<1>4. CASE k \notin {"none", "Error"}
  <2>1. PICK t : l.items = <<[typ |-> k, text |-> t]>>
    BY <1>1, <1>4 DEF Has, Carries
  <2> QED BY <1>1, <1>4, <2>1
<1> QED BY <1>2, <1>3, <1>4

LEMMA ParseItemInv == LexInv /\ ParseItem => LexInv'
<1> SUFFICES ASSUME LexInv, ParseItem, verdict' = "run" PROVE Fine(lx', wants')
  BY DEF LexInv
<1> DEFINE item == Head(lx.items)
<1>1. verdict = "run" /\ lx.items # <<>> /\ Fine(lx, wants)
  BY DEF ParseItem, LexInv
<1>2. lx' = [lx EXCEPT !.items = Tail(lx.items)]
  BY DEF ParseItem
<1>3. item.typ # "Error" /\ item.typ # "EOF"
  BY DEF ParseItem
<1>4. Expects(Head(wants).what, item.typ) => wants' = Takes(wants, item.typ)
  BY <1>3 DEF ParseItem
<1> HIDE DEF item
<1>5. PICK s, st, k, t :
        /\ Has(lx, s, st, k) /\ lx.items = <<[typ |-> k, text |-> t]>> /\ k # "Error"
        /\ wants # <<>> /\ Expects(Head(wants).what, k)
        /\ k = "EOF" \/ Fits(s, st, Takes(wants, k))
  BY <1>1, <1>3, Taking DEF item
<1>6. \A x : Head(<<x>>) = x /\ Tail(<<x>>) = <<>>
  OBVIOUS
<1>7. item = [typ |-> k, text |-> t] /\ Tail(lx.items) = <<>>
  BY <1>5, <1>6 DEF item
<1>8. item.typ = k
  BY <1>7
<1>9. Has(lx', s, st, "none")
  <2>1. IsLexer(lx) /\ lx.state = s /\ lx.stack = st
    BY <1>5 DEF Has
  <2>2. Is(lx', s, st, <<>>)
    BY <1>2, <1>7, <2>1, SetItems
  <2> QED BY <2>2 DEF Is, Has, Carries
<1>10. wants' = Takes(wants, k) /\ Fits(s, st, Takes(wants, k))
  BY <1>3, <1>4, <1>5, <1>8
<1> QED BY <1>9, <1>10, Goes

LEMMA LexInvExpected == LexInv => ItemsExpected
<1> SUFFICES ASSUME LexInv, verdict = "run"
             PROVE  IF lx.items = <<>> THEN lx.state # "nil"
                    ELSE \/ Head(lx.items).typ = "Error"
                         \/ wants # <<>> /\ Expects(Head(wants).what, Head(lx.items).typ)
  BY DEF ItemsExpected
<1>1. Fine(lx, wants)
  BY DEF LexInv
<1>2. CASE lx.items = <<>>
  <2>1. PICK s, st : Has(lx, s, st, "none") /\ Fits(s, st, wants)
    BY <1>1, <1>2, Waiting
  <2>2. s # "nil"
    BY <2>1 DEF Fits, ValueStates
  <2>3. lx.state = s
    BY <2>1 DEF Has
  <2> QED BY <1>2, <2>2, <2>3
<1>3. CASE lx.items # <<>>
  <2>1. CASE Head(lx.items).typ = "Error"
    BY <1>3, <2>1
  <2>2. CASE Head(lx.items).typ # "Error"
    <3>1. PICK k, t : /\ lx.items = <<[typ |-> k, text |-> t]>>
                      /\ wants # <<>> /\ Expects(Head(wants).what, k)
      BY <1>1, <1>3, <2>2, Taking
    <3>2. \A x : Head(<<x>>) = x
      OBVIOUS
    <3>3. Head(lx.items).typ = k
      BY <3>1, <3>2
    <3> QED BY <1>3, <3>1, <3>3
  <2> QED BY <2>1, <2>2
<1> QED BY <1>2, <1>3

\* In any set of documents, the items of the lexer (lex.go) are the ones that the parser
\* (parse.go) asks for, through any nesting of arrays, tables and comments: no stack
\* runs empty, no state is missing, and expect never meets an item of another kind.
THEOREM LexerMeetsParser == LexSpec => []ItemsExpected
<1>1. LexInit => LexInv
  BY LexInitInv
<1>2. LexInv /\ [LexNext]_lexVars => LexInv'
  <2>1. LexInv /\ UNCHANGED lexVars => LexInv'
    BY DEF LexInv, lexVars, Fine
  <2> QED BY <2>1, LexStepInv, ParseItemInv DEF LexNext
<1>3. LexInv => ItemsExpected
  BY LexInvExpected
<1> QED BY <1>1, <1>2, <1>3, PTL DEF LexSpec

-----------------------------------------------------------------------------
(* Texts that can be converted.                                            *)

\* A backslash at k, of a text s, that begins \u and four hexadecimals, other than 005c.
IsCode(s, k) ==
  /\ s[k] = "\\" /\ s[k + 1] = "u" /\ k + 5 <= Len(s)
  /\ \A j \in k + 2 .. k + 5 : s[j] \in Hexadecimal
  /\ ~Spells(s, k)

\* The text of a string in a document that has no backslash before another or before a
\* line end: a backslash is the last byte, or begins an escape that the lexer knows.
Fair(t) ==
  \A i \in 1 .. Len(t) - 1 : t[i] = "\\" => t[i + 1] \in Escapes \ {"\\"} \/ IsCode(t, i)

\* What replaceUnicode does not stop at, and makes no new \u of.
Coded(s) == \A k \in 1 .. Len(s) - 1 : s[k] = "\\" => IsCode(s, k)

-----------------------------------------------------------------------------
(* What becomes of the text of a string.                                   *)

LEMMA BytesIs ==
  /\ "\\" \in Bytes /\ "nl" \in Bytes /\ "ctl" \in Bytes /\ "u" \in Bytes /\ "cont" \in Bytes
  /\ "two" \in Bytes /\ "three" \in Bytes /\ Hexadecimal \subseteq Bytes
BY DEF Bytes

LEMMA HexesAre ==
  \A i \in 1 .. 22 : Hexes[i] \in {"0", "1", "2", "3", "4", "5", "6", "7", "8", "9", "a", "b",
                                   "c", "d", "e", "f", "A", "B", "C", "D", "E", "F"}
BY DEF Hexes

LEMMA SlashNoHex == "\\" \notin Hexadecimal /\ "u" \notin Hexadecimal /\ "\\" # "u"
BY HexesAre DEF Hexadecimal

\* The value of four hexadecimals, which is a backslash's only when they spell it.
LEMMA DigitIs ==
  ASSUME NEW h \in Hexadecimal
  PROVE  /\ Digit(h) \in 0 .. 15
         /\ Digit(h) = 0 => h = "0"
         /\ Digit(h) = 5 => h = "5"
         /\ Digit(h) = 12 => h \in {"c", "C"}
<1> DEFINE i == CHOOSE i \in 1 .. 22 : Hexes[i] = h
<1>1. i \in 1 .. 22 /\ Hexes[i] = h
  BY DEF Hexadecimal
<1>2. Digit(h) = IF i <= 16 THEN i - 1 ELSE i - 7
  BY DEF Digit
<1> HIDE DEF i
<1>3. Hexes[1] = "0" /\ Hexes[6] = "5" /\ Hexes[13] = "c" /\ Hexes[19] = "C"
  BY DEF Hexes
<1>4. Digit(h) = 0 => i = 1
  BY <1>1, <1>2
<1>5. Digit(h) = 5 => i = 6
  BY <1>1, <1>2
<1>6. Digit(h) = 12 => i = 13 \/ i = 19
  BY <1>1, <1>2
<1>7. Digit(h) \in 0 .. 15
  BY <1>1, <1>2
<1> QED BY <1>1, <1>3, <1>4, <1>5, <1>6, <1>7

LEMMA ValueIs ==
  ASSUME NEW s, NEW k \in Int, IsCode(s, k)
  PROVE  ValueAt(s, k + 2) \in Nat /\ ValueAt(s, k + 2) # 92
<1> DEFINE i == k + 2
           a == Digit(s[i])  b == Digit(s[i + 1])  c == Digit(s[i + 2])  d == Digit(s[i + 3])
<1>1. i + 1 = k + 3 /\ i + 2 = k + 4 /\ i + 3 = k + 5 /\ i = k + 2
  OBVIOUS
<1>2. /\ s[i] \in Hexadecimal /\ s[i + 1] \in Hexadecimal
      /\ s[i + 2] \in Hexadecimal /\ s[i + 3] \in Hexadecimal
  BY <1>1 DEF IsCode
<1>3. ~(s[i] = "0" /\ s[i + 1] = "0" /\ s[i + 2] = "5" /\ s[i + 3] \in {"c", "C"})
  BY <1>1 DEF IsCode, Spells
<1> HIDE DEF i
<1>4. a \in 0 .. 15 /\ b \in 0 .. 15 /\ c \in 0 .. 15 /\ d \in 0 .. 15
  BY <1>2, DigitIs
<1>5. ~(a = 0 /\ b = 0 /\ c = 5 /\ d = 12)
  BY <1>2, <1>3, DigitIs
<1>6. ValueAt(s, i) = 4096 * a + 256 * b + 16 * c + d
  BY DEF ValueAt
<1> HIDE DEF a, b, c, d
<1> QED BY <1>4, <1>5, <1>6 DEF i

LEMMA BytesOfIs ==
  ASSUME NEW v \in Nat, v # 92
  PROVE  BytesOf(v) \in Seq(Bytes) /\ \A j \in 1 .. Len(BytesOf(v)) : BytesOf(v)[j] # "\\"
<1>1. \A i \in 1 .. 22 : Hexes[i] \in Bytes /\ Hexes[i] # "\\"
  BY BytesIs, SlashNoHex DEF Hexadecimal
<1>2. \A x : x \in Bytes /\ x # "\\" => <<x>> \in Seq(Bytes) /\ \A j \in 1 .. Len(<<x>>) : <<x>>[j] # "\\"
  OBVIOUS
<1>3. \A i \in 1 .. 22 : /\ <<Hexes[i]>> \in Seq(Bytes)
                         /\ \A j \in 1 .. Len(<<Hexes[i]>>) : <<Hexes[i]>>[j] # "\\"
  BY <1>1, <1>2
<1> DEFINE digits == 48 .. 57  lower == 97 .. 102  upper == 65 .. 70
           plain == (0 .. 127) \ ({92, 117} \cup 48 .. 57 \cup 97 .. 102 \cup 65 .. 70)
           two == 128 .. 2047
<1>4. BytesOf(v) =
        CASE v = 92 -> <<"\\">> [] v = 117 -> <<"u">> [] v \in digits -> <<Hexes[v - 47]>>
          [] v \in lower -> <<Hexes[v - 86]>> [] v \in upper -> <<Hexes[v - 48]>>
          [] v \in plain -> <<"ctl">> [] v \in two -> <<"two", "cont">>
          [] OTHER -> <<"three", "cont", "cont">>
  BY DEF BytesOf
<1>5. /\ v \in digits => v - 47 \in 1 .. 22 /\ v # 117 /\ v \notin lower \cup upper \cup plain \cup two
      /\ v \in lower => v - 86 \in 1 .. 22 /\ v # 117 /\ v \notin upper \cup plain \cup two
      /\ v \in upper => v - 48 \in 1 .. 22 /\ v # 117 /\ v \notin plain \cup two
      /\ v \in plain => v # 117 /\ v \notin two
      /\ v \in two => v # 117
  OBVIOUS
<1> HIDE DEF digits, lower, upper, plain, two
<1>6. CASE v \in digits
  <2>1. BytesOf(v) = <<Hexes[v - 47]>>
    BY <1>4, <1>5, <1>6
  <2> QED BY <1>3, <1>5, <1>6, <2>1
<1>7. CASE v \in lower
  <2>1. BytesOf(v) = <<Hexes[v - 86]>>
    BY <1>4, <1>5, <1>7
  <2> QED BY <1>3, <1>5, <1>7, <2>1
<1>8. CASE v \in upper
  <2>1. BytesOf(v) = <<Hexes[v - 48]>>
    BY <1>4, <1>5, <1>8
  <2> QED BY <1>3, <1>5, <1>8, <2>1
<1>9. CASE v = 117 \/ v \in plain
  <2>1. BytesOf(v) = <<"u">> \/ BytesOf(v) = <<"ctl">>
    BY <1>4, <1>5, <1>9
  <2> QED BY <1>2, <2>1, BytesIs
<1>10. CASE v # 117 /\ v \notin digits \cup lower \cup upper \cup plain
  <2>1. BytesOf(v) = <<"two", "cont">> \/ BytesOf(v) = <<"three", "cont", "cont">>
    BY <1>4, <1>10
  <2>2. \A x, y \in Bytes : x # "\\" /\ y # "\\" =>
          /\ <<x, y>> \in Seq(Bytes) /\ \A j \in 1 .. Len(<<x, y>>) : <<x, y>>[j] # "\\"
          /\ <<x, y, y>> \in Seq(Bytes) /\ \A j \in 1 .. Len(<<x, y, y>>) : <<x, y, y>>[j] # "\\"
    OBVIOUS
  <2>3. "two" \in Bytes /\ "three" \in Bytes /\ "cont" \in Bytes
    BY BytesIs
  <2> QED BY <2>1, <2>2, <2>3
<1> QED BY <1>6, <1>7, <1>8, <1>9, <1>10

LEMMA StrippedIs ==
  ASSUME NEW t \in Seq(Bytes), Fair(t)
  PROVE  Stripped(t) = t
<1> DEFINE N == Len(t)
           cut == {i \in 1 .. N : \E b \in {b \in 1 .. N - 1 : t[b] = "\\" /\ t[b + 1] = "nl"} :
                     b <= i /\ \A k \in b + 2 .. i : t[k] \in Blank}
           s[i \in 0 .. N] ==
             IF i = 0 THEN <<>> ELSE IF i \in cut THEN s[i - 1] ELSE Append(s[i - 1], t[i])
           g == [i \in 0 .. N |-> SubSeq(t, 1, i)]
<1>1. N \in Nat /\ \A i \in 1 .. N : t[i] \in Bytes
  OBVIOUS
<1>2. cut = {}
  <2>1. "nl" \notin Escapes /\ "nl" # "u"
    BY DEF Escapes
  <2>2. {b \in 1 .. N - 1 : t[b] = "\\" /\ t[b + 1] = "nl"} = {}
    BY <2>1 DEF Fair, IsCode
  <2> QED BY <2>2
<1>3. Stripped(t) = s[N]
  BY DEF Stripped
<1> HIDE DEF cut
<1>4. \A i \in 0 .. N : g[i] \in Seq(Bytes) /\ Len(g[i]) = i /\ \A j \in 1 .. i : g[i][j] = t[j]
  BY <1>1
<1>5. g = [i \in 0 .. N |-> IF i = 0 THEN <<>> ELSE IF i \in cut THEN g[i - 1] ELSE Append(g[i - 1], t[i])]
  <2>1. ASSUME NEW i \in 0 .. N
        PROVE  g[i] = IF i = 0 THEN <<>> ELSE IF i \in cut THEN g[i - 1] ELSE Append(g[i - 1], t[i])
    <3> HIDE DEF g
    <3>1. CASE i = 0
      BY <1>4, <3>1, EmptySeq
    <3>2. CASE i # 0
      <4>1. i \in 1 .. N /\ i - 1 \in 0 .. N
        BY <1>1, <3>2
      <4>2. g[i] = Append(g[i - 1], t[i])
        <5> DEFINE a == Append(g[i - 1], t[i])
        <5>1. /\ a \in Seq(Bytes) /\ Len(a) = i /\ a[i] = t[i]
              /\ \A j \in 1 .. i - 1 : a[j] = g[i - 1][j]
          BY <1>1, <1>4, <4>1
        <5>2. \A j \in 1 .. i : a[j] = g[i][j]
          <6>1. ASSUME NEW j \in 1 .. i PROVE a[j] = g[i][j]
            <7>1. j = i \/ j \in 1 .. i - 1
              BY <4>1
            <7> QED BY <1>4, <4>1, <5>1, <7>1
          <6> QED BY <6>1
        <5> HIDE DEF a
        <5>3. a = g[i]
          <6>1. g[i] \in Seq(Bytes) /\ Len(g[i]) = i
            BY <1>4, <4>1
          <6> QED BY <5>1, <5>2, <6>1
        <5> QED BY <5>3 DEF a
      <4> QED BY <1>2, <3>2, <4>2
    <3> QED BY <3>1, <3>2
  <2> QED BY <2>1
<1>6. s = [i \in 0 .. N |-> IF i = 0 THEN <<>> ELSE IF i \in cut THEN s[i - 1] ELSE Append(s[i - 1], t[i])]
  <2> HIDE DEF g
  <2> QED BY <1>5
<1> HIDE DEF s
<1>7. \A i \in 0 .. N : s[i] = g[i]
  <2> DEFINE S == {i \in 0 .. N : s[i] = g[i]}
  <2> HIDE DEF g
  <2>1. 0 \in S
    BY <1>1, <1>5, <1>6
  <2>2. ASSUME NEW n \in 0 .. N - 1, n \in S
        PROVE  n + 1 \in S
    <3>1. n + 1 \in 0 .. N /\ n + 1 # 0 /\ (n + 1) - 1 = n
      BY <1>1
    <3>2. s[n + 1] = Append(s[n], t[n + 1]) /\ g[n + 1] = Append(g[n], t[n + 1])
      BY <1>2, <1>5, <1>6, <3>1
    <3> QED BY <2>2, <3>1, <3>2
  <2> HIDE DEF S
  <2>3. \A n \in 0 .. N : n \in S
    BY <1>1, <2>1, <2>2, UpTo
  <2> QED BY <2>3 DEF S
<1>8. s[N] = g[N] /\ g[N] \in Seq(Bytes) /\ Len(g[N]) = Len(t) /\ \A j \in 1 .. Len(t) : g[N][j] = t[j]
  BY <1>1, <1>4, <1>7
<1> HIDE DEF g, N
<1>9. g[N] = t
  BY <1>8
<1> QED BY <1>3, <1>8, <1>9

\* What is put for the bytes from i on, and how many they are.
Pieces(t, piece, taken) ==
  \A i \in 1 .. Len(t) : /\ piece[i] \in Seq(Bytes)
                         /\ taken[i] \in Nat /\ taken[i] >= 1 /\ i + taken[i] <= Len(t) + 1

\* What Rewritten computes: from the end on, a piece for each byte it takes.
Computes(u, t, piece, taken) ==
  /\ u \in [1 .. Len(t) + 1 -> Seq(Bytes)]
  /\ Rewritten(t, piece, taken) = u[1] /\ u[Len(t) + 1] = <<>>
  /\ \A i \in 1 .. Len(t) : u[i] = piece[i] \o u[i + taken[i]]

LEMMA RewrittenRun ==
  ASSUME NEW t \in Seq(Bytes), NEW piece, NEW taken, Pieces(t, piece, taken)
  PROVE  \E u : Computes(u, t, piece, taken)
<1> DEFINE N == Len(t)
           T == Seq(Bytes)
           Obeys(h, k) == \A i \in 1 .. N + 1 : i >= N + 1 - k =>
                            h[i] = IF i > N THEN <<>> ELSE piece[i] \o h[i + taken[i]]
           Begun == {k \in 0 .. N : \E h \in [1 .. N + 1 -> T] : Obeys(h, k)}
           u[i \in 1 .. N + 1] == IF i > N THEN <<>> ELSE piece[i] \o u[i + taken[i]]
<1>1. Rewritten(t, piece, taken) = u[1]
  BY DEF Rewritten
<1> HIDE DEF u
<1>2. N \in Nat /\ <<>> \in T /\ \A x, y \in T : x \o y \in T
  OBVIOUS
<1>3. \A i \in 1 .. N : piece[i] \in T /\ i + taken[i] \in i + 1 .. N + 1
  BY <1>2 DEF Pieces
<1> HIDE DEF N, T
<1>4. 0 \in Begun
  <2> DEFINE h == [i \in 1 .. N + 1 |-> <<>>]
  <2>1. h \in [1 .. N + 1 -> T]
    BY <1>2
  <2>2. \A i \in 1 .. N + 1 : i >= N + 1 - 0 => h[i] = <<>> /\ i > N
    BY <1>2
  <2>3. Obeys(h, 0)
    <3> HIDE DEF h
    <3> QED BY <2>2
  <2> HIDE DEF h, Obeys
  <2> QED BY <1>2, <2>1, <2>3
<1>5. ASSUME NEW k \in 0 .. N - 1, k \in Begun
      PROVE  k + 1 \in Begun
  <2>1. PICK h \in [1 .. N + 1 -> T] : Obeys(h, k)
    BY <1>5
  <2> DEFINE m == N - k
             g == [i \in 1 .. N + 1 |-> IF i = m THEN piece[m] \o h[m + taken[m]] ELSE h[i]]
  <2>2. m \in 1 .. N /\ m + taken[m] \in m + 1 .. N + 1 /\ piece[m] \in T
    BY <1>2, <1>3
  <2>3. g \in [1 .. N + 1 -> T]
    <3>1. h[m + taken[m]] \in T
      BY <1>2, <2>1, <2>2
    <3>2. piece[m] \o h[m + taken[m]] \in T
      BY <1>2, <2>2, <3>1
    <3> HIDE DEF m
    <3> QED BY <2>1, <3>2
  <2>4. ASSUME NEW i \in 1 .. N + 1, i >= N + 1 - (k + 1)
        PROVE  g[i] = IF i > N THEN <<>> ELSE piece[i] \o g[i + taken[i]]
    <3>1. i >= m /\ (i # m => i >= N + 1 - k)
      BY <1>2, <2>4
    <3>2. ~(i > N) => i + taken[i] \in 1 .. N + 1 /\ i + taken[i] # m /\ i + taken[i] > i
      BY <1>2, <1>3, <2>2, <3>1
    <3>3. CASE i = m
      <4>1. g[i + taken[i]] = h[i + taken[i]] /\ ~(i > N)
        BY <1>2, <2>2, <3>2, <3>3
      <4> QED BY <2>2, <3>3, <4>1
    <3>4. CASE i # m
      <4>1. g[i] = h[i] /\ h[i] = IF i > N THEN <<>> ELSE piece[i] \o h[i + taken[i]]
        BY <2>1, <3>1, <3>4
      <4>2. ~(i > N) => g[i + taken[i]] = h[i + taken[i]]
        BY <1>2, <3>2
      <4> QED BY <4>1, <4>2
    <3> QED BY <3>3, <3>4
  <2>5. Obeys(g, k + 1)
    BY <2>4
  <2>6. k + 1 \in 0 .. N
    BY <1>2
  <2> HIDE DEF g, Obeys
  <2> QED BY <2>3, <2>5, <2>6
<1>6. PICK v \in [1 .. N + 1 -> T] : Obeys(v, N)
  <2>1. N \in Begun
    <3> HIDE DEF Begun
    <3>1. \A n \in 0 .. N : n \in Begun
      BY <1>2, <1>4, <1>5, UpTo
    <3> QED BY <1>2, <3>1
  <2> HIDE DEF Obeys
  <2> QED BY <2>1
<1>7. v = [i \in 1 .. N + 1 |-> IF i > N THEN <<>> ELSE piece[i] \o v[i + taken[i]]]
  <2>1. \A i \in 1 .. N + 1 : v[i] = IF i > N THEN <<>> ELSE piece[i] \o v[i + taken[i]]
    <3>1. \A i \in 1 .. N + 1 : i >= N + 1 - N
      BY <1>2
    <3> QED BY <1>6, <3>1
  <2> QED BY <1>6, <2>1
<1> HIDE DEF Obeys, Begun
<1>8. u = [i \in 1 .. N + 1 |-> IF i > N THEN <<>> ELSE piece[i] \o u[i + taken[i]]]
  BY <1>7 DEF u
<1>9. u \in [1 .. N + 1 -> T]
  \* u is the same function as v: both obey the recursion, which reads what is behind.
  <2> DEFINE S == {n \in 0 .. N : \A i \in 1 .. N + 1 : i >= N + 1 - n => u[i] = v[i]}
  <2>1. 0 \in S
    <3>1. \A i \in 1 .. N + 1 : i >= N + 1 - 0 => i > N
      BY <1>2
    <3>2. \A i \in 1 .. N + 1 : i > N => u[i] = <<>> /\ v[i] = <<>>
      BY <1>7, <1>8
    <3> QED BY <1>2, <3>1, <3>2
  <2>2. ASSUME NEW n \in 0 .. N - 1, n \in S
        PROVE  n + 1 \in S
    <3>1. n + 1 \in 0 .. N
      BY <1>2
    <3>2. ASSUME NEW i \in 1 .. N + 1, i >= N + 1 - (n + 1) PROVE u[i] = v[i]
      <4>1. CASE i >= N + 1 - n
        BY <2>2, <4>1
      <4>2. CASE ~(i >= N + 1 - n)
        <5>1. i \in 1 .. N /\ ~(i > N) /\ i + taken[i] \in 1 .. N + 1 /\ i + taken[i] >= N + 1 - n
          BY <1>2, <1>3, <3>2, <4>2
        <5>2. u[i + taken[i]] = v[i + taken[i]]
          BY <2>2, <5>1
        <5>3. u[i] = piece[i] \o u[i + taken[i]] /\ v[i] = piece[i] \o v[i + taken[i]]
          BY <1>7, <1>8, <5>1
        <5> QED BY <5>2, <5>3
      <4> QED BY <4>1, <4>2
    <3> QED BY <3>1, <3>2
  <2> HIDE DEF S
  <2>3. \A n \in 0 .. N : n \in S
    BY <1>2, <2>1, <2>2, UpTo
  <2>4. \A i \in 1 .. N + 1 : u[i] = v[i]
    <3>1. N \in S
      BY <1>2, <2>3
    <3>2. \A i \in 1 .. N + 1 : i >= N + 1 - N
      BY <1>2
    <3> QED BY <3>1, <3>2 DEF S
  <2>5. u = [i \in 1 .. N + 1 |-> u[i]]
    BY <1>8
  <2>6. \A i \in 1 .. N + 1 : u[i] \in T
    BY <1>6, <2>4
  <2> QED BY <2>5, <2>6
<1>10. u[N + 1] = <<>>
  BY <1>2, <1>8
<1>11. \A i \in 1 .. N : u[i] = piece[i] \o u[i + taken[i]]
  <2>1. \A i \in 1 .. N : i \in 1 .. N + 1 /\ ~(i > N)
    BY <1>2
  <2> QED BY <1>8, <2>1
<1>12. Computes(u, t, piece, taken)
  BY <1>1, <1>9, <1>10, <1>11 DEF N, T, Computes
<1> QED BY <1>12

\* The same six bytes elsewhere.
SameSix(c, k, s, i) == k + 5 <= Len(c) /\ \A j \in 0 .. 5 : c[k + j] = s[i + j]

LEMMA CodeMoved ==
  ASSUME NEW s, NEW c, NEW i \in Int, NEW k \in Int, IsCode(s, i), SameSix(c, k, s, i)
  PROVE  IsCode(c, k)
<1>1. /\ c[k] = s[i] /\ c[k + 1] = s[i + 1] /\ c[k + 2] = s[i + 2]
      /\ c[k + 3] = s[i + 3] /\ c[k + 4] = s[i + 4] /\ c[k + 5] = s[i + 5]
  <2>1. k + 0 = k /\ i + 0 = i
    OBVIOUS
  <2> QED BY <2>1 DEF SameSix
<1>2. ASSUME NEW j \in k + 2 .. k + 5 PROVE c[j] \in Hexadecimal
  <2> DEFINE d == j - k
  <2>1. d \in 2 .. 5 /\ k + d = j
    <3>1. j \in Int /\ k + 2 <= j /\ j <= k + 5
      OBVIOUS
    <3> QED BY <3>1
  <2> HIDE DEF d
  <2>3. d \in 0 .. 5 /\ i + d \in i + 2 .. i + 5
    BY <2>1
  <2>2. c[k + d] = s[i + d] /\ s[i + d] \in Hexadecimal
    BY <2>3 DEF IsCode, SameSix
  <2> QED BY <2>1, <2>2
<1> QED BY <1>1, <1>2 DEF IsCode, Spells, SameSix

\* A text in front without a backslash.
LEMMA CodedAfter ==
  ASSUME NEW s \in Seq(Bytes), Coded(s), NEW p \in Seq(Bytes), \A j \in 1 .. Len(p) : p[j] # "\\"
  PROVE  Coded(p \o s)
<1> DEFINE c == p \o s  n == Len(p)
<1>1. /\ Len(c) = n + Len(s) /\ n \in Nat /\ Len(s) \in Nat
      /\ \A i \in 1 .. n : c[i] = p[i]
      /\ \A i \in 1 .. Len(s) : c[n + i] = s[i]
  OBVIOUS
<1> HIDE DEF c, n
<1>2. SUFFICES ASSUME NEW k \in 1 .. Len(c) - 1, c[k] = "\\"
               PROVE  IsCode(c, k)
  BY DEF Coded, c
<1> DEFINE i == k - n
<1>3. k \notin 1 .. n
  BY <1>1, <1>2 DEF n
<1>4. i \in 1 .. Len(s) - 1 /\ k = n + i
  BY <1>1, <1>3
<1> HIDE DEF i
<1>5. IsCode(s, i)
  <2>1. s[i] = "\\"
    BY <1>1, <1>2, <1>4
  <2> QED BY <1>4, <2>1 DEF Coded
<1>6. ASSUME NEW j \in 0 .. 5 PROVE c[k + j] = s[i + j]
  <2>1. i + j \in 1 .. Len(s) /\ k + j = n + (i + j)
    BY <1>1, <1>4, <1>5 DEF IsCode
  <2> QED BY <1>1, <2>1
<1>7. k + 5 <= Len(c) /\ i \in Int /\ k \in Int
  BY <1>1, <1>4, <1>5 DEF IsCode
<1>8. SameSix(c, k, s, i)
  BY <1>6, <1>7 DEF SameSix
<1> QED BY <1>5, <1>7, <1>8, CodeMoved

\* One byte more in front, and with it a \u that is coded.
LEMMA CodedMore ==
  ASSUME NEW s \in Seq(Bytes), Coded(s), NEW x \in Bytes, IsCode(<<x>> \o s, 1)
  PROVE  Coded(<<x>> \o s)
<1> DEFINE c == <<x>> \o s
<1>1. /\ Len(c) = Len(s) + 1 /\ Len(s) \in Nat
      /\ \A i \in 1 .. Len(s) : c[i + 1] = s[i]
  BY ConsFacts
<1> HIDE DEF c
<1>2. SUFFICES ASSUME NEW k \in 2 .. Len(c) - 1, c[k] = "\\"
               PROVE  IsCode(c, k)
  <2>1. \A k \in 1 .. Len(c) - 1 : k = 1 \/ k \in 2 .. Len(c) - 1
    BY <1>1
  <2> QED BY <2>1 DEF Coded, c
<1> DEFINE i == k - 1
<1>3. i \in 1 .. Len(s) - 1 /\ k = i + 1
  BY <1>1
<1> HIDE DEF i
<1>4. IsCode(s, i)
  <2>1. s[i] = "\\"
    BY <1>1, <1>2, <1>3
  <2> QED BY <1>3, <2>1 DEF Coded
<1>5. ASSUME NEW j \in 0 .. 5 PROVE c[k + j] = s[i + j]
  <2>1. i + j \in 1 .. Len(s) /\ k + j = (i + j) + 1
    BY <1>1, <1>3, <1>4 DEF IsCode
  <2> QED BY <1>1, <2>1
<1>6. k + 5 <= Len(c) /\ i \in Int /\ k \in Int
  BY <1>1, <1>3, <1>4 DEF IsCode
<1>7. SameSix(c, k, s, i)
  BY <1>5, <1>6 DEF SameSix
<1> QED BY <1>4, <1>6, <1>7, CodeMoved

\* What is left of a text with each \u coded, when the pieces put in hold no backslash
\* but the ones that stay.
LEMMA RewrittenCoded ==
  ASSUME NEW t \in Seq(Bytes), NEW piece, NEW taken, Pieces(t, piece, taken),
         \A i \in 1 .. Len(t) : t[i] # "\\" => piece[i] = <<t[i]>> /\ taken[i] = 1,
         \A i \in 1 .. Len(t) : t[i] = "\\" =>
           \/ \A j \in 1 .. Len(piece[i]) : piece[i][j] # "\\"
           \/ piece[i] = <<t[i]>> /\ taken[i] = 1 /\ (i = Len(t) \/ IsCode(t, i))
  PROVE  Rewritten(t, piece, taken) \in Seq(Bytes) /\ Coded(Rewritten(t, piece, taken))
<1> DEFINE N == Len(t)
<1>0. PICK u : Computes(u, t, piece, taken)
  BY RewrittenRun
<1>1. /\ u \in [1 .. N + 1 -> Seq(Bytes)]
      /\ Rewritten(t, piece, taken) = u[1] /\ u[N + 1] = <<>>
      /\ \A i \in 1 .. N : u[i] = piece[i] \o u[i + taken[i]]
  BY <1>0 DEF Computes
<1>2. N \in Nat /\ (\A i \in 1 .. N : t[i] \in Bytes) /\ \A i \in 1 .. N + 1 : u[i] \in Seq(Bytes)
  <2>1. N \in Nat /\ \A i \in 1 .. N : t[i] \in Bytes
    OBVIOUS
  <2> HIDE DEF N
  <2> QED BY <1>1, <2>1
<1> HIDE DEF N
<1>3. \A i \in 1 .. N + 1 : Len(u[i]) \in Nat
  BY <1>2
<1> DEFINE Left(i) == piece[i] = <<t[i]>> /\ taken[i] = 1
           Copies(i, m) == Len(u[i]) >= m /\ \A k \in 1 .. m : u[i][k] = t[i + k - 1]
<1>4. ASSUME NEW i \in 1 .. N, NEW j, j = i + 1, NEW m \in Nat, Left(i), Copies(j, m)
      PROVE  Copies(i, m + 1)
  <2>1. /\ Len(u[i]) = Len(u[j]) + 1 /\ u[i][1] = t[i] /\ Len(u[j]) \in Nat
        /\ \A k \in 2 .. Len(u[j]) + 1 : u[i][k] = u[j][k - 1]
    <3>1. u[i] = <<t[i]>> \o u[j]
      BY <1>1, <1>4
    <3>2. t[i] \in Bytes /\ u[j] \in Seq(Bytes)
      BY <1>2, <1>4
    <3> QED BY <3>1, <3>2, ConsFacts
  <2>2. ASSUME NEW k \in 1 .. m + 1 PROVE u[i][k] = t[i + k - 1]
    <3>1. CASE k = 1
      BY <2>1, <3>1
    <3>2. CASE k # 1
      <4>1. k \in 2 .. Len(u[j]) + 1 /\ k - 1 \in 1 .. m /\ j + (k - 1) - 1 = i + k - 1
        BY <1>4, <2>1, <3>2
      <4>2. u[j][k - 1] = t[j + (k - 1) - 1]
        BY <1>4, <4>1
      <4> QED BY <2>1, <4>1, <4>2
    <3> QED BY <3>1, <3>2
  <2> QED BY <1>4, <2>1, <2>2
<1>5. ASSUME NEW i \in 1 .. N, IsCode(t, i), Left(i)
      PROVE  IsCode(u[i], 1)
  <2> DEFINE i1 == i + 1  i2 == i + 2  i3 == i + 3  i4 == i + 4  i5 == i + 5  i6 == i + 6
  <2>1. /\ i1 \in 1 .. N /\ i2 \in 1 .. N /\ i3 \in 1 .. N /\ i4 \in 1 .. N /\ i5 \in 1 .. N
        /\ i6 \in 1 .. N + 1
    BY <1>2, <1>5 DEF IsCode, N
  <2>2. t[i1] = "u" /\ t[i2] \in Hexadecimal /\ t[i3] \in Hexadecimal /\ t[i4] \in Hexadecimal /\ t[i5] \in Hexadecimal
    <3>1. i2 \in i + 2 .. i + 5 /\ i3 \in i + 2 .. i + 5 /\ i4 \in i + 2 .. i + 5 /\ i5 \in i + 2 .. i + 5
      BY <1>2
    <3> QED BY <1>5, <3>1 DEF IsCode
  <2>3. i1 = i + 1 /\ i2 = i1 + 1 /\ i3 = i2 + 1 /\ i4 = i3 + 1 /\ i5 = i4 + 1 /\ i6 = i5 + 1
    BY <1>2
  <2> HIDE DEF i1, i2, i3, i4, i5, i6
  <2>4. Left(i1) /\ Left(i2) /\ Left(i3) /\ Left(i4) /\ Left(i5)
    BY <2>1, <2>2, SlashNoHex DEF N
  <2>5. Copies(i6, 0)
    BY <1>3, <2>1
  <2> HIDE DEF Copies, Left
  <2>6. Copies(i5, 0 + 1)
    BY <1>4, <2>1, <2>3, <2>4, <2>5
  <2>7. Copies(i4, (0 + 1) + 1)
    BY <1>4, <2>1, <2>3, <2>4, <2>6
  <2>8. Copies(i3, ((0 + 1) + 1) + 1)
    BY <1>4, <2>1, <2>3, <2>4, <2>7
  <2>9. Copies(i2, (((0 + 1) + 1) + 1) + 1)
    BY <1>4, <2>1, <2>3, <2>4, <2>8
  <2>10. Copies(i1, ((((0 + 1) + 1) + 1) + 1) + 1)
    BY <1>4, <2>1, <2>3, <2>4, <2>9
  <2>11. Copies(i, (((((0 + 1) + 1) + 1) + 1) + 1) + 1)
    BY <1>4, <1>5, <2>1, <2>3, <2>10
  <2>12. Len(u[i]) >= 6 /\ \A k \in 1 .. 6 : u[i][k] = t[i + k - 1]
    BY <2>11 DEF Copies
  <2>13. ASSUME NEW j \in 0 .. 5 PROVE u[i][1 + j] = t[i + j]
    <3>1. 1 + j \in 1 .. 6 /\ i + (1 + j) - 1 = i + j
      BY <1>2
    <3> QED BY <2>12, <3>1
  <2>14. 1 + 5 <= Len(u[i]) /\ i \in Int /\ 1 \in Int
    <3>1. i \in 1 .. N + 1
      BY <1>2
    <3>2. Len(u[i]) \in Nat
      BY <1>3, <3>1
    <3>3. 1 + 5 <= Len(u[i])
      BY <2>12, <3>2
    <3>4. i \in Int /\ 1 \in Int
      BY <1>2
    <3> QED BY <3>3, <3>4
  <2>15. SameSix(u[i], 1, t, i)
    BY <2>13, <2>14 DEF SameSix
  <2> QED BY <1>5, <2>14, <2>15, CodeMoved
<1> HIDE DEF Copies
<1> DEFINE S == {n \in 0 .. N : \A i \in 1 .. N + 1 : i >= N + 1 - n => Coded(u[i])}
<1>6. 0 \in S
  <2>1. \A i \in 1 .. N + 1 : i >= N + 1 - 0 => i = N + 1
    BY <1>2
  <2>2. Coded(<<>>)
    BY DEF Coded
  <2> QED BY <1>1, <1>2, <2>1, <2>2
<1>7. ASSUME NEW n \in 0 .. N - 1, n \in S
      PROVE  n + 1 \in S
  <2>1. n + 1 \in 0 .. N
    BY <1>2
  <2>2. ASSUME NEW i \in 1 .. N + 1, i >= N + 1 - (n + 1) PROVE Coded(u[i])
    <3>1. CASE i >= N + 1 - n
      BY <1>7, <3>1
    <3>2. CASE ~(i >= N + 1 - n)
      <4>6. i \in 1 .. N /\ i = N - n
        BY <1>2, <2>2, <3>2
      <4>7. /\ t[i] \in Bytes /\ piece[i] \in Seq(Bytes)
            /\ taken[i] \in Nat /\ taken[i] >= 1 /\ i + taken[i] <= N + 1
        BY <1>2, <4>6 DEF N, Pieces
      <4>1. /\ i \in 1 .. N /\ i + taken[i] \in 1 .. N + 1 /\ i + taken[i] >= N + 1 - n
            /\ t[i] \in Bytes /\ piece[i] \in Seq(Bytes)
        BY <1>2, <4>6, <4>7
      <4> DEFINE s == u[i + taken[i]]
      <4>2. s \in Seq(Bytes) /\ Coded(s) /\ u[i] = piece[i] \o s
        BY <1>1, <1>2, <1>7, <4>1
      <4> HIDE DEF s
      <4>3. CASE \A j \in 1 .. Len(piece[i]) : piece[i][j] # "\\"
        BY <4>1, <4>2, <4>3, CodedAfter
      <4>4. CASE t[i] # "\\"
        <5>1. piece[i] = <<t[i]>>
          BY <4>1, <4>4 DEF N
        <5>2. \A j \in 1 .. Len(piece[i]) : piece[i][j] # "\\"
          BY <4>4, <5>1
        <5> QED BY <4>3, <5>2
      <4>5. CASE t[i] = "\\" /\ Left(i) /\ (i = N \/ IsCode(t, i))
        <5>1. u[i] = <<t[i]>> \o s
          BY <4>2, <4>5
        <5>2. CASE i = N
          <6>1. s = <<>>
            BY <1>1, <4>5, <5>2 DEF s
          <6>2. u[i] = <<t[i]>>
            BY <4>1, <5>1, <6>1
          <6> QED BY <6>2 DEF Coded
        <5>3. CASE IsCode(t, i)
          <6>1. IsCode(u[i], 1)
            BY <1>5, <4>1, <4>5, <5>3
          <6> QED BY <4>1, <4>2, <5>1, <6>1, CodedMore
        <5> QED BY <4>5, <5>2, <5>3
      <4> QED BY <4>1, <4>3, <4>4, <4>5 DEF N
    <3> QED BY <3>1, <3>2
  <2> QED BY <2>1, <2>2
<1> HIDE DEF S
<1>8. \A n \in 0 .. N : n \in S
  BY <1>2, <1>6, <1>7, UpTo
<1>9. Coded(u[1])
  <2>1. N \in S /\ 1 \in 1 .. N + 1 /\ 1 >= N + 1 - N
    BY <1>2, <1>8
  <2> QED BY <2>1 DEF S
<1> QED BY <1>1, <1>2, <1>9

\* A fair text has no \u left over that was not checked by the lexer.
LEMMA UnescapedCoded ==
  ASSUME NEW t \in Seq(Bytes), Fair(t)
  PROVE  Unescaped(t) \in Seq(Bytes) /\ Coded(Unescaped(t))
<1> DEFINE N == Len(t)
           begins(i) == t[i] = "\\" /\ i < N /\ t[i + 1] \in Escapes
           piece == [i \in 1 .. N |-> IF ~begins(i) THEN <<t[i]>>
                                      ELSE IF t[i + 1] = "\\" THEN <<"\\">> ELSE <<"ctl">>]
           taken == [i \in 1 .. N |-> IF begins(i) THEN 2 ELSE 1]
<1>1. Unescaped(t) = Rewritten(t, piece, taken)
  BY DEF Unescaped
<1>2. N \in Nat /\ \A i \in 1 .. N : t[i] \in Bytes
  OBVIOUS
<1>3. \A x \in Bytes : <<x>> \in Seq(Bytes)
  OBVIOUS
<1>4. ASSUME NEW i \in 1 .. N
      PROVE  /\ piece[i] = IF ~begins(i) THEN <<t[i]>> ELSE IF t[i + 1] = "\\" THEN <<"\\">> ELSE <<"ctl">>
             /\ taken[i] = IF begins(i) THEN 2 ELSE 1
  OBVIOUS
<1> HIDE DEF piece, taken
<1>5. ASSUME NEW i \in 1 .. N
      PROVE  piece[i] \in Seq(Bytes) /\ taken[i] \in Nat /\ taken[i] >= 1 /\ i + taken[i] <= N + 1
  <2>1. begins(i) => i < N
    OBVIOUS
  <2> HIDE DEF begins, N
  <2>2. CASE begins(i)
    <3>1. taken[i] = 2 /\ piece[i] \in {<<"\\">>, <<"ctl">>}
      BY <1>4, <2>2
    <3>2. piece[i] \in Seq(Bytes)
      BY <1>3, <3>1, BytesIs
    <3> QED BY <1>2, <2>1, <2>2, <3>1, <3>2
  <2>3. CASE ~begins(i)
    <3>1. taken[i] = 1 /\ piece[i] = <<t[i]>>
      BY <1>4, <2>3
    <3> QED BY <1>2, <1>3, <3>1
  <2> QED BY <2>2, <2>3
<1>6. ASSUME NEW i \in 1 .. N, t[i] # "\\"
      PROVE  piece[i] = <<t[i]>> /\ taken[i] = 1
  BY <1>4, <1>6
<1>7. ASSUME NEW i \in 1 .. N, t[i] = "\\"
      PROVE  \/ \A j \in 1 .. Len(piece[i]) : piece[i][j] # "\\"
             \/ piece[i] = <<t[i]>> /\ taken[i] = 1 /\ (i = N \/ IsCode(t, i))
  <2>1. CASE i = N
    <3>1. ~(i < N)
      BY <1>2, <2>1
    <3> QED BY <1>4, <2>1, <3>1
  <2>2. CASE i # N
    <3>1. i \in 1 .. Len(t) - 1 /\ i < N
      BY <1>2, <2>2
    <3>2. t[i + 1] \in Escapes \ {"\\"} \/ IsCode(t, i)
      BY <1>7, <3>1 DEF Fair
    <3>3. CASE t[i + 1] \in Escapes \ {"\\"}
      <4>1. piece[i] = <<"ctl">>
        BY <1>4, <1>7, <3>1, <3>3
      <4> QED BY <4>1
    <3>4. CASE IsCode(t, i) /\ t[i + 1] \notin Escapes
      BY <1>4, <1>7, <3>4
    <3>5. IsCode(t, i) => t[i + 1] \notin Escapes
      BY DEF IsCode, Escapes
    <3> QED BY <3>2, <3>3, <3>4, <3>5
  <2> QED BY <2>1, <2>2
<1>8. Pieces(t, piece, taken)
  BY <1>5 DEF Pieces
<1> QED BY <1>1, <1>6, <1>7, <1>8, RewrittenCoded

\* The \u that replaceUnicode finds first.
LEMMA IndexEscIs ==
  ASSUME NEW s \in Seq(Bytes), Coded(s), Unicodes(s) # {}
  PROVE  /\ IndexEsc(s) \in 1 .. Len(s) - 1 /\ IsCode(s, IndexEsc(s))
         /\ Len(s) \in Nat /\ IndexEsc(s) + 5 <= Len(s)
<1> DEFINE U == Unicodes(s)  b == IndexEsc(s)
<1>1. Len(s) \in Nat /\ U \subseteq Nat
  BY DEF Unicodes
<1>2. \E b1 \in U : \A i \in U : b1 <= i
  BY <1>1, HasLeast
<1>3. b \in U
  BY <1>2 DEF IndexEsc
<1>4. b \in 1 .. Len(s) - 1 /\ s[b] = "\\"
  BY <1>3 DEF Unicodes
<1> HIDE DEF b
<1>5. IsCode(s, b)
  BY <1>4 DEF Coded
<1> QED BY <1>1, <1>4, <1>5 DEF IsCode, b

LEMMA CodedRuns ==
  ASSUME NEW s \in Seq(Bytes), Coded(s)
  PROVE  Stops(s) = "run"
<1>1. CASE Unicodes(s) = {}
  BY <1>1 DEF Stops
<1>2. CASE Unicodes(s) # {}
  <2> DEFINE b == IndexEsc(s)
  <2>1. b \in Int /\ Len(s) \in Nat /\ b + 5 <= Len(s) /\ \A j \in b + 2 .. b + 5 : s[j] \in Hexadecimal
    BY <1>2, IndexEscIs DEF IsCode
  <2>2. ~(b + 5 > Len(s))
    BY <2>1
  <2> QED BY <1>2, <2>1, <2>2 DEF Stops
<1> QED BY <1>1, <1>2

\* A replacement makes no new \u, since it puts in no backslash.
LEMMA ReplacedCoded ==
  ASSUME NEW s \in Seq(Bytes), Coded(s), Unicodes(s) # {}
  PROVE  Replaced(s) \in Seq(Bytes) /\ Coded(Replaced(s))
<1> DEFINE N == Len(s)
           b == IndexEsc(s)
           same == {i \in 1 .. N - 5 : SubSeq(s, i, i + 5) = SubSeq(s, b, b + 5)}
           new == BytesOf(ValueAt(s, b + 2))
           piece == [i \in 1 .. N |-> IF i \in same THEN new ELSE <<s[i]>>]
           taken == [i \in 1 .. N |-> IF i \in same THEN 6 ELSE 1]
<1>1. Replaced(s) = Rewritten(s, piece, taken)
  BY DEF Replaced
<1>2. N \in Nat /\ \A i \in 1 .. N : s[i] \in Bytes /\ <<s[i]>> \in Seq(Bytes)
  OBVIOUS
<1>3. b \in 1 .. N - 1 /\ IsCode(s, b) /\ b + 5 <= N
  BY IndexEscIs
<1>4. new \in Seq(Bytes) /\ \A j \in 1 .. Len(new) : new[j] # "\\"
  <2>1. b \in Int
    BY <1>3
  <2>2. ValueAt(s, b + 2) \in Nat /\ ValueAt(s, b + 2) # 92
    BY <1>3, <2>1, ValueIs
  <2> QED BY <2>2, BytesOfIs
<1> HIDE DEF new, b
<1>5. ASSUME NEW i \in same PROVE i \in 1 .. N - 5 /\ s[i] = "\\"
  <2>1. i \in 1 .. N - 5 /\ SubSeq(s, i, i + 5) = SubSeq(s, b, b + 5)
    OBVIOUS
  <2>2. SubSeq(s, i, i + 5)[1] = s[i] /\ SubSeq(s, b, b + 5)[1] = s[b]
    <3>1. \A k \in 1 .. N - 5 : SubSeq(s, k, k + 5)[1] = s[k]
      BY <1>2
    <3>2. b \in 1 .. N - 5
      BY <1>2, <1>3
    <3> QED BY <2>1, <3>1, <3>2
  <2> QED BY <1>3, <2>1, <2>2 DEF IsCode
<1> HIDE DEF same
<1>6. ASSUME NEW i \in 1 .. N
      PROVE  /\ piece[i] = IF i \in same THEN new ELSE <<s[i]>>
             /\ taken[i] = IF i \in same THEN 6 ELSE 1
  OBVIOUS
<1> HIDE DEF piece, taken
<1>7. ASSUME NEW i \in 1 .. N
      PROVE  piece[i] \in Seq(Bytes) /\ taken[i] \in Nat /\ taken[i] >= 1 /\ i + taken[i] <= N + 1
  <2> HIDE DEF N, new
  <2>1. CASE i \in same
    <3>1. taken[i] = 6 /\ piece[i] = new /\ i \in 1 .. N - 5
      BY <1>5, <1>6, <2>1
    <3> QED BY <1>2, <1>4, <3>1
  <2>2. CASE i \notin same
    <3>1. taken[i] = 1 /\ piece[i] = <<s[i]>>
      BY <1>6, <2>2
    <3> QED BY <1>2, <3>1
  <2> QED BY <2>1, <2>2
<1>8. ASSUME NEW i \in 1 .. N, s[i] # "\\"
      PROVE  piece[i] = <<s[i]>> /\ taken[i] = 1
  BY <1>5, <1>6, <1>8
<1>9. ASSUME NEW i \in 1 .. N, s[i] = "\\"
      PROVE  \/ \A j \in 1 .. Len(piece[i]) : piece[i][j] # "\\"
             \/ piece[i] = <<s[i]>> /\ taken[i] = 1 /\ (i = N \/ IsCode(s, i))
  <2>1. CASE i \in same
    BY <1>4, <1>6, <2>1
  <2>2. CASE i \notin same
    <3>1. i = N \/ i \in 1 .. Len(s) - 1
      BY <1>2
    <3> QED BY <1>6, <1>9, <2>2, <3>1 DEF Coded
  <2> QED BY <2>1, <2>2
<1>10. Pieces(s, piece, taken)
  BY <1>7 DEF Pieces
<1> QED BY <1>1, <1>8, <1>9, <1>10, RewrittenCoded

\* However often replaceUnicode looks again.
LEMMA CodedIsRun ==
  ASSUME NEW t \in Seq(Bytes), Coded(t)
  PROVE  ReplaceUnicode(t) = "run"
<1> DEFINE N == Len(t)
           again == [x \in Seq(Bytes) |-> IF Unicodes(x) = {} \/ Stops(x) # "run" THEN x ELSE Replaced(x)]
           s[k \in 0 .. N] == IF k = 0 THEN t ELSE again[s[k - 1]]
           D == {x \in Seq(Bytes) : Coded(x)}
           step == [k \in 1 .. N |-> again]
<1>1. ReplaceUnicode(t) = Stops(s[N])
  BY DEF ReplaceUnicode
<1>2. N \in Nat /\ t \in D
  OBVIOUS
<1>3. \A x \in D : again[x] \in D
  BY ReplacedCoded
<1> HIDE DEF again, D, N
<1>4. PICK g \in [0 .. N -> D] : Iterates(g, N, t, step)
  <2>1. Steps(step, N, D)
    BY <1>3 DEF Steps
  <2> HIDE DEF step
  <2> QED BY <1>2, <2>1, Recursion
<1>5. g = [k \in 0 .. N |-> IF k = 0 THEN t ELSE again[g[k - 1]]]
  <2>1. \A k \in 0 .. N : g[k] = IF k = 0 THEN t ELSE again[g[k - 1]]
    <3>1. \A k \in 0 .. N : k = 0 \/ k \in 1 .. N
      BY <1>2
    <3> QED BY <1>4, <3>1 DEF Iterates
  <2> QED BY <2>1
<1>6. s = [k \in 0 .. N |-> IF k = 0 THEN t ELSE again[s[k - 1]]]
  BY <1>5
<1> HIDE DEF s
<1>7. \A k \in 0 .. N : s[k] = g[k]
  <2> DEFINE S == {k \in 0 .. N : s[k] = g[k]}
  <2>1. 0 \in S
    BY <1>2, <1>5, <1>6
  <2>2. ASSUME NEW n \in 0 .. N - 1, n \in S
        PROVE  n + 1 \in S
    <3>1. n + 1 \in 0 .. N /\ n + 1 # 0 /\ (n + 1) - 1 = n
      BY <1>2
    <3>2. s[n + 1] = again[s[n]] /\ g[n + 1] = again[g[n]]
      BY <1>5, <1>6, <3>1
    <3> QED BY <2>2, <3>1, <3>2
  <2> HIDE DEF S
  <2>3. \A n \in 0 .. N : n \in S
    BY <1>2, <2>1, <2>2, UpTo
  <2> QED BY <2>3 DEF S
<1>8. s[N] \in D
  BY <1>2, <1>7
<1> QED BY <1>1, <1>8, CodedRuns DEF D

LEMMA FairIsRun ==
  ASSUME NEW t \in Seq(Bytes), Fair(t)
  PROVE  ReplaceUnicode(Unescaped(t)) = "run" /\ ReplaceUnicode(Unescaped(Stripped(t))) = "run"
BY StrippedIs, UnescapedCoded, CodedIsRun

\* A backslash before to is the last byte, or begins an escape that the lexer knows.
HexAt(i) == i + 3 <= Len(doc) /\ \A j \in i .. i + 3 : doc[j] \in Hexadecimal
EscapeAt(i) == i < Len(doc) /\ (doc[i + 1] \in Escapes \/ (doc[i + 1] = "u" /\ HexAt(i + 2)))
Escaped(from, to) == \A i \in from .. to - 1 : i <= Len(doc) /\ doc[i] = "\\" => EscapeAt(i)
Tame ==
  /\ ~Follows("\\", "\\") /\ ~Follows("\\", "nl")
  /\ ~\E i \in 1 .. Len(doc) - 5 : Spells(doc, i)

\* An item that does not stop the program, and what is in the channel.
Sound(item) ==
  /\ Tame /\ item.typ \in {"String", "MultilineString"} => item.text \in Seq(Bytes) /\ Fair(item.text)
  /\ item.typ = "Datetime" => Holds("Z")
Sent(items) == \E S : items \in Seq(S) /\ (items # <<>> => Sound(Head(items)))

\* The states inside strings. A state of Pending has read that many bytes of an escape.
Pending == [string |-> 0, multilineString |-> 0, stringEscape |-> 1, multilineStringEscape |-> 1,
            stringUnicode |-> 2, multilineStringUnicode |-> 2]
Raws == {"rawString", "multilineRawString"}
Strung == DOMAIN Pending \cup Raws

Based(l, p) ==
  /\ IsLexer(l) /\ l.stack \in Seq(Stacked) /\ Sent(l.items)
  /\ l.start \in Int /\ l.pos \in Int /\ l.pos >= p
Calm(l, p) == Based(l, p) /\ l.state \notin Strung \cup {"panic"}

\* Inside a string. Only a backup over a rune of three bytes can put pos before start,
\* and only in a multiline string, which begins after three quotes.
Quoting(l) ==
  /\ IsLexer(l) /\ l.stack \in Seq(Stacked) /\ Sent(l.items)
  /\ l.start \in Int /\ l.pos \in Int /\ l.start >= 1
  /\ ~Holds("three") => l.start <= l.pos
InText(l, d, kind) ==
  /\ Quoting(l)
  /\ IF kind = "many" THEN l.start >= 4 ELSE l.start + d <= l.pos
  /\ Tame => Escaped(l.start, l.pos - d)
  /\ d >= 1 => doc[l.pos - d] = "\\"
  /\ d = 2 => doc[l.pos - 1] = "u"

Kind(s) == IF s \in {"string", "stringEscape", "stringUnicode"} THEN "one" ELSE "many"

Placed(l) ==
  /\ l.state = "nil" => Sent(l.items)
  /\ l.state \in {"top", "keyStart"} => Calm(l, 1)
  /\ l.state \in DOMAIN Pending => InText(l, Pending[l.state], Kind(l.state))
  /\ l.state \in Raws => Quoting(l)
  /\ l.state \notin Strung \cup {"nil", "top", "keyStart"} => Calm(l, 2)

IsDoc == doc \in Seq(Bytes) /\ Whole(doc) /\ Len(doc) >= 1

-----------------------------------------------------------------------------
(* What the helpers of the lexer do to its positions.                      *)

At(m, start, pos, width, state, stack, items) ==
  /\ IsLexer(m) /\ m.start = start /\ m.pos = pos /\ m.width = width
  /\ m.state = state /\ m.stack = stack /\ m.items = items

LEMMA PutStart ==
  ASSUME NEW l, IsLexer(l), NEW x
  PROVE  At([l EXCEPT !.start = x], x, l.pos, l.width, l.state, l.stack, l.items)
BY DEF At, IsLexer

LEMMA PutPos ==
  ASSUME NEW l, IsLexer(l), NEW x
  PROVE  At([l EXCEPT !.pos = x], l.start, x, l.width, l.state, l.stack, l.items)
BY DEF At, IsLexer

LEMMA PutWidth ==
  ASSUME NEW l, IsLexer(l), NEW x
  PROVE  At([l EXCEPT !.width = x], l.start, l.pos, x, l.state, l.stack, l.items)
BY DEF At, IsLexer

LEMMA PutState ==
  ASSUME NEW l, IsLexer(l), NEW x
  PROVE  At([l EXCEPT !.state = x], l.start, l.pos, l.width, x, l.stack, l.items)
BY DEF At, IsLexer

LEMMA PutStack ==
  ASSUME NEW l, IsLexer(l), NEW x
  PROVE  At([l EXCEPT !.stack = x], l.start, l.pos, l.width, l.state, x, l.items)
BY DEF At, IsLexer

LEMMA PutItems ==
  ASSUME NEW l, IsLexer(l), NEW x
  PROVE  At([l EXCEPT !.items = x], l.start, l.pos, l.width, l.state, l.stack, x)
BY DEF At, IsLexer

LEMMA SimpleFields ==
  ASSUME NEW l, IsLexer(l)
  PROVE  /\ LET m == Ignore(l)
            IN  IsLexer(m) /\ m.start = l.pos /\ m.pos = l.pos /\ m.state = l.state
                /\ m.stack = l.stack /\ m.items = l.items
         /\ LET m == Backup(l)
            IN  IsLexer(m) /\ m.start = l.start /\ m.pos = l.pos - l.width /\ m.width = l.width
                /\ m.state = l.state /\ m.stack = l.stack /\ m.items = l.items
         /\ \A s : LET m == ToState(l, s)
                   IN  IsLexer(m) /\ m.start = l.start /\ m.pos = l.pos /\ m.state = s
                       /\ m.stack = l.stack /\ m.items = l.items
         /\ \A s : LET m == PushState(l, s)
                   IN  IsLexer(m) /\ m.start = l.start /\ m.pos = l.pos /\ m.state = l.state
                       /\ m.stack = <<s>> \o l.stack /\ m.items = l.items
<1>1. LET m == Ignore(l)
      IN  IsLexer(m) /\ m.start = l.pos /\ m.pos = l.pos /\ m.state = l.state
          /\ m.stack = l.stack /\ m.items = l.items
  BY PutStart DEF Ignore, At
<1>2. LET m == Backup(l)
      IN  IsLexer(m) /\ m.start = l.start /\ m.pos = l.pos - l.width /\ m.width = l.width
          /\ m.state = l.state /\ m.stack = l.stack /\ m.items = l.items
  BY PutPos DEF Backup, At
<1>3. \A s : LET m == ToState(l, s)
             IN  IsLexer(m) /\ m.start = l.start /\ m.pos = l.pos /\ m.state = s
                 /\ m.stack = l.stack /\ m.items = l.items
  BY PutState DEF ToState, At
<1>4. \A s : LET m == PushState(l, s)
             IN  IsLexer(m) /\ m.start = l.start /\ m.pos = l.pos /\ m.state = l.state
                 /\ m.stack = <<s>> \o l.stack /\ m.items = l.items
  BY PutStack DEF PushState, At
<1> QED BY <1>1, <1>2, <1>3, <1>4

LEMMA NextFields ==
  ASSUME IsDoc, NEW l, IsLexer(l), l.pos \in Int
  PROVE  LET n == NextRune(l)
         IN  /\ IsLexer(n) /\ n.start = l.start /\ n.state = l.state
             /\ n.stack = l.stack /\ n.items = l.items
             /\ n.width \in 0 .. 3 /\ n.pos = l.pos + n.width
             /\ l.pos <= Len(doc) => n.width >= 1
             /\ n.width > 1 => l.pos <= Len(doc) /\ doc[l.pos] \in {"two", "three"}
             /\ n.width > 2 => doc[l.pos] = "three"
             /\ Rune(l) \notin {"eof", "two", "three"} =>
                  n.width = 1 /\ l.pos <= Len(doc) /\ doc[l.pos] = Rune(l)
             /\ l.pos <= Len(doc) /\ doc[l.pos] # "nul" => Rune(l) = doc[l.pos]
<1> DEFINE w == IF l.pos > Len(doc) THEN 0
                ELSE IF doc[l.pos] \in DOMAIN Width THEN Width[doc[l.pos]] ELSE 1
           a == [l EXCEPT !.width = w]
           n == NextRune(l)
<1>1. n = [a EXCEPT !.pos = l.pos + w]
  <2>1. n = [l EXCEPT !.width = w, !.pos = l.pos + w]
    BY DEF NextRune
  <2> HIDE DEF n, w
  <2> QED BY <2>1, Twice
<1>2. Len(doc) \in Nat
  BY DEF IsDoc
<1>3. /\ w \in 0 .. 3 /\ (l.pos <= Len(doc) => w >= 1)
      /\ w > 1 => l.pos <= Len(doc) /\ doc[l.pos] \in {"two", "three"}
      /\ w > 2 => doc[l.pos] = "three"
      /\ Rune(l) \notin {"eof", "two", "three"} => w = 1 /\ l.pos <= Len(doc) /\ doc[l.pos] = Rune(l)
      /\ l.pos <= Len(doc) /\ doc[l.pos] # "nul" => Rune(l) = doc[l.pos]
  <2>1. DOMAIN Width = {"two", "three"} /\ Width["two"] = 2 /\ Width["three"] = 3
    BY DEF Width
  <2> QED BY <1>2, <2>1 DEF Rune
<1> HIDE DEF w
<1>4. IsLexer(a) /\ a.start = l.start /\ a.pos = l.pos /\ a.width = w /\ a.state = l.state
      /\ a.stack = l.stack /\ a.items = l.items
  BY PutWidth DEF At
<1> HIDE DEF a
<1>5. IsLexer(n) /\ n.start = l.start /\ n.pos = l.pos + w /\ n.width = w /\ n.state = l.state
      /\ n.stack = l.stack /\ n.items = l.items
  BY <1>1, <1>4, PutPos DEF At
<1> HIDE DEF n
<1> QED BY <1>3, <1>5 DEF n

LEMMA SkipFields ==
  ASSUME NEW l, IsLexer(l), NEW k
  PROVE  LET m == Skip(l, k)
         IN  /\ IsLexer(m) /\ m.start = l.start /\ m.state = l.state
             /\ m.stack = l.stack /\ m.items = l.items /\ m.pos = l.pos + k
<1> DEFINE a == [l EXCEPT !.pos = l.pos + k]
           m == Skip(l, k)
<1>1. m = [a EXCEPT !.width = 1]
  <2>1. m = [l EXCEPT !.pos = l.pos + k, !.width = 1]
    BY DEF Skip
  <2> HIDE DEF m
  <2> QED BY <2>1, Twice
<1>2. IsLexer(a) /\ a.start = l.start /\ a.pos = l.pos + k /\ a.state = l.state
      /\ a.stack = l.stack /\ a.items = l.items
  BY PutPos DEF At
<1> HIDE DEF a
<1>3. IsLexer(m) /\ m.start = l.start /\ m.pos = l.pos + k /\ m.state = l.state
      /\ m.stack = l.stack /\ m.items = l.items
  BY <1>1, <1>2, PutWidth DEF At
<1> HIDE DEF m
<1> QED BY <1>3 DEF m

\* One item more in the channel does not change the first.
LEMMA SentMore ==
  ASSUME NEW items, Sent(items), NEW x, Sound(x)
  PROVE  Sent(Append(items, x))
<1>1. PICK S : items \in Seq(S) /\ (items # <<>> => Sound(Head(items)))
  BY DEF Sent
<1> DEFINE T == S \cup {x}
           a == Append(items, x)
<1>2. a \in Seq(T) /\ Len(a) = Len(items) + 1 /\ Len(items) \in Nat
      /\ a[Len(items) + 1] = x /\ \A i \in 1 .. Len(items) : a[i] = items[i]
  BY <1>1
<1>3. Head(a) = a[1] /\ (items # <<>> => Head(items) = items[1] /\ Len(items) >= 1)
      /\ (items = <<>> => Len(items) = 0)
  <2> HIDE DEF T
  <2>1. a # <<>>
    <3> HIDE DEF a
    <3> QED BY <1>2
  <2> HIDE DEF a
  <2> QED BY <1>1, <1>2, <2>1
<1> HIDE DEF a, T
<1>4. Sound(Head(a))
  <2>1. CASE items = <<>>
    BY <1>2, <1>3, <2>1
  <2>2. CASE items # <<>>
    BY <1>1, <1>2, <1>3, <2>2
  <2> QED BY <2>1, <2>2
<1>5. a \in Seq(T) /\ (a # <<>> => Sound(Head(a)))
  BY <1>2, <1>4
<1>6. Sent(a)
  BY <1>5 DEF Sent
<1> QED BY <1>6 DEF a

LEMMA EmitFields ==
  ASSUME NEW l, IsLexer(l), NEW typ
  PROVE  LET m == Emit(l, typ)
         IN  /\ IsLexer(m) /\ m.start = l.pos /\ m.pos = l.pos /\ m.state = l.state
             /\ m.stack = l.stack
             /\ m.items = Append(l.items, [typ |-> typ, text |-> SubSeq(doc, l.start, l.pos - 1)])
<1> DEFINE x == Append(l.items, [typ |-> typ, text |-> SubSeq(doc, l.start, l.pos - 1)])
           a == [l EXCEPT !.items = x]
<1>1. Emit(l, typ) = [a EXCEPT !.start = a.pos]
  BY DEF Emit, Ignore
<1> HIDE DEF x
<1>2. IsLexer(a) /\ a.start = l.start /\ a.pos = l.pos /\ a.state = l.state
      /\ a.stack = l.stack /\ a.items = x
  BY PutItems DEF At
<1> HIDE DEF a
<1> DEFINE m == Emit(l, typ)
<1>3. IsLexer(m) /\ m.start = l.pos /\ m.pos = l.pos /\ m.state = l.state
      /\ m.stack = l.stack /\ m.items = x
  BY <1>1, <1>2, PutStart DEF At
<1> HIDE DEF m
<1> QED BY <1>3 DEF m, x

LEMMA ErrorFields ==
  ASSUME NEW l, IsLexer(l)
  PROVE  LET m == Errorf(l)
         IN  /\ IsLexer(m) /\ m.start = l.start /\ m.pos = l.pos /\ m.state = "nil"
             /\ m.stack = l.stack
             /\ m.items = Append(l.items, [typ |-> "Error", text |-> <<>>])
<1> DEFINE x == Append(l.items, [typ |-> "Error", text |-> <<>>])
           a == [l EXCEPT !.items = x]
           m == Errorf(l)
<1>1. m = [a EXCEPT !.state = "nil"]
  <2>1. m = [l EXCEPT !.items = x, !.state = "nil"]
    BY DEF Errorf
  <2> HIDE DEF m, x
  <2> QED BY <2>1, Twice
<1> HIDE DEF x
<1>2. IsLexer(a) /\ a.start = l.start /\ a.pos = l.pos /\ a.state = l.state
      /\ a.stack = l.stack /\ a.items = x
  BY PutItems DEF At
<1> HIDE DEF a
<1>3. IsLexer(m) /\ m.start = l.start /\ m.pos = l.pos /\ m.state = "nil"
      /\ m.stack = l.stack /\ m.items = x
  BY <1>1, <1>2, PutState DEF At
<1> HIDE DEF m
<1> QED BY <1>3 DEF m, x

LEMMA PopFields ==
  ASSUME NEW l, IsLexer(l), l.stack \in Seq(Stacked)
  PROVE  LET m == PopState(l)
         IN  /\ IsLexer(m) /\ m.start = l.start /\ m.pos = l.pos /\ m.state \in Stacked \cup {"nil"}
             /\ m.stack \in Seq(Stacked)
             /\ \/ m.items = l.items
                \/ m.items = Append(l.items, [typ |-> "Error", text |-> <<>>])
<1> DEFINE m == PopState(l)
<1>1. CASE l.stack = <<>>
  <2>1. m = Errorf(l)
    BY <1>1 DEF PopState
  <2> HIDE DEF m
  <2>2. /\ IsLexer(m) /\ m.start = l.start /\ m.pos = l.pos /\ m.state = "nil"
        /\ m.stack = l.stack
        /\ m.items = Append(l.items, [typ |-> "Error", text |-> <<>>])
    BY <2>1, ErrorFields
  <2> QED BY <2>2 DEF m
<1>2. CASE l.stack # <<>>
  <2> DEFINE h == Head(l.stack)
             t == Tail(l.stack)
             a == [l EXCEPT !.state = h]
  <2>1. m = [a EXCEPT !.stack = t]
    <3>1. m = [l EXCEPT !.state = h, !.stack = t]
      BY <1>2 DEF PopState
    <3> HIDE DEF m, h, t
    <3> QED BY <3>1, Twice
  <2>2. h \in Stacked /\ t \in Seq(Stacked)
    BY <1>2, RestFacts
  <2> HIDE DEF h, t
  <2>3. IsLexer(a) /\ a.start = l.start /\ a.pos = l.pos /\ a.state = h
        /\ a.items = l.items
    BY PutState DEF At
  <2> HIDE DEF a, m
  <2>4. IsLexer(m) /\ m.start = l.start /\ m.pos = l.pos /\ m.state = h
        /\ m.stack = t /\ m.items = l.items
    BY <2>1, <2>3, PutStack DEF At
  <2> QED BY <2>2, <2>4 DEF m
<1> QED BY <1>1, <1>2

-----------------------------------------------------------------------------
(* Outside strings: what the helpers keep.                                 *)

LEMMA StatesIs ==
  /\ DOMAIN Pending = {"string", "multilineString", "stringEscape", "multilineStringEscape",
                       "stringUnicode", "multilineStringUnicode"}
  /\ Strung = {"string", "multilineString", "stringEscape", "multilineStringEscape",
               "stringUnicode", "multilineStringUnicode", "rawString", "multilineRawString"}
  /\ Pending["string"] = 0 /\ Pending["multilineString"] = 0
  /\ Pending["stringEscape"] = 1 /\ Pending["multilineStringEscape"] = 1
  /\ Pending["stringUnicode"] = 2 /\ Pending["multilineStringUnicode"] = 2
  /\ \A s \in Stacked \cup {"nil"} : s \notin Strung \cup {"panic"}
<1>1. DOMAIN Pending = {"string", "multilineString", "stringEscape", "multilineStringEscape",
                        "stringUnicode", "multilineStringUnicode"}
  BY DEF Pending
<1>2. Strung = {"string", "multilineString", "stringEscape", "multilineStringEscape",
                "stringUnicode", "multilineStringUnicode", "rawString", "multilineRawString"}
  BY <1>1 DEF Strung, Raws
<1>3. /\ Pending["string"] = 0 /\ Pending["multilineString"] = 0
      /\ Pending["stringEscape"] = 1 /\ Pending["multilineStringEscape"] = 1
      /\ Pending["stringUnicode"] = 2 /\ Pending["multilineStringUnicode"] = 2
  BY DEF Pending
<1>4. \A s \in Stacked \cup {"nil"} : s \notin Strung \cup {"panic"}
  BY <1>2 DEF Stacked
<1> QED BY <1>1, <1>2, <1>3, <1>4

Quiet == {"EOF", "ArrayTableStart", "ArrayTableEnd", "TableStart", "TableEnd", "Text", "KeyStart",
          "CommentStart", "Array", "ArrayEnd", "Bool", "Integer", "Float"}

LEMMA QuietSound ==
  /\ \A k \in Quiet : \A t : Sound([typ |-> k, text |-> t])
  /\ Sound([typ |-> "Error", text |-> <<>>])
<1>1. \A k \in Quiet \cup {"Error", "RawString", "RawMultilineString"} : \A t :
        Sound([typ |-> k, text |-> t])
  BY DEF Quiet, Sound
<1> QED BY <1>1

LEMMA BasedMoves ==
  ASSUME IsDoc, NEW p \in {1, 2}, NEW l, Based(l, p)
  PROVE  /\ Based(Ignore(l), p) /\ Based(Errorf(l), p) /\ Based(NextRune(l), 2)
         /\ \A s : Based(ToState(l, s), p)
         /\ \A s \in Stacked : Based(PushState(l, s), p)
         /\ \A n \in Nat : Based(Skip(l, n), p)
         /\ \A k : Sound([typ |-> k, text |-> SubSeq(doc, l.start, l.pos - 1)]) => Based(Emit(l, k), p)
         /\ Based(Backup(NextRune(l)), p)
         /\ Calm(PopState(l), p)
<1>1. IsLexer(l) /\ l.stack \in Seq(Stacked) /\ Sent(l.items) /\ l.start \in Int /\ l.pos \in Int
      /\ l.pos >= p
  BY DEF Based
<1>2. Sent(Append(l.items, [typ |-> "Error", text |-> <<>>]))
  BY <1>1, SentMore, QuietSound
<1>3. Based(Ignore(l), p) /\ \A s : Based(ToState(l, s), p)
  BY <1>1, SimpleFields DEF Based
<1>4. Based(Errorf(l), p)
  BY <1>1, <1>2, ErrorFields DEF Based
<1>5. Based(NextRune(l), 2) /\ Based(Backup(NextRune(l)), p)
  <2> DEFINE n == NextRune(l)
             b == Backup(n)
  <2>1. /\ IsLexer(n) /\ n.start = l.start /\ n.stack = l.stack /\ n.items = l.items
        /\ n.width \in 0 .. 3 /\ n.pos = l.pos + n.width /\ (l.pos <= Len(doc) => n.width >= 1)
    BY <1>1, NextFields
  <2> HIDE DEF n
  <2>2. /\ IsLexer(b) /\ b.start = n.start /\ b.pos = n.pos - n.width /\ b.stack = n.stack
        /\ b.items = n.items
    BY <2>1, SimpleFields
  <2> HIDE DEF b
  <2>3. n.pos >= 2 /\ n.pos \in Int /\ b.pos = l.pos
    BY <1>1, <2>1, <2>2 DEF IsDoc
  <2>4. Based(n, 2) /\ Based(b, p)
    BY <1>1, <2>1, <2>2, <2>3 DEF Based
  <2> QED BY <2>4 DEF n, b
<1>6. ASSUME NEW s \in Stacked PROVE Based(PushState(l, s), p)
  <2>1. <<s>> \o l.stack \in Seq(Stacked)
    BY <1>1
  <2> DEFINE m == PushState(l, s)
  <2>2. IsLexer(m) /\ m.start = l.start /\ m.pos = l.pos /\ m.stack = <<s>> \o l.stack /\ m.items = l.items
    BY <1>1, SimpleFields
  <2> HIDE DEF m
  <2>3. Based(m, p)
    BY <1>1, <2>1, <2>2 DEF Based
  <2> QED BY <2>3 DEF m
<1>7. ASSUME NEW n \in Nat PROVE Based(Skip(l, n), p)
  <2> DEFINE m == Skip(l, n)
  <2>1. IsLexer(m) /\ m.start = l.start /\ m.stack = l.stack /\ m.items = l.items /\ m.pos = l.pos + n
    BY <1>1, SkipFields
  <2> HIDE DEF m
  <2>2. Based(m, p)
    BY <1>1, <2>1 DEF Based
  <2> QED BY <2>2 DEF m
<1>8. ASSUME NEW k, Sound([typ |-> k, text |-> SubSeq(doc, l.start, l.pos - 1)]) PROVE Based(Emit(l, k), p)
  <2>1. Sent(Append(l.items, [typ |-> k, text |-> SubSeq(doc, l.start, l.pos - 1)]))
    BY <1>1, <1>8, SentMore
  <2> QED BY <1>1, <2>1, EmitFields DEF Based
<1>9. Calm(PopState(l), p)
  <2> DEFINE m == PopState(l)
  <2>1. /\ IsLexer(m) /\ m.start = l.start /\ m.pos = l.pos /\ m.state \in Stacked \cup {"nil"}
        /\ m.stack \in Seq(Stacked)
        /\ \/ m.items = l.items
           \/ m.items = Append(l.items, [typ |-> "Error", text |-> <<>>])
    BY <1>1, PopFields
  <2> HIDE DEF m
  <2>2. Based(m, p) /\ m.state \notin Strung \cup {"panic"}
    BY <1>1, <1>2, <2>1, StatesIs DEF Based
  <2> QED BY <2>2 DEF Calm, m
<1> QED BY <1>3, <1>4, <1>5, <1>6, <1>7, <1>8, <1>9

LEMMA CalmMoves ==
  ASSUME IsDoc, NEW p \in {1, 2}, NEW l, Calm(l, p)
  PROVE  /\ Calm(Ignore(l), p) /\ Calm(Errorf(l), p) /\ Calm(NextRune(l), 2)
         /\ \A s : s \notin Strung \cup {"panic"} => Calm(ToState(l, s), p)
         /\ \A s \in Stacked : Calm(PushState(l, s), p)
         /\ \A n \in Nat : Calm(Skip(l, n), p)
         /\ \A k \in Quiet : Calm(Emit(l, k), p) /\ Calm(EmitPop(l, k), p)
         /\ Calm(Backup(NextRune(l)), p) /\ Calm(PopState(l), p)
<1>1. Based(l, p) /\ IsLexer(l) /\ l.state \notin Strung \cup {"panic"} /\ l.stack \in Seq(Stacked)
      /\ l.pos \in Int
  BY DEF Calm, Based
<1>2. Ignore(l).state = l.state /\ (\A s : ToState(l, s).state = s) /\ \A s : PushState(l, s).state = l.state
  BY <1>1, SimpleFields
<1>3. Errorf(l).state = "nil"
  BY <1>1, ErrorFields
<1>4. NextRune(l).state = l.state /\ IsLexer(NextRune(l))
  BY <1>1, NextFields
<1>5. Backup(NextRune(l)).state = l.state
  BY <1>4, SimpleFields
<1>6. \A n : Skip(l, n).state = l.state
  BY <1>1, SkipFields
<1>7. \A k : Emit(l, k).state = l.state
  BY <1>1, EmitFields
<1>8. "nil" \notin Strung \cup {"panic"}
  BY StatesIs
<1>9. ASSUME NEW k \in Quiet PROVE Calm(Emit(l, k), p) /\ Calm(EmitPop(l, k), p)
  <2>1. Based(Emit(l, k), p)
    BY <1>1, QuietSound, BasedMoves
  <2>2. Calm(PopState(Emit(l, k)), p)
    BY <2>1, BasedMoves
  <2> QED BY <1>1, <1>7, <2>1, <2>2 DEF Calm, EmitPop
<1>10. /\ Calm(Ignore(l), p) /\ Calm(Errorf(l), p) /\ Calm(NextRune(l), 2)
       /\ Calm(Backup(NextRune(l)), p) /\ Calm(PopState(l), p)
  BY <1>1, <1>2, <1>3, <1>4, <1>5, <1>8, BasedMoves DEF Calm
<1>11. /\ \A s : s \notin Strung \cup {"panic"} => Calm(ToState(l, s), p)
       /\ \A s \in Stacked : Calm(PushState(l, s), p)
       /\ \A n \in Nat : Calm(Skip(l, n), p)
  BY <1>1, <1>2, <1>6, BasedMoves DEF Calm
<1> QED BY <1>9, <1>10, <1>11

\* The states outside strings.
Loose == {"top", "topEnd", "tableStart", "tableEnd", "arrayTableEnd", "tableNameStart", "tableName",
          "keyStart", "key", "keyEnd", "commentStart", "comment", "value", "arrayValue",
          "arrayValueEnd", "true", "false", "numberOrDateStart", "numberOrDate", "dateAfterYear",
          "numberStart", "number", "floatStart", "float", "nil"}

\* CalmMoves for what a state function uses most.
LEMMA LooseMoves ==
  ASSUME IsDoc, NEW p \in {1, 2}, NEW l, Calm(l, p)
  PROVE  /\ Calm(Ignore(l), p) /\ Calm(Errorf(l), p) /\ Calm(PopState(l), p) /\ Calm(NextRune(l), 2)
         /\ \A s \in Loose : Calm(ToState(l, s), p)
         /\ \A k \in Quiet : Calm(Emit(l, k), p) /\ Calm(EmitPop(l, k), p)
         /\ \A t \in Stacked : Calm(PushState(l, t), p)
<1>1. \A s \in Loose : s \notin Strung \cup {"panic"}
  BY StatesIs DEF Loose
<1> QED BY <1>1, CalmMoves

LEMMA PushCalm ==
  ASSUME IsDoc, NEW p \in {1, 2}, NEW l, Calm(l, p), NEW t \in Stacked, NEW s \in Loose
  PROVE  Calm(ToState(PushState(l, t), s), p)
BY LooseMoves

LEMMA SendCalm ==
  ASSUME IsDoc, NEW p \in {1, 2}, NEW l, Calm(l, p), NEW k \in Quiet, NEW s \in Loose
  PROVE  Calm(ToState(Emit(l, k), s), p)
BY LooseMoves

LEMMA QuietTables ==
  ASSUME IsDoc, NEW l, Calm(l, 2), NEW r
  PROVE  LET n == NextRune(l)
         IN  /\ Calm(LexTopEnd(l, r, n), 2) /\ Calm(LexTableStart(l, r, n), 2)
             /\ Calm(ToState(Emit(l, "TableEnd"), "topEnd"), 2)
             /\ Calm(LexArrayTableEnd(l, r, n), 2)
             /\ Calm(LexTableNameStart(l, r, n), 2) /\ Calm(LexTableName(l, r, n), 2)
<1> DEFINE n == NextRune(l)
<1>1. Calm(n, 2)
  BY LooseMoves
<1> HIDE DEF n
<1>2. /\ \A t \in {"top", "tableEnd", "arrayTableEnd"} : t \in Stacked
      /\ \A s \in {"commentStart", "top", "topEnd", "tableNameStart", "tableName"} : s \in Loose
      /\ \A k \in {"ArrayTableStart", "TableStart", "TableEnd", "ArrayTableEnd", "Text"} : k \in Quiet
  BY DEF Stacked, Loose, Quiet
<1>3. Calm(LexTopEnd(l, r, n), 2)
  <2>1. Calm(ToState(PushState(n, "top"), "commentStart"), 2)
    BY <1>1, <1>2, PushCalm
  <2>2. Calm(ToState(Ignore(n), "top"), 2) /\ Calm(Errorf(n), 2)
    BY <1>1, <1>2, LooseMoves
  <2> QED BY <1>1, <2>1, <2>2 DEF LexTopEnd
<1>4. Calm(LexTableStart(l, r, n), 2)
  <2>1. Calm(Emit(n, "ArrayTableStart"), 2) /\ Calm(Emit(l, "TableStart"), 2)
    BY <1>1, <1>2, LooseMoves
  <2>2. /\ Calm(ToState(PushState(Emit(n, "ArrayTableStart"), "arrayTableEnd"), "tableNameStart"), 2)
        /\ Calm(ToState(PushState(Emit(l, "TableStart"), "tableEnd"), "tableNameStart"), 2)
    BY <1>2, <2>1, PushCalm
  <2> QED BY <2>2 DEF LexTableStart
<1>5. Calm(ToState(Emit(l, "TableEnd"), "topEnd"), 2) /\ Calm(LexArrayTableEnd(l, r, n), 2)
  BY <1>1, <1>2, SendCalm, LooseMoves DEF LexArrayTableEnd
<1>6. Calm(LexTableNameStart(l, r, n), 2)
  BY <1>1, <1>2, LooseMoves DEF LexTableNameStart
<1>7. Calm(LexTableName(l, r, n), 2)
  <2>1. Calm(NextRune(Emit(l, "Text")), 2)
    BY <1>2, LooseMoves
  <2>2. /\ Calm(PopState(NextRune(Emit(l, "Text"))), 2) /\ Calm(Errorf(l), 2)
        /\ Calm(ToState(Ignore(NextRune(Emit(l, "Text"))), "tableNameStart"), 2)
    BY <1>2, <2>1, LooseMoves
  <2> QED BY <1>1, <2>2 DEF LexTableName
<1> QED BY <1>3, <1>4, <1>5, <1>6, <1>7 DEF n

LEMMA QuietKeys ==
  ASSUME IsDoc, NEW l, Calm(l, 2), NEW r
  PROVE  LET n == NextRune(l)
         IN  /\ Calm(LexKey(l, r, n), 2) /\ Calm(LexKeyEnd(l, r, n), 2)
             /\ Calm(LexCommentStart(l, r, n), 2) /\ Calm(LexComment(l, r, n), 2)
<1> DEFINE n == NextRune(l)
<1>1. Calm(n, 2)
  BY LooseMoves
<1> HIDE DEF n
<1>2. /\ \A s \in {"keyEnd", "value", "comment"} : s \in Loose
      /\ \A k \in {"CommentStart", "Text"} : k \in Quiet
  BY DEF Loose, Quiet
<1>3. Calm(LexKey(l, r, n), 2)
  BY <1>1, <1>2, SendCalm, LooseMoves DEF LexKey
<1>4. Calm(LexKeyEnd(l, r, n), 2)
  BY <1>1, <1>2, LooseMoves DEF LexKeyEnd
<1>5. Calm(LexCommentStart(l, r, n), 2)
  <2>1. Calm(Ignore(l), 2)
    BY LooseMoves
  <2> QED BY <1>2, <2>1, SendCalm DEF LexCommentStart
<1>6. Calm(LexComment(l, r, n), 2)
  BY <1>1, <1>2, LooseMoves DEF LexComment
<1> QED BY <1>3, <1>4, <1>5, <1>6 DEF n

\* top and keyStart may be where the document begins.
LEMMA QuietTop ==
  ASSUME IsDoc, NEW l, Calm(l, 1), NEW r
  PROVE  LET n == NextRune(l)
         IN  /\ LET m == LexTop(l, r, n) IN Calm(m, 2) \/ (Calm(m, 1) /\ m.state = "keyStart")
             /\ LET m == LexKeyStart(l, r, n) IN Calm(m, 2) \/ (Calm(m, 1) /\ m.state = "nil")
<1> DEFINE n == NextRune(l)
           b == Backup(n)
<1>1. Calm(n, 2) /\ Calm(b, 1)
  BY LooseMoves, CalmMoves
<1> HIDE DEF n, b
<1>2. /\ \A t \in {"top", "topEnd"} : t \in Stacked
      /\ \A s \in {"commentStart", "tableStart", "nil", "keyStart", "key"} : s \in Loose
      /\ \A k \in {"EOF", "KeyStart"} : k \in Quiet
  BY DEF Stacked, Loose, Quiet
<1>3. LET m == LexTop(l, r, n) IN Calm(m, 2) \/ (Calm(m, 1) /\ m.state = "keyStart")
  <2>1. /\ Calm(Ignore(n), 2) /\ Calm(ToState(n, "tableStart"), 2) /\ Calm(Errorf(n), 2)
        /\ Calm(ToState(PushState(n, "top"), "commentStart"), 2)
        /\ Calm(ToState(Emit(n, "EOF"), "nil"), 2)
    BY <1>1, <1>2, LooseMoves, PushCalm, SendCalm
  <2> DEFINE m == ToState(PushState(b, "topEnd"), "keyStart")
  <2>2. Calm(m, 1) /\ m.state = "keyStart"
    <3>1. Calm(PushState(b, "topEnd"), 1)
      BY <1>1, <1>2, LooseMoves
    <3>2. Calm(m, 1)
      BY <1>1, <1>2, PushCalm
    <3> DEFINE q == PushState(b, "topEnd")
    <3>3. IsLexer(q)
      BY <3>1 DEF Calm, Based
    <3> HIDE DEF q
    <3>4. ToState(q, "keyStart").state = "keyStart"
      BY <3>3, PutState DEF ToState, At
    <3> QED BY <3>2, <3>4 DEF q
  <2> HIDE DEF m
  <2> QED BY <2>1, <2>2 DEF LexTop, m, b
<1>4. LET m == LexKeyStart(l, r, n) IN Calm(m, 2) \/ (Calm(m, 1) /\ m.state = "nil")
  <2>1. Calm(Errorf(l), 1) /\ Errorf(l).state = "nil"
    BY LooseMoves, ErrorFields DEF Calm, Based
  <2>2. Calm(Ignore(n), 2)
    BY <1>1, LooseMoves
  <2>3. Calm(ToState(NextRune(Emit(Ignore(l), "KeyStart")), "key"), 2)
    <3>1. Calm(Ignore(l), 1)
      BY LooseMoves
    <3>2. Calm(Emit(Ignore(l), "KeyStart"), 1)
      BY <1>2, <3>1, LooseMoves
    <3>3. Calm(NextRune(Emit(Ignore(l), "KeyStart")), 2)
      BY <3>2, LooseMoves
    <3> QED BY <1>2, <3>3, LooseMoves
  <2> QED BY <2>1, <2>2, <2>3 DEF LexKeyStart
<1> QED BY <1>3, <1>4 DEF n

LEMMA QuietArrays ==
  ASSUME IsDoc, NEW l, Calm(l, 2), NEW r
  PROVE  LET n == NextRune(l)
         IN  Calm(LexArrayValue(l, r, n), 2) /\ Calm(LexArrayValueEnd(l, r, n), 2)
<1> DEFINE n == NextRune(l)
           b == Backup(n)
<1>1. Calm(n, 2) /\ Calm(b, 2)
  BY LooseMoves, CalmMoves
<1> HIDE DEF n, b
<1>2. /\ \A t \in {"arrayValue", "arrayValueEnd"} : t \in Stacked /\ t \in Loose
      /\ "commentStart" \in Loose /\ "value" \in Loose /\ "ArrayEnd" \in Quiet
  BY DEF Stacked, Loose, Quiet
<1>3. Calm(Ignore(n), 2) /\ Calm(Errorf(n), 2) /\ Calm(ToState(Ignore(n), "arrayValue"), 2)
  BY <1>1, <1>2, LooseMoves
<1>4. Calm(ArrayEnd(n), 2)
  BY <1>2, <1>3, LooseMoves DEF ArrayEnd
<1>5. /\ Calm(ToState(PushState(n, "arrayValue"), "commentStart"), 2)
      /\ Calm(ToState(PushState(n, "arrayValueEnd"), "commentStart"), 2)
      /\ Calm(ToState(PushState(b, "arrayValueEnd"), "value"), 2)
  BY <1>1, <1>2, PushCalm
<1>6. Calm(LexArrayValue(l, r, n), 2)
  BY <1>3, <1>4, <1>5 DEF LexArrayValue, b
<1>7. Calm(LexArrayValueEnd(l, r, n), 2)
  BY <1>3, <1>4, <1>5 DEF LexArrayValueEnd
<1> QED BY <1>6, <1>7 DEF n

LEMMA QuietNumbers ==
  ASSUME IsDoc, NEW l, Calm(l, 2), NEW r
  PROVE  LET n == NextRune(l)
         IN  /\ Calm(LexConst(l, <<{"r"}, {"u"}, {"e"}>>), 2)
             /\ Calm(LexConst(l, <<{"a"}, {"l"}, {"s"}, {"e"}>>), 2)
             /\ \A next \in {"numberOrDate", "number", "float"} : Calm(NumberThen(l, r, n, next), 2)
             /\ Calm(LexNumberOrDate(l, r, n), 2) /\ Calm(LexNumber(l, r, n), 2)
             /\ Calm(LexFloat(l, r, n), 2)
<1> DEFINE n == NextRune(l)
<1>1. Calm(n, 2)
  BY LooseMoves
<1> HIDE DEF n
<1>2. /\ \A s \in {"numberOrDate", "number", "float", "dateAfterYear", "floatStart"} : s \in Loose
      /\ \A k \in {"Bool", "Integer", "Float"} : k \in Quiet
  BY DEF Loose, Quiet
<1>3. ASSUME NEW rest, Len(rest) \in Nat PROVE Calm(LexConst(l, rest), 2)
  <2>1. Calm(Skip(l, Len(rest)), 2)
    BY <1>3, CalmMoves
  <2>2. Calm(Errorf(NextRune(l)), 2)
    BY LooseMoves
  <2>3. Calm(EmitPop(Skip(l, Len(rest)), "Bool"), 2) /\ Calm(EmitPop(Errorf(NextRune(l)), "Bool"), 2)
    BY <1>2, <2>1, <2>2, LooseMoves
  <2> QED BY <2>3 DEF LexConst
<1>4. Len(<<{"r"}, {"u"}, {"e"}>>) \in Nat /\ Len(<<{"a"}, {"l"}, {"s"}, {"e"}>>) \in Nat
  OBVIOUS
<1>5. \A next \in {"numberOrDate", "number", "float"} : Calm(NumberThen(l, r, n, next), 2)
  BY <1>1, <1>2, LooseMoves DEF NumberThen
<1>6. Calm(LexNumberOrDate(l, r, n), 2) /\ Calm(LexNumber(l, r, n), 2) /\ Calm(LexFloat(l, r, n), 2)
  <2>1. /\ Calm(ToState(n, "dateAfterYear"), 2) /\ Calm(ToState(n, "floatStart"), 2) /\ Calm(Errorf(n), 2)
        /\ Calm(EmitPop(l, "Integer"), 2) /\ Calm(EmitPop(l, "Float"), 2)
    BY <1>1, <1>2, LooseMoves
  <2> QED BY <1>1, <2>1 DEF LexNumberOrDate, LexNumber, LexFloat
<1> QED BY <1>3, <1>4, <1>5, <1>6 DEF n

\* A date has a Z fifteen bytes after its year.
LEMMA DateCalm ==
  ASSUME IsDoc, NEW l, Calm(l, 2)
  PROVE  Calm(LexDateAfterYear(l), 2)
<1> DEFINE D == Decimals
           zulu == <<D, D, {"-"}, D, D, {"T"}, D, D, {":"}, D, D, {":"}, D, D, {"Z"}>>
           m == Skip(l, 15)
<1>1. CASE Matches(l, zulu)
  <2>1. Holds("Z")
    <3>1. Len(zulu) = 15 /\ zulu[15] = {"Z"}
      OBVIOUS
    <3> HIDE DEF zulu
    <3>2. l.pos + Len(zulu) - 1 <= Len(doc) /\ \A i \in 1 .. Len(zulu) : doc[l.pos + i - 1] \in zulu[i]
      BY <1>1 DEF Matches
    <3>3. doc[l.pos + 15 - 1] = "Z"
      <4>1. 15 \in 1 .. Len(zulu)
        BY <3>1
      <4> QED BY <3>1, <3>2, <4>1
    <3>4. l.pos + 15 - 1 \in 1 .. Len(doc)
      <4>1. l.pos \in Int /\ l.pos >= 2 /\ Len(doc) \in Nat
        BY DEF Calm, Based, IsDoc
      <4>2. l.pos + 15 - 1 <= Len(doc)
        BY <3>1, <3>2
      <4> QED BY <4>1, <4>2
    <3> QED BY <3>3, <3>4 DEF Holds
  <2>2. Calm(m, 2)
    BY CalmMoves
  <2> HIDE DEF m
  <2>3. Sound([typ |-> "Datetime", text |-> SubSeq(doc, m.start, m.pos - 1)])
    BY <2>1 DEF Sound
  <2>4. Based(Emit(m, "Datetime"), 2)
    BY <2>2, <2>3, BasedMoves DEF Calm
  <2>5. Calm(EmitPop(m, "Datetime"), 2)
    BY <2>4, BasedMoves DEF EmitPop
  <2> HIDE DEF zulu
  <2>6. LexDateAfterYear(l) = EmitPop(m, "Datetime")
    BY <1>1 DEF LexDateAfterYear, m, zulu
  <2> QED BY <2>5, <2>6
<1>2. CASE ~Matches(l, zulu)
  <2>1. LexDateAfterYear(l) = Errorf(l)
    BY <1>2 DEF LexDateAfterYear
  <2> QED BY <2>1, LooseMoves
<1> QED BY <1>1, <1>2

Fit(m) == IF m.state = "panic" THEN Holds("three") ELSE Placed(m)

LEMMA CalmFits ==
  ASSUME NEW m, NEW p \in {1, 2}, Calm(m, p), p = 2 \/ m.state \in {"top", "keyStart", "nil"}
  PROVE  Fit(m)
<1>1. Based(m, p) /\ m.state \notin Strung /\ m.state # "panic" /\ Sent(m.items)
  BY DEF Calm, Based
<1>2. m.state \notin DOMAIN Pending /\ m.state \notin Raws
  BY <1>1 DEF Strung
<1>3. Calm(m, 1)
  BY DEF Calm, Based
<1>4. m.state = "nil" => m.state \notin {"top", "keyStart"}
  OBVIOUS
<1>5. Placed(m)
  BY <1>1, <1>2, <1>3, <1>4 DEF Placed
<1> QED BY <1>1, <1>5 DEF Fit

LEMMA TextFits ==
  ASSUME NEW l, NEW s \in DOMAIN Pending, InText(l, Pending[s], Kind(s))
  PROVE  Fit(ToState(l, s)) /\ (l.state = s => Fit(l))
<1> DEFINE m == ToState(l, s)
<1>1. s # "panic" /\ s # "nil" /\ s \notin {"top", "keyStart"} /\ s \in Strung /\ s \notin Raws
  BY StatesIs DEF Raws
<1>2. IsLexer(l)
  BY DEF InText, Quoting
<1>3. IsLexer(m) /\ m.start = l.start /\ m.pos = l.pos /\ m.state = s /\ m.stack = l.stack /\ m.items = l.items
  BY <1>2, PutState DEF ToState, At
<1> HIDE DEF m
<1>4. InText(m, Pending[s], Kind(s))
  BY <1>3 DEF InText, Quoting
<1>5. Fit(m)
  BY <1>1, <1>3, <1>4 DEF Fit, Placed
<1>6. l.state = s => Fit(l)
  BY <1>1 DEF Fit, Placed
<1> QED BY <1>5, <1>6 DEF m

LEMMA RawFits ==
  ASSUME NEW l, NEW s \in Raws, Quoting(l)
  PROVE  Fit(ToState(l, s)) /\ (l.state = s => Fit(l))
<1> DEFINE m == ToState(l, s)
<1>1. s # "panic" /\ s # "nil" /\ s \notin {"top", "keyStart"} /\ s \in Strung
      /\ s \notin DOMAIN Pending
  BY StatesIs DEF Raws
<1>2. IsLexer(l)
  BY DEF Quoting
<1>3. IsLexer(m) /\ m.start = l.start /\ m.pos = l.pos /\ m.state = s /\ m.stack = l.stack /\ m.items = l.items
  BY <1>2, PutState DEF ToState, At
<1> HIDE DEF m
<1>4. Quoting(m)
  BY <1>3 DEF Quoting
<1>5. Fit(m)
  BY <1>1, <1>3, <1>4 DEF Fit, Placed
<1>6. l.state = s => Fit(l)
  BY <1>1 DEF Fit, Placed
<1> QED BY <1>5, <1>6 DEF m

LEMMA ErrorFits ==
  ASSUME NEW l, IsLexer(l), Sent(l.items)
  PROVE  Fit(Errorf(l))
<1> DEFINE m == Errorf(l)
<1>1. m.state = "nil" /\ m.items = Append(l.items, [typ |-> "Error", text |-> <<>>])
  BY ErrorFields
<1> HIDE DEF m
<1>2. Sent(m.items)
  BY <1>1, SentMore, QuietSound
<1>3. "nil" \notin DOMAIN Pending /\ "nil" \notin Raws
  BY StatesIs DEF Raws
<1> QED BY <1>1, <1>2, <1>3 DEF Fit, Placed, m

-----------------------------------------------------------------------------
(* Inside strings.                                                         *)

LEMMA DocIs ==
  ASSUME IsDoc
  PROVE  /\ Len(doc) \in Nat /\ Len(doc) >= 1
         /\ \A i \in 1 .. Len(doc) : doc[i] \in Bytes
         /\ \A i \in 1 .. Len(doc) :
              /\ doc[i] \in {"two", "three"} => i + 1 <= Len(doc) /\ doc[i + 1] = "cont"
              /\ doc[i] = "three" => i + 2 <= Len(doc) /\ doc[i + 2] = "cont"
BY DEF IsDoc, Whole

LEMMA QuoteNext ==
  ASSUME IsDoc, NEW l, Quoting(l)
  PROVE  Quoting(NextRune(l))
<1> DEFINE n == NextRune(l)
<1>1. IsLexer(n) /\ n.start = l.start /\ n.stack = l.stack /\ n.items = l.items
      /\ n.width \in 0 .. 3 /\ n.pos = l.pos + n.width
  BY NextFields DEF Quoting
<1> HIDE DEF n
<1>2. Quoting(n)
  BY <1>1 DEF Quoting
<1> QED BY <1>2 DEF n

\* A rune that is not a backslash, or that is before the text.
LEMMA ReadOn ==
  ASSUME IsDoc, NEW l, NEW kind, InText(l, 0, kind), Rune(l) # "\\" \/ l.pos < l.start
  PROVE  InText(NextRune(l), 0, kind)
<1> DEFINE n == NextRune(l)
<1>1. /\ IsLexer(l) /\ l.start \in Int /\ l.pos \in Int /\ l.start >= 1
      /\ IF kind = "many" THEN l.start >= 4 ELSE l.start <= l.pos
      /\ Tame => Escaped(l.start, l.pos)
  BY DEF InText, Quoting
<1>2. /\ n.start = l.start /\ n.width \in 0 .. 3 /\ n.pos = l.pos + n.width
      /\ n.width > 1 => l.pos <= Len(doc) /\ doc[l.pos] \in {"two", "three"}
      /\ n.width > 2 => doc[l.pos] = "three"
      /\ l.pos <= Len(doc) /\ doc[l.pos] # "nul" => Rune(l) = doc[l.pos]
  BY <1>1, NextFields
<1>3. Quoting(n)
  BY QuoteNext DEF InText
<1> HIDE DEF n
<1>4. ASSUME Tame, NEW i \in n.start .. n.pos - 1, i <= Len(doc), doc[i] = "\\" PROVE EscapeAt(i)
  <2>1. CASE i < l.pos
    <3>1. i \in l.start .. l.pos - 1
      BY <1>1, <1>2, <2>1
    <3> QED BY <1>1, <1>4, <3>1 DEF Escaped
  <2>2. CASE i = l.pos
    <3>1. Rune(l) = "\\" /\ l.start <= l.pos
      BY <1>1, <1>2, <1>4, <2>2
    <3> QED BY <1>1, <3>1
  <2>3. CASE i > l.pos
    <3>1. n.width > 1 /\ l.pos <= Len(doc) /\ doc[l.pos] \in {"two", "three"}
          /\ (i = l.pos + 1 \/ (i = l.pos + 2 /\ n.width > 2))
      BY <1>1, <1>2, <1>4, <2>3
    <3>2. l.pos >= 1
      BY <1>1, <1>2, <1>4, <2>3
    <3>3. l.pos \in 1 .. Len(doc)
      BY <1>1, <3>1, <3>2, DocIs
    <3>4. doc[i] = "cont"
      BY <1>2, <3>1, <3>3, DocIs
    <3> QED BY <1>4, <3>4
  <2> QED BY <1>1, <1>2, <2>1, <2>2, <2>3
<1>5. Tame => Escaped(n.start, n.pos - 0)
  <2>1. n.pos - 0 = n.pos
    BY <1>1, <1>2
  <2> QED BY <1>4, <2>1 DEF Escaped
<1>6. IF kind = "many" THEN n.start >= 4 ELSE n.start + 0 <= n.pos
  BY <1>1, <1>2
<1>7. InText(n, 0, kind)
  BY <1>3, <1>5, <1>6 DEF InText
<1> QED BY <1>7 DEF n

LEMMA BackslashOn ==
  ASSUME IsDoc, NEW l, NEW kind, InText(l, 0, kind), Rune(l) = "\\"
  PROVE  InText(NextRune(l), 1, kind)
<1> DEFINE n == NextRune(l)
<1>1. /\ IsLexer(l) /\ l.start \in Int /\ l.pos \in Int
      /\ IF kind = "many" THEN l.start >= 4 ELSE l.start <= l.pos
      /\ Tame => Escaped(l.start, l.pos)
  BY DEF InText, Quoting
<1>2. n.start = l.start /\ n.width = 1 /\ n.pos = l.pos + n.width /\ doc[l.pos] = "\\"
  BY <1>1, NextFields
<1>3. Quoting(n)
  BY QuoteNext DEF InText
<1> HIDE DEF n
<1>4. n.pos - 1 = l.pos
  BY <1>1, <1>2
<1>5. InText(n, 1, kind)
  BY <1>1, <1>2, <1>3, <1>4 DEF InText
<1> QED BY <1>5 DEF n

LEMMA EscapeOn ==
  ASSUME IsDoc, NEW l, NEW kind, InText(l, 1, kind)
  PROVE  /\ Rune(l) \in Escapes => InText(NextRune(l), 0, kind)
         /\ Rune(l) = "u" => InText(NextRune(l), 2, kind)
<1> DEFINE n == NextRune(l)
<1>1. /\ IsLexer(l) /\ l.start \in Int /\ l.pos \in Int /\ l.start >= 1
      /\ IF kind = "many" THEN l.start >= 4 ELSE l.start + 1 <= l.pos
      /\ Tame => Escaped(l.start, l.pos - 1)
      /\ doc[l.pos - 1] = "\\"
  BY DEF InText, Quoting
<1>2. Rune(l) \in Escapes \cup {"u"} =>
        n.start = l.start /\ n.width = 1 /\ n.pos = l.pos + 1 /\ l.pos <= Len(doc) /\ doc[l.pos] = Rune(l)
  <2>1. \A r \in Escapes \cup {"u"} : r \notin {"eof", "two", "three"}
    BY DEF Escapes
  <2>2. Rune(l) \in Escapes \cup {"u"} =>
        n.start = l.start /\ n.width = 1 /\ n.pos = l.pos + n.width /\ l.pos <= Len(doc) /\ doc[l.pos] = Rune(l)
    BY <1>1, <2>1, NextFields
  <2> HIDE DEF n
  <2> QED BY <2>2
<1>3. Quoting(n)
  BY QuoteNext DEF InText
<1> HIDE DEF n
<1>4. ASSUME Rune(l) \in Escapes PROVE InText(n, 0, kind)
  <2>1. n.start = l.start /\ n.pos = l.pos + 1 /\ l.pos <= Len(doc) /\ doc[l.pos] \in Escapes
    BY <1>2, <1>4
  <2>2. ASSUME Tame, NEW i \in n.start .. n.pos - 1, i <= Len(doc), doc[i] = "\\" PROVE EscapeAt(i)
    <3>1. CASE i < l.pos - 1
      <4>1. i \in l.start .. (l.pos - 1) - 1
        BY <1>1, <2>1, <3>1
      <4> QED BY <1>1, <2>2, <4>1 DEF Escaped
    <3>2. CASE i = l.pos - 1
      <4>1. i + 1 = l.pos /\ i < Len(doc)
        BY <1>1, <2>1, <3>2, DocIs
      <4> QED BY <2>1, <4>1 DEF EscapeAt
    <3>3. CASE i = l.pos
      <4>1. l.pos - 1 \in 1 .. Len(doc) - 1 /\ (l.pos - 1) + 1 = l.pos
        BY <1>1, <2>1, <2>2, <3>3, DocIs
      <4>2. Follows("\\", "\\")
        BY <1>1, <2>2, <3>3, <4>1 DEF Follows
      <4> QED BY <2>2, <4>2 DEF Tame
    <3> QED BY <1>1, <2>1, <3>1, <3>2, <3>3
  <2>3. Tame => Escaped(n.start, n.pos - 0)
    <3>1. n.pos - 0 = n.pos
      BY <1>1, <2>1
    <3> QED BY <2>2, <3>1 DEF Escaped
  <2>4. IF kind = "many" THEN n.start >= 4 ELSE n.start + 0 <= n.pos
    BY <1>1, <2>1
  <2> QED BY <1>3, <2>3, <2>4 DEF InText
<1>5. ASSUME Rune(l) = "u" PROVE InText(n, 2, kind)
  <2>1. n.start = l.start /\ n.pos = l.pos + 1 /\ doc[l.pos] = "u"
    BY <1>2, <1>5
  <2>2. n.pos - 2 = l.pos - 1 /\ n.pos - 1 = l.pos
    BY <1>1, <2>1
  <2>3. IF kind = "many" THEN n.start >= 4 ELSE n.start + 2 <= n.pos
    BY <1>1, <2>1
  <2> QED BY <1>1, <1>3, <2>1, <2>2, <2>3 DEF InText
<1> QED BY <1>4, <1>5 DEF n

LEMMA UnicodeOn ==
  ASSUME IsDoc, NEW l, NEW kind, InText(l, 2, kind), Matches(l, [i \in 1 .. 4 |-> Hexadecimal])
  PROVE  InText(Skip(l, 4), 0, kind)
<1> DEFINE n == Skip(l, 4)
           four == [i \in 1 .. 4 |-> Hexadecimal]
<1>1. /\ IsLexer(l) /\ l.stack \in Seq(Stacked) /\ Sent(l.items)
      /\ l.start \in Int /\ l.pos \in Int /\ l.start >= 1
      /\ ~Holds("three") => l.start <= l.pos
      /\ IF kind = "many" THEN l.start >= 4 ELSE l.start + 2 <= l.pos
      /\ Tame => Escaped(l.start, l.pos - 2)
      /\ doc[l.pos - 2] = "\\" /\ doc[l.pos - 1] = "u"
  BY DEF InText, Quoting
<1>2. l.pos + 3 <= Len(doc) /\ \A j \in l.pos .. l.pos + 3 : doc[j] \in Hexadecimal
  <2>1. Len(four) = 4 /\ \A i \in 1 .. 4 : four[i] = Hexadecimal
    OBVIOUS
  <2>2. l.pos + Len(four) - 1 <= Len(doc) /\ \A i \in 1 .. Len(four) : doc[l.pos + i - 1] \in four[i]
    BY DEF Matches
  <2> HIDE DEF four
  <2>3. l.pos + 3 <= Len(doc)
    BY <1>1, <2>1, <2>2, DocIs
  <2>4. ASSUME NEW j \in l.pos .. l.pos + 3 PROVE doc[j] \in Hexadecimal
    <3>1. j - l.pos + 1 \in 1 .. 4 /\ l.pos + (j - l.pos + 1) - 1 = j
      BY <1>1
    <3> QED BY <2>1, <2>2, <3>1
  <2> QED BY <2>3, <2>4
<1>3. IsLexer(n) /\ n.start = l.start /\ n.stack = l.stack /\ n.items = l.items /\ n.pos = l.pos + 4
  BY <1>1, SkipFields
<1> HIDE DEF n
<1>4. Quoting(n)
  BY <1>1, <1>3 DEF Quoting
<1>5. ASSUME Tame, NEW i \in n.start .. n.pos - 1, i <= Len(doc), doc[i] = "\\" PROVE EscapeAt(i)
  <2>1. CASE i < l.pos - 2
    <3>1. i \in l.start .. (l.pos - 2) - 1
      BY <1>1, <1>3, <2>1
    <3> QED BY <1>1, <1>5, <3>1 DEF Escaped
  <2>2. CASE i = l.pos - 2
    <3>0. Len(doc) \in Nat
      BY DocIs
    <3>1. i + 1 = l.pos - 1 /\ i + 2 = l.pos /\ i < Len(doc)
      BY <1>1, <1>2, <2>2, <3>0
    <3>2. HexAt(l.pos)
      BY <1>2 DEF HexAt
    <3> QED BY <1>1, <3>1, <3>2 DEF EscapeAt
  <2>3. CASE i = l.pos - 1
    BY <1>1, <1>5, <2>3
  <2>4. CASE i >= l.pos
    <3>1. i \in l.pos .. l.pos + 3
      BY <1>1, <1>3, <2>4
    <3>2. "\\" \notin Hexadecimal
      BY SlashNoHex
    <3> QED BY <1>2, <1>5, <3>1, <3>2
  <2> QED BY <1>1, <1>3, <2>1, <2>2, <2>3, <2>4
<1>6. Tame => Escaped(n.start, n.pos - 0)
  <2>1. n.pos - 0 = n.pos
    BY <1>1, <1>3
  <2> QED BY <1>5, <2>1 DEF Escaped
<1>7. IF kind = "many" THEN n.start >= 4 ELSE n.start + 0 <= n.pos
  BY <1>1, <1>3
<1>8. InText(n, 0, kind)
  BY <1>4, <1>6, <1>7 DEF InText
<1> QED BY <1>8 DEF n

\* The quote, a name for which the SMT solver has no need to read.
Mark == "\""

LEMMA MarkIs == Mark \notin Hexadecimal /\ Mark \notin {"eof", "two", "three", "\\", "nl"}
<1>1. /\ Mark \notin {"0", "1", "2", "3", "4", "5", "6", "7", "8", "9", "a", "b",
                      "c", "d", "e", "f", "A", "B", "C", "D", "E", "F"}
      /\ Mark \notin {"eof", "two", "three", "\\", "nl"}
  BY Zenon DEF Mark
<1> QED BY <1>1, HexesAre DEF Hexadecimal

\* The text before a quote that nothing escapes.
LEMMA FairText ==
  ASSUME IsDoc, Tame, NEW from \in Int, NEW to \in Int, from >= 1, from <= to, to <= Len(doc),
         doc[to] = Mark, Escaped(from, to)
  PROVE  SubSeq(doc, from, to - 1) \in Seq(Bytes) /\ Fair(SubSeq(doc, from, to - 1))
<1> DEFINE t == SubSeq(doc, from, to - 1)
<1>1. doc \in Seq(Bytes) /\ Len(doc) \in Nat
  BY DEF IsDoc
<1>2. t \in Seq(Bytes) /\ Len(t) = to - from /\ \A k \in 1 .. to - from : t[k] = doc[from + k - 1]
  BY <1>1
<1> HIDE DEF t
<1>3. ASSUME NEW k \in 1 .. Len(t) - 1, t[k] = "\\"
      PROVE  \/ t[k + 1] \in Escapes \ {"\\"}
             \/ IsCode(t, k)
  <2> DEFINE i == from + k - 1
  <2>1. /\ i \in from .. to - 1 /\ i \in 1 .. Len(doc) - 1 /\ i + 1 = from + (k + 1) - 1 /\ i + 1 < to
        /\ k \in 1 .. to - from /\ k + 1 \in 1 .. to - from
    BY <1>1, <1>2
  <2>2. doc[i] = "\\" /\ t[k + 1] = doc[i + 1]
    BY <1>2, <1>3, <2>1
  <2> HIDE DEF i
  <2>3. EscapeAt(i)
    BY <1>1, <2>1, <2>2 DEF Escaped
  <2>4. doc[i + 1] # "\\"
    BY <2>1, <2>2 DEF Tame, Follows
  <2>5. CASE doc[i + 1] \in Escapes
    BY <2>2, <2>4, <2>5
  <2>6. CASE doc[i + 1] = "u" /\ HexAt(i + 2)
    <3>1. \A j \in i + 2 .. i + 5 : doc[j] \in Hexadecimal
      <4>1. (i + 2) + 3 = i + 5
        BY <2>1
      <4> QED BY <2>6, <4>1 DEF HexAt
    <3>2. Mark \notin Hexadecimal
      BY MarkIs
    <3>3. to > i + 5
      <4>1. to \notin i + 2 .. i + 5
        BY <3>1, <3>2
      <4> QED BY <2>1, <4>1
    <3>4. k + 5 <= Len(t)
      BY <1>2, <2>1, <3>3 DEF i
    <3>5. ASSUME NEW j \in 0 .. 5 PROVE t[k + j] = doc[i + j]
      <4>1. i + j = from + (k + j) - 1 /\ k + j \in 1 .. to - from
        BY <1>2, <2>1, <3>4 DEF i
      <4> QED BY <1>2, <4>1
    <3>6. IsCode(doc, i)
      <4>1. i \in 1 .. Len(doc) - 5 /\ i + 5 <= Len(doc)
        BY <1>1, <2>1, <3>3
      <4>2. ~Spells(doc, i)
        BY <4>1 DEF Tame
      <4> QED BY <2>2, <2>6, <3>1, <4>1, <4>2 DEF IsCode
    <3>7. SameSix(t, k, doc, i) /\ i \in Int /\ k \in Int
      BY <2>1, <3>4, <3>5 DEF SameSix
    <3> QED BY <3>6, <3>7, CodeMoved
  <2> QED BY <2>3, <2>5, <2>6 DEF EscapeAt
<1>4. Fair(t)
  BY <1>3 DEF Fair
<1> QED BY <1>2, <1>4 DEF t

\* The closing quotes, of which m has read k: pos is before start only with a long rune.
LEMMA CloseFits ==
  ASSUME IsDoc, NEW l, Quoting(l), NEW m, IsLexer(m), m.start = l.start, m.stack = l.stack,
         m.items = l.items, NEW k \in {1, 3}, m.pos = l.pos + k, NEW typ,
         l.start <= l.pos => Sound([typ |-> typ, text |-> SubSeq(doc, l.start, l.pos - 1)])
  PROVE  Fit(Close(m, k, typ))
<1>1. /\ l.stack \in Seq(Stacked) /\ Sent(l.items) /\ l.start \in Int /\ l.pos \in Int /\ l.start >= 1
      /\ ~Holds("three") => l.start <= l.pos
  BY DEF Quoting
<1>2. m.pos - k = l.pos
  BY <1>1
<1>3. CASE l.pos < l.start
  <2>1. Close(m, k, typ) = ToState(m, "panic")
    BY <1>2, <1>3 DEF Close
  <2>2. ToState(m, "panic").state = "panic"
    BY SimpleFields
  <2>3. Holds("three")
    BY <1>1, <1>3
  <2> QED BY <2>1, <2>2, <2>3 DEF Fit
<1>4. CASE ~(l.pos < l.start)
  <2> DEFINE a == [m EXCEPT !.pos = m.pos - k]
             e == Emit(a, typ)
             s == Skip(e, k)
  <2>1. IsLexer(a) /\ a.start = l.start /\ a.pos = l.pos /\ a.stack = l.stack /\ a.items = l.items
    BY <1>2, PutPos DEF At
  <2>2. Close(m, k, typ) = PopState(Ignore(s))
    BY <1>2, <1>4 DEF Close
  <2> HIDE DEF a
  <2>3. Based(a, 1)
    BY <1>1, <1>4, <2>1 DEF Based
  <2>4. Sound([typ |-> typ, text |-> SubSeq(doc, a.start, a.pos - 1)])
    BY <1>1, <1>4, <2>1
  <2>5. Based(e, 1) /\ e.pos = a.pos
    BY <2>1, <2>3, <2>4, BasedMoves, EmitFields
  <2> HIDE DEF e
  <2>6. Based(s, 1) /\ s.pos = e.pos + k
    <3>1. k \in Nat /\ IsLexer(e) /\ 1 \in {1, 2}
      BY <2>5 DEF Based
    <3>2. Based(s, 1)
      BY <2>5, <3>1, BasedMoves
    <3>3. s.pos = e.pos + k
      BY <3>1, SkipFields
    <3> QED BY <3>2, <3>3
  <2> HIDE DEF s
  <2>7. Based(s, 2)
    BY <1>1, <1>4, <2>1, <2>5, <2>6 DEF Based
  <2>8. Calm(PopState(Ignore(s)), 2)
    BY <2>7, BasedMoves
  <2> QED BY <2>2, <2>8, CalmFits
<1> QED BY <1>3, <1>4

LEMMA TextSound ==
  ASSUME IsDoc, NEW l, NEW kind, InText(l, 0, kind), Rune(l) = Mark, l.start <= l.pos,
         NEW typ \in {"String", "MultilineString"}
  PROVE  Sound([typ |-> typ, text |-> SubSeq(doc, l.start, l.pos - 1)])
<1>1. IsLexer(l) /\ l.start \in Int /\ l.pos \in Int /\ l.start >= 1
      /\ (Tame => Escaped(l.start, l.pos - 0))
  BY DEF InText, Quoting
<1>2. l.pos <= Len(doc) /\ doc[l.pos] = Mark /\ l.pos - 0 = l.pos
  BY <1>1, NextFields, MarkIs
<1>3. Tame => SubSeq(doc, l.start, l.pos - 1) \in Seq(Bytes) /\ Fair(SubSeq(doc, l.start, l.pos - 1))
  BY <1>1, <1>2, FairText
<1> QED BY <1>3 DEF Sound

LEMMA StringFits ==
  ASSUME IsDoc, NEW l, InText(l, 0, "one"), l.state = "string"
  PROVE  Fit(LexString(l, Rune(l), NextRune(l)))
<1> DEFINE r == Rune(l)
           n == NextRune(l)
<1>1. Quoting(l) /\ IsLexer(l) /\ l.pos \in Int
  BY DEF InText, Quoting
<1>2. /\ IsLexer(n) /\ n.start = l.start /\ n.state = l.state /\ n.stack = l.stack /\ n.items = l.items
      /\ Sent(n.items) /\ (r \notin {"eof", "two", "three"} => n.pos = l.pos + 1)
  BY <1>1, NextFields DEF Quoting
<1>3. r # "\\" => InText(n, 0, "one")
  BY ReadOn
<1>4. r = "\\" => InText(n, 1, "one")
  BY BackslashOn
<1>5. /\ "string" \in DOMAIN Pending /\ "stringEscape" \in DOMAIN Pending
      /\ Pending["string"] = 0 /\ Pending["stringEscape"] = 1
      /\ Kind("string") = "one" /\ Kind("stringEscape") = "one"
  BY StatesIs DEF Kind
<1>6. CASE r = Mark
  <2>1. n.pos = l.pos + 1
    BY <1>2, <1>6, MarkIs
  <2>2. l.start <= l.pos => Sound([typ |-> "String", text |-> SubSeq(doc, l.start, l.pos - 1)])
    BY <1>6, TextSound
  <2> HIDE DEF n, r
  <2>3. Fit(Close(n, 1, "String"))
    BY <1>1, <1>2, <2>1, <2>2, CloseFits
  <2>4. LexString(l, r, n) = Close(n, 1, "String")
    BY <1>6, MarkIs, Zenon DEF LexString, Mark
  <2> QED BY <2>3, <2>4 DEF n, r
<1>7. CASE r = "\\"
  <2> HIDE DEF n, r
  <2>1. Fit(ToState(n, "stringEscape"))
    BY <1>4, <1>5, <1>7, TextFits
  <2>2. LexString(l, r, n) = ToState(n, "stringEscape")
    BY <1>7, Zenon DEF LexString
  <2> QED BY <2>1, <2>2 DEF n, r
<1>8. CASE r \notin {Mark, "\\"}
  <2> HIDE DEF n, r
  <2>1. Fit(n) /\ Fit(Errorf(n))
    BY <1>2, <1>3, <1>5, <1>8, TextFits, ErrorFits
  <2>2. LexString(l, r, n) \in {n, Errorf(n)}
    BY <1>8, Zenon DEF LexString, Mark
  <2> QED BY <2>1, <2>2 DEF n, r
<1> QED BY <1>6, <1>7, <1>8

LEMMA RawStringFits ==
  ASSUME IsDoc, NEW l, Quoting(l), l.state = "rawString"
  PROVE  Fit(LexRawString(l, Rune(l), NextRune(l)))
<1> DEFINE r == Rune(l)
           n == NextRune(l)
<1>1. IsLexer(l) /\ l.pos \in Int
  BY DEF Quoting
<1>2. /\ IsLexer(n) /\ n.start = l.start /\ n.state = l.state /\ n.stack = l.stack /\ n.items = l.items
      /\ Sent(n.items) /\ (r \notin {"eof", "two", "three"} => n.pos = l.pos + 1)
  BY <1>1, NextFields DEF Quoting
<1>3. Quoting(n)
  BY QuoteNext
<1>4. Sound([typ |-> "RawString", text |-> SubSeq(doc, l.start, l.pos - 1)])
  BY DEF Sound
<1> HIDE DEF n
<1>5. r = "'" => Fit(Close(n, 1, "RawString"))
  BY <1>1, <1>2, <1>4, CloseFits
<1>6. Fit(n) /\ Fit(Errorf(n))
  BY <1>2, <1>3, RawFits, ErrorFits DEF Raws
<1> QED BY <1>5, <1>6 DEF LexRawString, n

\* A quote, or two, inside a multiline string. The backup is by the width of the rune after.
LEMMA BackQuotes ==
  ASSUME IsDoc, NEW l, Quoting(l), NEW q \in {Mark, "'"}, Rune(l) = q
  PROVE  LET n == NextRune(l)  two == NextRune(n)  three == NextRune(two)
             one == Backup(two)  back == Backup(Backup(three))
         IN  /\ Quoting(one) /\ one.start = l.start /\ one.state = l.state /\ one.pos = l.pos + 1
             /\ Rune(n) = q =>
                  /\ Quoting(back) /\ back.start = l.start /\ back.state = l.state
                  /\ back.pos <= l.pos + 2 /\ back.pos \in Int
                  /\ doc[l.pos + 1] = q
             /\ Rune(n) = q /\ Rune(two) = q =>
                  /\ IsLexer(three) /\ three.start = l.start /\ three.stack = l.stack
                  /\ three.items = l.items /\ three.pos = l.pos + 3
             /\ doc[l.pos] = q
<1> DEFINE n == NextRune(l)
           two == NextRune(n)
           three == NextRune(two)
           one == Backup(two)
           b == Backup(three)
           back == Backup(b)
<1>1. /\ IsLexer(l) /\ l.stack \in Seq(Stacked) /\ Sent(l.items) /\ l.start \in Int /\ l.pos \in Int
      /\ l.start >= 1 /\ (~Holds("three") => l.start <= l.pos)
  BY DEF Quoting
<1>2. q \notin {"eof", "two", "three"}
  BY MarkIs
<1>3. /\ IsLexer(n) /\ n.start = l.start /\ n.state = l.state /\ n.stack = l.stack /\ n.items = l.items
      /\ n.pos = l.pos + 1 /\ doc[l.pos] = q
  <2>1. /\ IsLexer(n) /\ n.start = l.start /\ n.state = l.state /\ n.stack = l.stack /\ n.items = l.items
        /\ n.width = 1 /\ n.pos = l.pos + n.width /\ doc[l.pos] = q
    BY <1>1, <1>2, NextFields
  <2> HIDE DEF n
  <2> QED BY <2>1
<1>4. n.pos \in Int
  BY <1>1, <1>3
<1> HIDE DEF n
<1>5. /\ IsLexer(two) /\ two.start = n.start /\ two.state = n.state /\ two.stack = n.stack
      /\ two.items = n.items /\ two.width \in Int /\ two.pos = n.pos + two.width
      /\ (Rune(n) = q => two.width = 1 /\ doc[n.pos] = q)
  <2>1. \A i \in 0 .. 3 : i \in Int
    OBVIOUS
  <2> QED BY <1>2, <1>3, <1>4, <2>1, NextFields
<1>6. two.pos \in Int
  BY <1>4, <1>5
<1> HIDE DEF two
<1>7. /\ IsLexer(three) /\ three.start = two.start /\ three.state = two.state /\ three.stack = two.stack
      /\ three.items = two.items /\ three.width \in 0 .. 3 /\ three.pos = two.pos + three.width
      /\ (three.width > 2 => two.pos <= Len(doc) /\ doc[two.pos] = "three")
      /\ (Rune(two) = q => three.width = 1)
  BY <1>2, <1>5, <1>6, NextFields
<1> HIDE DEF three
<1>8. /\ IsLexer(one) /\ one.start = two.start /\ one.pos = two.pos - two.width /\ one.state = two.state
      /\ one.stack = two.stack /\ one.items = two.items
  BY <1>5, SimpleFields
<1> HIDE DEF one
<1>9. /\ IsLexer(b) /\ b.start = three.start /\ b.pos = three.pos - three.width /\ b.width = three.width
      /\ b.state = three.state /\ b.stack = three.stack /\ b.items = three.items
  BY <1>7, SimpleFields
<1> HIDE DEF b
<1>10. /\ IsLexer(back) /\ back.start = b.start /\ back.pos = b.pos - b.width
       /\ back.state = b.state /\ back.stack = b.stack /\ back.items = b.items
  BY <1>9, SimpleFields
<1> HIDE DEF back
<1>11. one.pos = l.pos + 1
  BY <1>1, <1>3, <1>5, <1>8
<1>12. Quoting(one)
  BY <1>1, <1>3, <1>5, <1>8, <1>11 DEF Quoting
<1>13. ASSUME Rune(n) = q
       PROVE  /\ Quoting(back) /\ back.pos <= l.pos + 2 /\ back.pos \in Int
  <2>1. two.pos = l.pos + 2 /\ back.pos = l.pos + 2 - three.width
    BY <1>1, <1>3, <1>5, <1>7, <1>9, <1>10, <1>13
  <2>2. back.pos <= l.pos + 2 /\ back.pos \in Int
    BY <1>1, <1>7, <2>1
  <2>3. ASSUME ~Holds("three") PROVE l.start <= back.pos
    <3>1. l.start <= l.pos /\ two.pos >= 1 /\ Len(doc) \in Nat
      BY <1>1, <2>1, <2>3, DocIs
    <3>2. ~(three.width > 2)
      <4>1. ASSUME three.width > 2 PROVE FALSE
        <5>1. two.pos \in 1 .. Len(doc) /\ doc[two.pos] = "three"
          BY <1>6, <1>7, <3>1, <4>1
        <5> QED BY <2>3, <5>1 DEF Holds
      <4> QED BY <4>1
    <3> QED BY <1>1, <1>7, <2>1, <3>1, <3>2
  <2>4. /\ IsLexer(back) /\ back.start = l.start /\ back.stack = l.stack /\ back.items = l.items
    BY <1>3, <1>5, <1>7, <1>9, <1>10
  <2>5. Quoting(back)
    BY <1>1, <2>2, <2>3, <2>4 DEF Quoting
  <2> QED BY <2>2, <2>5
<1>14. Rune(n) = q /\ Rune(two) = q => three.pos = l.pos + 3
  BY <1>1, <1>3, <1>5, <1>7
<1>15. /\ one.start = l.start /\ one.state = l.state /\ back.start = l.start /\ back.state = l.state
       /\ three.start = l.start /\ three.stack = l.stack /\ three.items = l.items
  BY <1>3, <1>5, <1>7, <1>8, <1>9, <1>10
<1>16. Rune(n) = q => doc[l.pos + 1] = q
  BY <1>3, <1>5
<1> QED BY <1>3, <1>7, <1>11, <1>12, <1>13, <1>14, <1>15, <1>16 DEF n, two, three, one, b, back

\* The text up to quotes is as it was before them.
LEMMA AfterQuotes ==
  ASSUME IsDoc, NEW l, InText(l, 0, "many"), NEW m, Quoting(m), m.start = l.start, m.pos <= l.pos + 2,
         doc[l.pos] = Mark, m.pos = l.pos + 1 \/ doc[l.pos + 1] = Mark
  PROVE  InText(m, 0, "many")
<1>1. l.start \in Int /\ l.pos \in Int /\ l.start >= 4 /\ (Tame => Escaped(l.start, l.pos - 0))
      /\ l.pos - 0 = l.pos /\ m.pos \in Int /\ m.pos - 0 = m.pos
  BY DEF InText, Quoting
<1>2. ASSUME Tame, NEW i \in m.start .. m.pos - 1, i <= Len(doc), doc[i] = "\\" PROVE EscapeAt(i)
  <2>1. CASE i < l.pos
    <3>1. i \in l.start .. l.pos - 1
      BY <1>1, <2>1
    <3> QED BY <1>1, <1>2, <3>1 DEF Escaped
  <2>2. CASE ~(i < l.pos)
    <3>1. i = l.pos \/ i = l.pos + 1
      BY <1>1, <1>2, <2>2
    <3>2. i = l.pos + 1 => m.pos # l.pos + 1
      BY <1>1, <1>2
    <3> QED BY <1>2, <3>1, <3>2, MarkIs
  <2> QED BY <2>1, <2>2
<1>3. Tame => Escaped(m.start, m.pos - 0)
  BY <1>1, <1>2 DEF Escaped
<1>4. m.start >= 4
  BY <1>1
<1> QED BY <1>3, <1>4 DEF InText

LEMMA MultilineFits ==
  ASSUME IsDoc, NEW l, InText(l, 0, "many"), l.state = "multilineString"
  PROVE  Fit(LexMultilineString(l, Rune(l), NextRune(l)))
<1> DEFINE r == Rune(l)
           n == NextRune(l)
<1>1. Quoting(l) /\ IsLexer(l) /\ l.pos \in Int
  BY DEF InText, Quoting
<1>2. n.state = l.state
  BY <1>1, NextFields
<1>3. r # "\\" => InText(n, 0, "many")
  BY ReadOn
<1>4. r = "\\" => InText(n, 1, "many")
  BY BackslashOn
<1>5. /\ "multilineString" \in DOMAIN Pending /\ "multilineStringEscape" \in DOMAIN Pending
      /\ Pending["multilineString"] = 0 /\ Pending["multilineStringEscape"] = 1
      /\ Kind("multilineString") = "many" /\ Kind("multilineStringEscape") = "many"
  BY StatesIs DEF Kind
<1>6. CASE r = Mark
  <2> DEFINE two == NextRune(n)
             three == NextRune(two)
             one == Backup(two)
             back == Backup(Backup(three))
             shut == Close(three, 3, "MultilineString")
  <2>1. /\ Quoting(one) /\ one.start = l.start /\ one.state = l.state /\ one.pos = l.pos + 1
        /\ Rune(n) = Mark =>
             /\ Quoting(back) /\ back.start = l.start /\ back.state = l.state
             /\ back.pos <= l.pos + 2 /\ back.pos \in Int /\ doc[l.pos + 1] = Mark
        /\ Rune(n) = Mark /\ Rune(two) = Mark =>
             /\ IsLexer(three) /\ three.start = l.start /\ three.stack = l.stack
             /\ three.items = l.items /\ three.pos = l.pos + 3
        /\ doc[l.pos] = Mark
    BY <1>1, <1>6, BackQuotes
  <2>2. LexMultilineString(l, r, n) = IF Rune(n) # Mark THEN one ELSE IF Rune(two) # Mark THEN back ELSE shut
    <3>1. LexMultilineString(l, r, n) = Closing(n, r, "MultilineString")
      <4> HIDE DEF r, n
      <4> QED BY <1>6, MarkIs, Zenon DEF LexMultilineString, Mark
    <3> HIDE DEF r, n
    <3>2. Closing(n, r, "MultilineString") =
            IF Rune(n) # Mark THEN one ELSE IF Rune(two) # Mark THEN back ELSE shut
      BY <1>6 DEF Closing, Accepts
    <3> QED BY <3>1, <3>2
  <2>3. l.start <= l.pos => Sound([typ |-> "MultilineString", text |-> SubSeq(doc, l.start, l.pos - 1)])
    BY <1>6, TextSound
  <2> HIDE DEF r, n, two, three, one, back
  <2>4. Fit(one)
    <3>1. one.pos <= l.pos + 2
      BY <1>1, <2>1
    <3>2. InText(one, 0, "many")
      BY <2>1, <3>1, AfterQuotes
    <3> QED BY <1>5, <2>1, <3>2, TextFits
  <2>5. Rune(n) = Mark => Fit(back)
    <3>1. Rune(n) = Mark => InText(back, 0, "many")
      BY <2>1, AfterQuotes
    <3> QED BY <1>5, <2>1, <3>1, TextFits
  <2>6. Rune(n) = Mark /\ Rune(two) = Mark => Fit(shut)
    BY <1>1, <2>1, <2>3, CloseFits
  <2> HIDE DEF shut
  <2>7. Fit(LexMultilineString(l, r, n))
    BY <2>2, <2>4, <2>5, <2>6
  <2> QED BY <2>7 DEF r, n
<1>7. CASE r = "\\"
  <2> HIDE DEF n, r
  <2>1. Fit(ToState(n, "multilineStringEscape"))
    BY <1>4, <1>5, <1>7, TextFits
  <2>2. LexMultilineString(l, r, n) = ToState(n, "multilineStringEscape")
    BY <1>7, Zenon DEF LexMultilineString
  <2> QED BY <2>1, <2>2 DEF n, r
<1>8. CASE r \notin {Mark, "\\"}
  <2> HIDE DEF n, r
  <2>1. Fit(n)
    BY <1>2, <1>3, <1>5, <1>8, TextFits
  <2>2. LexMultilineString(l, r, n) = n
    BY <1>8, Zenon DEF LexMultilineString, Mark
  <2> QED BY <2>1, <2>2 DEF n, r
<1> QED BY <1>6, <1>7, <1>8

LEMMA MultilineRawFits ==
  ASSUME IsDoc, NEW l, Quoting(l), l.state = "multilineRawString"
  PROVE  Fit(LexMultilineRawString(l, Rune(l), NextRune(l)))
<1> DEFINE r == Rune(l)
           n == NextRune(l)
<1>1. n.state = l.state /\ Quoting(n)
  BY NextFields, QuoteNext DEF Quoting
<1>2. "multilineRawString" \in Raws
  BY DEF Raws
<1>3. CASE r = "'"
  <2> DEFINE two == NextRune(n)
             three == NextRune(two)
             one == Backup(two)
             back == Backup(Backup(three))
             shut == Close(three, 3, "RawMultilineString")
  <2>1. /\ Quoting(one) /\ one.state = l.state
        /\ Rune(n) = "'" => Quoting(back) /\ back.state = l.state
        /\ Rune(n) = "'" /\ Rune(two) = "'" =>
             /\ IsLexer(three) /\ three.start = l.start /\ three.stack = l.stack
             /\ three.items = l.items /\ three.pos = l.pos + 3
    BY <1>3, BackQuotes
  <2>2. LexMultilineRawString(l, r, n) =
          IF Rune(n) # "'" THEN one ELSE IF Rune(two) # "'" THEN back ELSE shut
    <3> HIDE DEF r, n
    <3> QED BY <1>3 DEF LexMultilineRawString, Closing, Accepts
  <2>3. Sound([typ |-> "RawMultilineString", text |-> SubSeq(doc, l.start, l.pos - 1)])
    BY DEF Sound
  <2> HIDE DEF r, n, two, three, one, back
  <2>4. Fit(one) /\ (Rune(n) = "'" => Fit(back))
    BY <1>2, <2>1, RawFits
  <2>5. Rune(n) = "'" /\ Rune(two) = "'" => Fit(shut)
    BY <2>1, <2>3, CloseFits
  <2> HIDE DEF shut
  <2>6. Fit(LexMultilineRawString(l, r, n))
    BY <2>2, <2>4, <2>5
  <2> QED BY <2>6 DEF r, n
<1>4. CASE r # "'"
  <2>1. LexMultilineRawString(l, r, n) = n
    BY <1>4 DEF LexMultilineRawString
  <2> HIDE DEF r, n
  <2>2. Fit(n)
    BY <1>1, <1>2, RawFits
  <2> QED BY <2>1, <2>2 DEF r, n
<1> QED BY <1>3, <1>4

\* A line end after a backslash: only in a text that is not tame, or before it begins.
LEMMA LineEndOn ==
  ASSUME IsDoc, NEW l, InText(l, 1, "many"), Rune(l) = "nl"
  PROVE  InText(NextRune(NextRune(l)), 0, "many")
<1> DEFINE n == NextRune(l)
           m == NextRune(n)
<1>1. /\ Quoting(l) /\ IsLexer(l) /\ l.start \in Int /\ l.pos \in Int /\ l.start >= 4
      /\ doc[l.pos - 1] = "\\"
  BY DEF InText, Quoting
<1>2. Quoting(n)
  BY <1>1, QuoteNext
<1>3. n.start = l.start /\ n.pos = l.pos + 1 /\ l.pos <= Len(doc) /\ doc[l.pos] = "nl"
  <2>1. n.start = l.start /\ n.width = 1 /\ n.pos = l.pos + n.width /\ l.pos <= Len(doc) /\ doc[l.pos] = "nl"
    BY <1>1, NextFields
  <2> HIDE DEF n
  <2> QED BY <2>1
<1> HIDE DEF n
<1>4. CASE ~Tame
  <2>1. Quoting(m)
    BY <1>2, QuoteNext
  <2>2. m.start = l.start
    BY <1>2, <1>3, NextFields DEF Quoting
  <2> HIDE DEF m
  <2>3. InText(m, 0, "many")
    BY <1>1, <1>4, <2>1, <2>2 DEF InText
  <2> QED BY <2>3 DEF m, n
<1>5. CASE Tame
  <2>1. l.pos <= 1
    <3>1. ASSUME l.pos > 1 PROVE FALSE
      <4>1. l.pos - 1 \in 1 .. Len(doc) - 1 /\ (l.pos - 1) + 1 = l.pos
        BY <1>1, <1>3, <3>1, DocIs
      <4>2. Follows("\\", "nl")
        BY <1>1, <1>3, <4>1 DEF Follows
      <4> QED BY <1>5, <4>2 DEF Tame
    <3> QED BY <1>1, <3>1
  <2>2. n.pos < n.start /\ n.start >= 4 /\ n.pos - 0 = n.pos /\ n.start \in Int /\ n.pos \in Int
    BY <1>1, <1>3, <2>1
  <2>3. Escaped(n.start, n.pos - 0)
    BY <2>2 DEF Escaped
  <2>4. InText(n, 0, "many")
    BY <1>2, <2>2, <2>3 DEF InText
  <2>5. InText(m, 0, "many")
    BY <2>2, <2>4, ReadOn
  <2> QED BY <2>5 DEF m, n
<1> QED BY <1>4, <1>5

LEMMA EscapeFits ==
  ASSUME IsDoc, NEW l
  PROVE  /\ InText(l, 1, "one") => Fit(LexStringEscape(l, Rune(l), NextRune(l)))
         /\ InText(l, 1, "many") => Fit(LexMultilineStringEscape(l, Rune(l), NextRune(l)))
         /\ InText(l, 2, "one") => Fit(Unicode(l, "string"))
         /\ InText(l, 2, "many") => Fit(Unicode(l, "multilineString"))
<1> DEFINE r == Rune(l)
           n == NextRune(l)
           Kinds == {<<"string", "stringUnicode", "one">>,
                      <<"multilineString", "multilineStringUnicode", "many">>}
<1>1. \A x \in Kinds : /\ x[1] \in DOMAIN Pending /\ Pending[x[1]] = 0 /\ Kind(x[1]) = x[3]
                        /\ x[2] \in DOMAIN Pending /\ Pending[x[2]] = 2 /\ Kind(x[2]) = x[3]
  BY StatesIs DEF Kind
<1>2. ASSUME NEW x \in Kinds, InText(l, 1, x[3]) PROVE Fit(StringEscape(r, n, x[1], x[2]))
  <2>1. IsLexer(n) /\ Sent(n.items)
    BY <1>2, NextFields DEF InText, Quoting
  <2>2. (r \in Escapes => InText(n, 0, x[3])) /\ (r = "u" => InText(n, 2, x[3]))
    BY <1>2, EscapeOn
  <2> HIDE DEF r, n, Kinds
  <2>3. (r \in Escapes => Fit(ToState(n, x[1]))) /\ (r = "u" => Fit(ToState(n, x[2])))
    BY <1>1, <2>2, TextFits
  <2>4. Fit(Errorf(n))
    BY <2>1, ErrorFits
  <2> QED BY <2>3, <2>4 DEF StringEscape
<1>3. ASSUME NEW x \in Kinds, InText(l, 2, x[3]) PROVE Fit(Unicode(l, x[1]))
  <2> DEFINE four == [i \in 1 .. 4 |-> Hexadecimal]
  <2>1. IsLexer(l) /\ Sent(l.items)
    BY <1>3 DEF InText, Quoting
  <2>2. Matches(l, four) => InText(Skip(l, 4), 0, x[3])
    BY <1>3, UnicodeOn
  <2> HIDE DEF Kinds
  <2>3. Matches(l, four) => Fit(ToState(Skip(l, 4), x[1]))
    <3> HIDE DEF four
    <3> QED BY <1>1, <2>2, TextFits
  <2>4. Fit(Errorf(l))
    BY <2>1, ErrorFits
  <2>5. Unicode(l, x[1]) \in {ToState(Skip(l, 4), x[1]), Errorf(l)}
        /\ (~Matches(l, four) => Unicode(l, x[1]) = Errorf(l))
    BY DEF Unicode
  <2> HIDE DEF four
  <2> QED BY <2>3, <2>4, <2>5
<1>4. <<"string", "stringUnicode", "one">> \in Kinds
      /\ <<"multilineString", "multilineStringUnicode", "many">> \in Kinds
  OBVIOUS
<1> HIDE DEF Kinds
<1>5. \A a, b, c : <<a, b, c>>[1] = a /\ <<a, b, c>>[2] = b /\ <<a, b, c>>[3] = c
  OBVIOUS
<1>6. InText(l, 1, "one") => Fit(LexStringEscape(l, r, n))
  <2> HIDE DEF r, n
  <2> QED BY <1>2, <1>4, <1>5 DEF LexStringEscape
<1>7. ASSUME InText(l, 1, "many") PROVE Fit(LexMultilineStringEscape(l, r, n))
  <2>1. CASE r = "nl"
    <3>1. InText(NextRune(n), 0, "many")
      BY <1>7, <2>1, LineEndOn
    <3>2. "multilineString" \in DOMAIN Pending /\ Pending["multilineString"] = 0
          /\ Kind("multilineString") = "many"
      BY <1>1, <1>4, <1>5
    <3> HIDE DEF r, n
    <3>3. Fit(ToState(NextRune(n), "multilineString"))
      BY <3>1, <3>2, TextFits
    <3> QED BY <2>1, <3>3 DEF LexMultilineStringEscape
  <2>2. CASE r # "nl"
    <3> HIDE DEF r, n
    <3> QED BY <1>2, <1>4, <1>5, <1>7, <2>2 DEF LexMultilineStringEscape
  <2> QED BY <2>1, <2>2
<1>8. /\ InText(l, 2, "one") => Fit(Unicode(l, "string"))
      /\ InText(l, 2, "many") => Fit(Unicode(l, "multilineString"))
  BY <1>3, <1>4, <1>5
<1> QED BY <1>6, <1>7, <1>8

\* Where a string begins.
LEMMA Begins ==
  ASSUME NEW m, Based(m, 1), m.start = m.pos, m.start >= 1
  PROVE  /\ Quoting(m) /\ InText(m, 0, "one")
         /\ m.pos >= 4 => InText(m, 0, "many")
<1>1. Quoting(m) /\ m.pos \in Int /\ m.pos - 0 = m.pos /\ m.start + 0 <= m.pos
  BY DEF Based, Quoting
<1>2. Escaped(m.start, m.pos - 0)
  BY <1>1 DEF Escaped
<1>3. InText(m, 0, "one")
  BY <1>1, <1>2 DEF InText
<1>4. m.pos >= 4 => InText(m, 0, "many")
  BY <1>1, <1>2 DEF InText
<1> QED BY <1>1, <1>3, <1>4

LEMMA OpenPositions ==
  ASSUME IsDoc, NEW l, Calm(l, 2), NEW q \in {Mark, "'"}, Rune(l) = q
  PROVE  LET n == NextRune(l)  two == NextRune(n)  three == NextRune(two)
             one == Ignore(Backup(two))  back == Ignore(Backup(Backup(three)))  many == Ignore(three)
         IN  /\ Based(one, 1) /\ one.start = one.pos
             /\ Rune(n) = q => Based(back, 1) /\ back.start = back.pos
             /\ Rune(n) = q /\ Rune(two) = q => Based(many, 1) /\ many.start = many.pos /\ many.pos >= 4
<1> DEFINE n == NextRune(l)
           two == NextRune(n)
           three == NextRune(two)
           b == Backup(three)
           c == Backup(b)
           one == Ignore(Backup(two))
           back == Ignore(c)
           many == Ignore(three)
<1>1. q \notin {"eof", "two", "three"}
  BY MarkIs
<1>2. Based(l, 2) /\ Based(n, 2) /\ Based(two, 2) /\ Based(three, 2)
  BY BasedMoves DEF Calm
<1>3. Based(one, 1) /\ one.start = one.pos
  <2>1. Based(Backup(two), 1)
    <3>1. Based(Backup(two), 2)
      BY <1>2, BasedMoves
    <3> QED BY <3>1 DEF Based
  <2> HIDE DEF two
  <2> QED BY <2>1, BasedMoves, SimpleFields DEF Based
<1>4. l.pos \in Int /\ l.pos >= 2 /\ IsLexer(l) /\ IsLexer(n) /\ n.pos \in Int /\ IsLexer(two) /\ two.pos \in Int
      /\ IsLexer(three) /\ three.pos \in Int
  <2> HIDE DEF n, two, three
  <2> QED BY <1>2 DEF Based
<1>5. n.pos = l.pos + 1
  <2>1. n.width = 1 /\ n.pos = l.pos + n.width
    BY <1>1, <1>4, NextFields
  <2> HIDE DEF n
  <2> QED BY <2>1
<1> HIDE DEF n
<1>6. Rune(n) = q => two.pos = l.pos + 2
  <2>1. Rune(n) = q => two.width = 1 /\ two.pos = n.pos + two.width
    BY <1>1, <1>4, NextFields
  <2> HIDE DEF two
  <2> QED BY <1>4, <1>5, <2>1
<1> HIDE DEF two
<1>7. three.pos = two.pos + three.width /\ three.width \in 0 .. 3 /\ (Rune(two) = q => three.width = 1)
  BY <1>1, <1>4, NextFields
<1> HIDE DEF three
<1>8. Rune(n) = q /\ Rune(two) = q => Based(many, 1) /\ many.start = many.pos /\ many.pos >= 4
  <2>1. Based(three, 1)
    BY <1>2 DEF Based
  <2>2. Based(many, 1) /\ many.start = many.pos /\ many.pos = three.pos
    BY <1>4, <2>1, BasedMoves, SimpleFields
  <2> QED BY <1>4, <1>6, <1>7, <2>2
<1>9. ASSUME Rune(n) = q PROVE Based(back, 1) /\ back.start = back.pos
  <2>1. /\ IsLexer(b) /\ b.start = three.start /\ b.pos = three.pos - three.width /\ b.width = three.width
        /\ b.stack = three.stack /\ b.items = three.items
    BY <1>4, SimpleFields
  <2> HIDE DEF b
  <2>2. /\ IsLexer(c) /\ c.start = b.start /\ c.pos = b.pos - b.width
        /\ c.stack = b.stack /\ c.items = b.items
    BY <2>1, SimpleFields
  <2> HIDE DEF c
  <2>3. c.pos \in Int /\ c.pos >= 1
    BY <1>4, <1>6, <1>7, <1>9, <2>1, <2>2
  <2>4. Based(c, 1)
    BY <1>2, <2>1, <2>2, <2>3 DEF Based
  <2> QED BY <2>4, BasedMoves, SimpleFields DEF Based
<1> QED BY <1>3, <1>8, <1>9 DEF n, two, three, one, back, many, b, c

LEMMA OpenFits ==
  ASSUME IsDoc, NEW l, Calm(l, 2), NEW r, r = Rune(l)
  PROVE  /\ r = Mark => Fit(OpenString(NextRune(l), r, "string", "multilineString"))
         /\ r = "'" => Fit(OpenString(NextRune(l), r, "rawString", "multilineRawString"))
<1> DEFINE n == NextRune(l)
           two == NextRune(n)
           three == NextRune(two)
           one == Ignore(Backup(two))
           back == Ignore(Backup(Backup(three)))
           many == Ignore(three)
<1>1. ASSUME r \in {Mark, "'"}
      PROVE  /\ Based(one, 1) /\ one.start = one.pos
             /\ Rune(n) = r => Based(back, 1) /\ back.start = back.pos
             /\ Rune(n) = r /\ Rune(two) = r => Based(many, 1) /\ many.start = many.pos /\ many.pos >= 4
  BY <1>1, OpenPositions
<1>2. \A s, t : OpenString(n, r, s, t) =
        IF Rune(n) # r THEN ToState(one, s) ELSE IF Rune(two) # r THEN ToState(back, s) ELSE ToState(many, t)
  BY DEF OpenString, Accepts
<1> HIDE DEF n, two, three, one, back, many
<1>3. ASSUME r \in {Mark, "'"}
      PROVE  /\ Quoting(one) /\ InText(one, 0, "one")
             /\ Rune(n) = r => Quoting(back) /\ InText(back, 0, "one")
             /\ Rune(n) = r /\ Rune(two) = r => Quoting(many) /\ InText(many, 0, "many")
  <2>1. /\ one.pos >= 1
        /\ Rune(n) = r => back.pos >= 1
        /\ Rune(n) = r /\ Rune(two) = r => many.pos >= 1
    BY <1>1, <1>3 DEF Based
  <2> QED BY <1>1, <1>3, <2>1, Begins
<1>4. /\ "string" \in DOMAIN Pending /\ Pending["string"] = 0 /\ Kind("string") = "one"
      /\ "multilineString" \in DOMAIN Pending /\ Pending["multilineString"] = 0
      /\ Kind("multilineString") = "many" /\ "rawString" \in Raws /\ "multilineRawString" \in Raws
  BY StatesIs DEF Kind, Raws
<1>5. ASSUME r = Mark PROVE Fit(OpenString(n, r, "string", "multilineString"))
  <2>1. /\ Fit(ToState(one, "string"))
        /\ Rune(n) = r => Fit(ToState(back, "string"))
        /\ Rune(n) = r /\ Rune(two) = r => Fit(ToState(many, "multilineString"))
    BY <1>3, <1>4, <1>5, TextFits
  <2> QED BY <1>2, <2>1
<1>6. ASSUME r = "'" PROVE Fit(OpenString(n, r, "rawString", "multilineRawString"))
  <2>1. /\ Fit(ToState(one, "rawString"))
        /\ Rune(n) = r => Fit(ToState(back, "rawString"))
        /\ Rune(n) = r /\ Rune(two) = r => Fit(ToState(many, "multilineRawString"))
    BY <1>3, <1>4, <1>6, RawFits
  <2> QED BY <1>2, <2>1
<1> QED BY <1>5, <1>6 DEF n

LEMMA ValueFits ==
  ASSUME IsDoc, NEW l, Calm(l, 2), NEW r, r = Rune(l)
  PROVE  Fit(LexValue(l, r, NextRune(l)))
<1> DEFINE n == NextRune(l)
<1>1. Calm(n, 2) /\ Calm(Backup(n), 2)
  BY LooseMoves, CalmMoves
<1>2. /\ r = Mark => Fit(OpenString(n, r, "string", "multilineString"))
      /\ r = "'" => Fit(OpenString(n, r, "rawString", "multilineRawString"))
  BY OpenFits
<1> HIDE DEF n
<1>3. /\ \A s \in {"arrayValue", "true", "false", "numberStart", "numberOrDateStart"} : s \in Loose
      /\ "Array" \in Quiet
  BY DEF Loose, Quiet
<1>4. /\ Calm(Ignore(n), 2) /\ Calm(Errorf(n), 2)
      /\ Calm(ToState(n, "true"), 2) /\ Calm(ToState(n, "false"), 2)
      /\ Calm(ToState(n, "numberStart"), 2) /\ Calm(ToState(Backup(n), "numberOrDateStart"), 2)
  BY <1>1, <1>3, LooseMoves
<1>5. Calm(ToState(Emit(Ignore(n), "Array"), "arrayValue"), 2)
  BY <1>3, <1>4, SendCalm
<1> DEFINE v == LexValue(l, r, n)
<1>6. v \in {Ignore(n), Errorf(n), ToState(n, "true"), ToState(n, "false"), ToState(n, "numberStart"),
             ToState(Backup(n), "numberOrDateStart"), ToState(Emit(Ignore(n), "Array"), "arrayValue")}
      \/ (r = Mark /\ v = OpenString(n, r, "string", "multilineString"))
      \/ (r = "'" /\ v = OpenString(n, r, "rawString", "multilineRawString"))
  <2>1. CASE r = Mark
    <3>1. v = OpenString(n, r, "string", "multilineString")
      BY <2>1, Zenon DEF LexValue, Mark, Decimals
    <3> HIDE DEF v
    <3> QED BY <2>1, <3>1
  <2>2. CASE r = "'"
    <3>1. v = OpenString(n, r, "rawString", "multilineRawString")
      BY <2>2, Zenon DEF LexValue, Decimals
    <3> HIDE DEF v
    <3> QED BY <2>2, <3>1
  <2>3. CASE r \notin {Mark, "'"}
    <3> SUFFICES v \in {Ignore(n), Errorf(n), ToState(n, "true"), ToState(n, "false"), ToState(n, "numberStart"),
             ToState(Backup(n), "numberOrDateStart"), ToState(Emit(Ignore(n), "Array"), "arrayValue")}
      BY Zenon
    <3>1. r = "sp" => v = Ignore(n)
      BY Zenon DEF LexValue, Decimals
    <3>2. r = "[" => v = ToState(Emit(Ignore(n), "Array"), "arrayValue")
      BY Zenon DEF LexValue, Decimals
    <3>3. r = "t" => v = ToState(n, "true")
      BY Zenon DEF LexValue, Decimals
    <3>4. r = "f" => v = ToState(n, "false")
      BY Zenon DEF LexValue, Decimals
    <3>5. r = "-" => v = ToState(n, "numberStart")
      BY Zenon DEF LexValue, Decimals
    <3>6. r \in Decimals => v = ToState(Backup(n), "numberOrDateStart")
      BY Zenon DEF LexValue, Decimals
    <3>7. r \notin {"sp", "[", "t", "f", "-"} \cup Decimals => v = Errorf(n)
      BY <2>3, Zenon DEF LexValue, Mark
    <3> HIDE DEF v
    <3> QED BY <3>1, <3>2, <3>3, <3>4, <3>5, <3>6, <3>7
  <2> QED BY <2>1, <2>2, <2>3
<1> HIDE DEF v
<1>7. Fit(v)
  BY <1>2, <1>4, <1>5, <1>6, CalmFits
<1> QED BY <1>7 DEF v, n

-----------------------------------------------------------------------------
(* The steps keep every text fit to be converted.                          *)

LEMMA StateFits ==
  ASSUME IsDoc, NEW l, Placed(l), NEW s, l.state = s, s # "nil", s \in Loose \cup Strung
  PROVE  Fit(StateFn(s, l))
<1> DEFINE r == Rune(l)
           n == NextRune(l)
<1>1. s \in {"top", "keyStart"} => Calm(l, 1)
  BY DEF Placed
<1>2. s \in Loose \ {"nil", "top", "keyStart"} => Calm(l, 2)
  BY StatesIs DEF Placed, Loose
<1>3. s \in DOMAIN Pending => InText(l, Pending[s], Kind(s))
  BY DEF Placed
<1>4. s \in Raws => Quoting(l)
  BY DEF Placed
<1>5. CASE s \in {"top", "keyStart"}
  <2>1. StateFn("top", l) = LexTop(l, r, n) /\ StateFn("keyStart", l) = LexKeyStart(l, r, n)
    BY DEF StateFn, r, n
  <2>2. /\ LET m == LexTop(l, r, n) IN Calm(m, 2) \/ (Calm(m, 1) /\ m.state = "keyStart")
        /\ LET m == LexKeyStart(l, r, n) IN Calm(m, 2) \/ (Calm(m, 1) /\ m.state = "nil")
    BY <1>1, <1>5, QuietTop
  <2> HIDE DEF r, n
  <2>3. Fit(LexTop(l, r, n)) /\ Fit(LexKeyStart(l, r, n))
    BY <2>2, CalmFits
  <2> QED BY <1>5, <2>1, <2>3
<1>6. CASE s \in {"topEnd", "tableStart", "tableEnd", "arrayTableEnd", "tableNameStart", "tableName"}
  <2>1. /\ StateFn("topEnd", l) = LexTopEnd(l, r, n)
        /\ StateFn("tableStart", l) = LexTableStart(l, r, n)
        /\ StateFn("tableEnd", l) = ToState(Emit(l, "TableEnd"), "topEnd")
        /\ StateFn("arrayTableEnd", l) = LexArrayTableEnd(l, r, n)
        /\ StateFn("tableNameStart", l) = LexTableNameStart(l, r, n)
        /\ StateFn("tableName", l) = LexTableName(l, r, n)
    BY DEF StateFn, r, n
  <2>2. Calm(l, 2)
    BY <1>2, <1>6 DEF Loose
  <2>3. /\ Calm(LexTopEnd(l, r, n), 2) /\ Calm(LexTableStart(l, r, n), 2)
        /\ Calm(ToState(Emit(l, "TableEnd"), "topEnd"), 2)
        /\ Calm(LexArrayTableEnd(l, r, n), 2)
        /\ Calm(LexTableNameStart(l, r, n), 2) /\ Calm(LexTableName(l, r, n), 2)
    BY <2>2, QuietTables
  <2> HIDE DEF r, n
  <2>4. Calm(StateFn(s, l), 2)
    BY <1>6, <2>1, <2>3
  <2> QED BY <2>4, CalmFits
<1>7. CASE s \in {"key", "keyEnd", "commentStart", "comment", "arrayValue", "arrayValueEnd"}
  <2>1. /\ StateFn("key", l) = LexKey(l, r, n) /\ StateFn("keyEnd", l) = LexKeyEnd(l, r, n)
        /\ StateFn("commentStart", l) = LexCommentStart(l, r, n)
        /\ StateFn("comment", l) = LexComment(l, r, n)
        /\ StateFn("arrayValue", l) = LexArrayValue(l, r, n)
        /\ StateFn("arrayValueEnd", l) = LexArrayValueEnd(l, r, n)
    BY DEF StateFn, r, n
  <2>2. Calm(l, 2)
    BY <1>2, <1>7 DEF Loose
  <2>3. /\ Calm(LexKey(l, r, n), 2) /\ Calm(LexKeyEnd(l, r, n), 2)
        /\ Calm(LexCommentStart(l, r, n), 2) /\ Calm(LexComment(l, r, n), 2)
        /\ Calm(LexArrayValue(l, r, n), 2) /\ Calm(LexArrayValueEnd(l, r, n), 2)
    BY <2>2, QuietKeys, QuietArrays
  <2> HIDE DEF r, n
  <2>4. Calm(StateFn(s, l), 2)
    BY <1>7, <2>1, <2>3
  <2> QED BY <2>4, CalmFits
<1>8. CASE s = "value"
  <2>1. Calm(l, 2)
    BY <1>2, <1>8 DEF Loose
  <2>2. StateFn("value", l) = LexValue(l, r, n)
    BY DEF StateFn, r, n
  <2>3. Fit(LexValue(l, r, n))
    BY <2>1, ValueFits
  <2> QED BY <1>8, <2>2, <2>3
<1>9. CASE s \in {"true", "false", "numberOrDateStart", "numberOrDate", "dateAfterYear", "numberStart",
                  "number", "floatStart", "float"}
  <2>1. Calm(l, 2)
    BY <1>2, <1>9 DEF Loose
  <2>2. /\ StateFn("true", l) = LexConst(l, <<{"r"}, {"u"}, {"e"}>>)
        /\ StateFn("false", l) = LexConst(l, <<{"a"}, {"l"}, {"s"}, {"e"}>>)
        /\ StateFn("dateAfterYear", l) = LexDateAfterYear(l)
    BY DEF StateFn
  <2>3. /\ StateFn("numberOrDateStart", l) = NumberThen(l, r, n, "numberOrDate")
        /\ StateFn("numberOrDate", l) = LexNumberOrDate(l, r, n)
        /\ StateFn("numberStart", l) = NumberThen(l, r, n, "number")
        /\ StateFn("number", l) = LexNumber(l, r, n)
        /\ StateFn("floatStart", l) = NumberThen(l, r, n, "float")
        /\ StateFn("float", l) = LexFloat(l, r, n)
    BY DEF StateFn, r, n
  <2>4. /\ Calm(LexConst(l, <<{"r"}, {"u"}, {"e"}>>), 2)
        /\ Calm(LexConst(l, <<{"a"}, {"l"}, {"s"}, {"e"}>>), 2)
        /\ \A next \in {"numberOrDate", "number", "float"} : Calm(NumberThen(l, r, n, next), 2)
        /\ Calm(LexNumberOrDate(l, r, n), 2) /\ Calm(LexNumber(l, r, n), 2)
        /\ Calm(LexFloat(l, r, n), 2)
    BY <2>1, QuietNumbers
  <2>5. Calm(LexDateAfterYear(l), 2)
    BY <2>1, DateCalm
  <2> HIDE DEF r, n
  <2>6. Calm(StateFn(s, l), 2)
    <3>1. CASE s \in {"true", "false", "dateAfterYear"}
      BY <2>2, <2>4, <2>5, <3>1
    <3>2. CASE s \notin {"true", "false", "dateAfterYear"}
      <4> DEFINE c(next) == NumberThen(l, r, n, next)
      <4>1. Calm(c("numberOrDate"), 2) /\ Calm(c("number"), 2) /\ Calm(c("float"), 2)
        BY <2>4
      <4> QED BY <1>9, <2>3, <2>4, <3>2, <4>1
    <3> QED BY <3>1, <3>2
  <2> QED BY <2>6, CalmFits
<1>10. CASE s \in Strung
  <2>1. /\ s \in {"string", "multilineString", "stringEscape", "multilineStringEscape",
                  "stringUnicode", "multilineStringUnicode", "rawString", "multilineRawString"}
        /\ s = "string" => InText(l, 0, "one")
        /\ s = "multilineString" => InText(l, 0, "many")
        /\ s = "stringEscape" => InText(l, 1, "one")
        /\ s = "multilineStringEscape" => InText(l, 1, "many")
        /\ s = "stringUnicode" => InText(l, 2, "one")
        /\ s = "multilineStringUnicode" => InText(l, 2, "many")
        /\ s \in {"rawString", "multilineRawString"} => Quoting(l)
    BY <1>3, <1>4, <1>10, StatesIs DEF Kind, Raws
  <2>2. /\ s = "string" => Fit(LexString(l, r, n))
        /\ s = "rawString" => Fit(LexRawString(l, r, n))
        /\ s = "multilineString" => Fit(LexMultilineString(l, r, n))
        /\ s = "multilineRawString" => Fit(LexMultilineRawString(l, r, n))
        /\ s = "stringEscape" => Fit(LexStringEscape(l, r, n))
        /\ s = "multilineStringEscape" => Fit(LexMultilineStringEscape(l, r, n))
        /\ s = "stringUnicode" => Fit(Unicode(l, "string"))
        /\ s = "multilineStringUnicode" => Fit(Unicode(l, "multilineString"))
    BY <2>1, StringFits, RawStringFits, MultilineFits, MultilineRawFits, EscapeFits
  <2>3. /\ StateFn("string", l) = LexString(l, r, n)
        /\ StateFn("rawString", l) = LexRawString(l, r, n)
        /\ StateFn("multilineString", l) = LexMultilineString(l, r, n)
        /\ StateFn("multilineRawString", l) = LexMultilineRawString(l, r, n)
        /\ StateFn("stringEscape", l) = LexStringEscape(l, r, n)
        /\ StateFn("multilineStringEscape", l) = LexMultilineStringEscape(l, r, n)
        /\ StateFn("stringUnicode", l) = Unicode(l, "string")
        /\ StateFn("multilineStringUnicode", l) = Unicode(l, "multilineString")
    BY DEF StateFn, r, n
  <2> HIDE DEF r, n
  <2> QED BY <2>1, <2>2, <2>3
<1> QED BY <1>5, <1>6, <1>7, <1>8, <1>9, <1>10 DEF Loose

\* A lexer that fits the parser is in a state that it has a function for.
LEMMA StateKnown ==
  ASSUME NEW s, NEW st, NEW w, Fits(s, st, w)
  PROVE  s \in Loose \cup Strung /\ s # "nil"
<1>1. s \in ValueStates \cup {"top", "topEnd", "tableStart", "tableEnd", "arrayTableEnd",
        "tableNameStart", "tableName", "keyStart", "key", "keyEnd", "commentStart", "comment",
        "arrayValue", "arrayValueEnd"}
  BY DEF Fits
<1> QED BY <1>1, StatesIs DEF ValueStates, Loose

\* Only the parser makes an item of what is in the channel.
LEMMA PlacedSent ==
  ASSUME NEW l, Placed(l)
  PROVE  Sent(l.items)
<1>1. l.state \in Strung => l.state \in DOMAIN Pending \/ l.state \in Raws
  BY DEF Strung
<1> QED BY <1>1 DEF Placed, Calm, Based, InText, Quoting

LEMMA PlacedTaken ==
  ASSUME NEW l, IsLexer(l), Placed(l)
  PROVE  Placed([l EXCEPT !.items = <<>>])
<1> DEFINE m == [l EXCEPT !.items = <<>>]
<1>1. IsLexer(m) /\ m.start = l.start /\ m.pos = l.pos /\ m.state = l.state /\ m.stack = l.stack
      /\ m.items = <<>>
  BY PutItems DEF At
<1> HIDE DEF m
<1>2. Sent(m.items)
  BY <1>1, EmptySeq DEF Sent
<1>3. \A p : Calm(l, p) => Calm(m, p)
  BY <1>1, <1>2 DEF Calm, Based
<1>4. (Quoting(l) => Quoting(m)) /\ \A d, kind : InText(l, d, kind) => InText(m, d, kind)
  BY <1>1, <1>2 DEF InText, Quoting
<1>5. Placed(m)
  BY <1>1, <1>2, <1>3, <1>4 DEF Placed
<1> QED BY <1>5 DEF m

\* What the converters make of an item.
LEMMA ConvertedIs ==
  ASSUME NEW item, Sound(item)
  PROVE  /\ Converted(item) = "panic" => ~Tame
         /\ Converted(item) = "bug" => ~Tame \/ Holds("Z")
<1>1. ASSUME Tame, item.typ \in {"String", "MultilineString"} PROVE Converted(item) = "run"
  <2>1. item.text \in Seq(Bytes) /\ Fair(item.text)
    BY <1>1 DEF Sound
  <2>2. ReplaceUnicode(Unescaped(item.text)) = "run" /\ ReplaceUnicode(Unescaped(Stripped(item.text))) = "run"
    BY <2>1, FairIsRun
  <2> QED BY <1>1, <2>2 DEF Converted
<1>2. ASSUME item.typ = "Datetime" PROVE Holds("Z") /\ Converted(item) # "panic"
  BY <1>2 DEF Sound, Converted, ParseTime
<1>3. ASSUME item.typ \notin {"String", "MultilineString", "Datetime"} PROVE Converted(item) = "run"
  BY <1>3 DEF Converted
<1> QED BY <1>1, <1>2, <1>3

\* Placed and what it is made of depend on the text, which no step changes.
FitInv == LexInv /\ ItemsFit /\ IsDoc /\ (verdict = "run" => Placed(lx))

LEMMA SameDoc ==
  ASSUME doc' = doc, Placed(lx')
  PROVE  Placed(lx)'
BY DEF Placed, Calm, Based, Sent, Sound, Tame, Follows, Spells, Holds, Quoting, InText, Escaped, EscapeAt, HexAt,
       IsLexer

LEMMA FitInit == LexInit => FitInv
<1> SUFFICES ASSUME LexInit PROVE FitInv
  OBVIOUS
<1>1. LexInv /\ verdict = "run"
  BY LexInitInv DEF LexInit
<1>2. IsDoc
  <2>1. PICK d \in Documents : doc = Append(d, "nl")
    BY DEF LexInit
  <2>2. d \in Seq(STRING) /\ Whole(d)
    BY DocumentsAssumption
  <2>3. d \in Seq(Bytes) /\ "nl" \in Bytes
    <3>1. STRING \subseteq Bytes
      BY DEF Bytes
    <3> DEFINE S == STRING
    <3>2. \A A, B : A \subseteq B => Seq(A) \subseteq Seq(B)
      OBVIOUS
    <3> HIDE DEF S
    <3>3. S \subseteq Bytes /\ d \in Seq(S)
      BY <2>2, <3>1 DEF S
    <3> QED BY <3>2, <3>3, BytesIs
  <2>4. /\ doc \in Seq(Bytes) /\ Len(doc) = Len(d) + 1 /\ Len(d) \in Nat
        /\ doc[Len(d) + 1] = "nl" /\ \A i \in 1 .. Len(d) : doc[i] = d[i]
    BY <2>1, <2>3
  <2>5. ASSUME NEW i \in 1 .. Len(doc)
        PROVE  /\ doc[i] \in {"two", "three"} => i + 1 <= Len(doc) /\ doc[i + 1] = "cont"
               /\ doc[i] = "three" => i + 2 <= Len(doc) /\ doc[i + 2] = "cont"
    <3>1. CASE i = Len(d) + 1
      BY <2>4, <3>1
    <3>2. CASE i # Len(d) + 1
      <4>1. i \in 1 .. Len(d) /\ doc[i] = d[i]
        BY <2>4, <3>2
      <4>2. /\ d[i] \in {"two", "three"} => i + 1 <= Len(d) /\ d[i + 1] = "cont"
            /\ d[i] = "three" => i + 2 <= Len(d) /\ d[i + 2] = "cont"
        BY <2>2, <4>1 DEF Whole
      <4> QED BY <2>4, <4>1, <4>2
    <3> QED BY <3>1, <3>2
  <2>6. Whole(doc)
    BY <2>5 DEF Whole
  <2> QED BY <2>4, <2>6 DEF IsDoc
<1>3. ItemsFit
  BY <1>1 DEF ItemsFit
<1>4. Placed(lx)
  <2>1. IsLexer(lx) /\ lx.start = 1 /\ lx.pos = 1 /\ lx.state = "top" /\ lx.stack = <<>> /\ lx.items = <<>>
    BY DEF LexInit, IsLexer
  <2>2. Sent(<<>>)
    BY EmptySeq DEF Sent
  <2>3. <<>> \in Seq(Stacked) /\ "top" \notin Strung \cup {"panic"}
    BY StatesIs, EmptySeq DEF Stacked
  <2>4. Calm(lx, 1)
    BY <2>1, <2>2, <2>3 DEF Calm, Based
  <2>5. "top" \notin DOMAIN Pending /\ "top" \notin Raws
    BY StatesIs DEF Raws
  <2> QED BY <2>1, <2>4, <2>5 DEF Placed
<1> QED BY <1>1, <1>2, <1>3, <1>4 DEF FitInv

LEMMA FitLexStep == FitInv /\ LexStep => FitInv'
<1> SUFFICES ASSUME FitInv, LexStep PROVE FitInv'
  OBVIOUS
<1>1. LexInv /\ IsDoc /\ Placed(lx) /\ verdict = "run" /\ lx.items = <<>> /\ doc' = doc
  BY DEF FitInv, LexStep
<1>2. LexInv'
  BY <1>1, LexStepInv
<1>3. IsDoc'
  BY <1>1 DEF IsDoc, Whole
<1> DEFINE l == StateFn(lx.state, lx)
<1>4. Fit(l) /\ lx.state # "nil"
  <2>1. PICK s, st : Has(lx, s, st, "none") /\ Fits(s, st, wants)
    BY <1>1, Waiting DEF LexInv
  <2>2. lx.state = s
    BY <2>1 DEF Has
  <2> QED BY <1>1, <2>1, <2>2, StateKnown, StateFits
<1>5. IF l.state = "panic" THEN verdict' = "panic" ELSE lx' = l /\ verdict' = "run"
  BY <1>1, <1>4 DEF LexStep
<1> HIDE DEF l
<1>6. ItemsFit' /\ (verdict' = "run" => Placed(lx)')
  <2>1. CASE l.state = "panic"
    <3>1. verdict' = "panic" /\ Holds("three")
      BY <1>4, <1>5, <2>1 DEF Fit
    <3>2. Holds("three")'
      BY <1>1, <3>1 DEF Holds
    <3> QED BY <3>1, <3>2 DEF ItemsFit
  <2>2. CASE l.state # "panic"
    <3>1. lx' = l /\ verdict' = "run" /\ Placed(lx')
      BY <1>4, <1>5, <2>2 DEF Fit
    <3> QED BY <1>1, <3>1, SameDoc DEF ItemsFit
  <2> QED BY <2>1, <2>2
<1> QED BY <1>2, <1>3, <1>6 DEF FitInv

LEMMA FitParseItem == FitInv /\ ParseItem => FitInv'
<1> SUFFICES ASSUME FitInv, ParseItem PROVE FitInv'
  OBVIOUS
<1>1. LexInv /\ IsDoc /\ Placed(lx) /\ verdict = "run" /\ lx.items # <<>> /\ doc' = doc
  BY DEF FitInv, ParseItem
<1>2. LexInv'
  BY <1>1, ParseItemInv
<1>3. IsDoc'
  BY <1>1 DEF IsDoc, Whole
<1> DEFINE item == Head(lx.items)
<1>4. CASE item.typ = "Error"
  <2>1. verdict' = "error"
    BY <1>4 DEF ParseItem
  <2> QED BY <1>2, <1>3, <2>1 DEF FitInv, ItemsFit
<1>5. CASE item.typ # "Error"
  <2>1. PICK s, st, k, t :
          /\ Has(lx, s, st, k) /\ lx.items = <<[typ |-> k, text |-> t]>> /\ k # "Error"
          /\ wants # <<>> /\ Expects(Head(wants).what, k)
    BY <1>1, <1>5, Taking DEF LexInv
  <2>2. item = [typ |-> k, text |-> t] /\ Tail(lx.items) = <<>>
    <3>1. \A x : Head(<<x>>) = x /\ Tail(<<x>>) = <<>>
      OBVIOUS
    <3> QED BY <2>1, <3>1
  <2>3. verdict' \in {"ok", "error", Converted(item)}
    <3>1. Expects(Head(wants).what, item.typ)
      BY <2>1, <2>2
    <3> QED BY <1>5, <3>1 DEF ParseItem
  <2>4. lx' = [lx EXCEPT !.items = <<>>]
    <3>1. lx' = [lx EXCEPT !.items = Tail(lx.items)]
      BY DEF ParseItem
    <3> QED BY <2>2, <3>1
  <2>5. Placed(lx)'
    <3>1. IsLexer(lx)
      BY <2>1 DEF Has
    <3>2. Placed(lx')
      BY <1>1, <2>4, <3>1, PlacedTaken
    <3> QED BY <1>1, <3>2, SameDoc
  <2>6. /\ Converted(item) = "panic" => ~Tame
        /\ Converted(item) = "bug" => ~Tame \/ Holds("Z")
    <3>1. Sound(item)
      BY <1>1, PlacedSent DEF Sent
    <3> HIDE DEF item
    <3> QED BY <3>1, ConvertedIs
  <2> HIDE DEF item
  <2>7. /\ verdict' = "panic" => ~Tame
        /\ verdict' = "bug" => ~Tame \/ Holds("Z")
    BY <2>3, <2>6
  <2>8. ItemsFit'
    BY <1>1, <2>7 DEF ItemsFit, Tame, Follows, Spells, Holds
  <2> QED BY <1>2, <1>3, <2>5, <2>8 DEF FitInv
<1> QED BY <1>4, <1>5

\* In any set of documents, the parser (parse.go) can convert the texts that the lexer (lex.go)
\* hands over: where no backslash is before another or before a line end, and none is spelled
\* \u005c, replaceUnicode meets no \u without four hexadecimals, however often it looks again,
\* and only time.Parse may reject what the lexer let through;
\* and current slices a text with pos before start only after a rune of three bytes.
THEOREM TextsAreFit == LexSpec => []ItemsFit
<1>1. LexInit => FitInv
  BY FitInit
<1>2. FitInv /\ [LexNext]_lexVars => FitInv'
  <2>1. FitInv /\ UNCHANGED lexVars => FitInv'
    <3> SUFFICES ASSUME FitInv, UNCHANGED lexVars PROVE FitInv'
      OBVIOUS
    <3>1. doc' = doc /\ lx' = lx /\ wants' = wants /\ verdict' = verdict
      BY DEF lexVars
    <3>2. LexInv'
      BY <3>1 DEF FitInv, LexInv, Fine
    <3>3. ItemsFit' /\ IsDoc'
      BY <3>1 DEF FitInv, ItemsFit, IsDoc, Whole, Follows, Spells, Holds
    <3>4. verdict' = "run" => Placed(lx)'
      BY <3>1, SameDoc DEF FitInv
    <3> QED BY <3>2, <3>3, <3>4 DEF FitInv
  <2> QED BY <2>1, FitLexStep, FitParseItem DEF LexNext
<1>3. FitInv => ItemsFit
  BY DEF FitInv
<1> QED BY <1>1, <1>2, <1>3, PTL DEF LexSpec

=============================================================================
