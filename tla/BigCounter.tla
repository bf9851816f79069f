----------------------------- MODULE BigCounter -----------------------------
(***************************************************************************)
(* The counters of bigcounter/bigcounter.go: fix64base keeps a number in   *)
(* a uint64, Any255Base keeps big-endian digits with the index ptr of its  *)
(* leading one, AnyBaseCounter picks one of the two by size. A digit is a  *)
(* uint8, 0..Base - 1 here, and a uint64 has Word digits. Indices of       *)
(* digits are 1..size, so a ptr of 0 is -1 in the code.                    *)
(***************************************************************************)
EXTENDS Integers, Sequences, FiniteSetsExt

CONSTANTS
  Base,      \* 256
  Word,      \* digits of a uint64, 8
  CtrSizes,  \* sizes asked of NewAnyBaseCounter
  CtrBytes,  \* big-endian numbers given to SetInit, SetMax and FromBigInt
  Amounts    \* arguments of AddUint64 and Mul

ASSUME BaseAssumption == Base \in Nat /\ Base >= 3 /\ Word \in Nat \ {0}
ASSUME CtrInputs == CtrSizes \subseteq Int /\ Amounts \subseteq Nat /\ CtrBytes \subseteq Seq(0..Base - 1)

VARIABLES
  ctr,     \* the counter
  ctrOut,  \* what the last call was and returned
  plain    \* history: no SetInit, SetMax or FromBigInt yet

ctrVars == <<ctr, ctrOut, plain>>

Digits == 0..Base - 1

\* What the first n of some big-endian digits stand for, and the digits of a
\* number, the last of them first.
Value(s, n) ==
  LET value[i \in 0..n] == IF i = 0 THEN 0 ELSE value[i - 1] * Base + s[i] IN value[n]
ToDigits(n, len) ==
  LET rest[i \in 0..len] == IF i = 0 THEN n ELSE rest[i - 1] \div Base
  IN [i \in 1..len |-> rest[len - i] % Base]
Fill(len, d) == [i \in 1..len |-> d]

\* The greatest number of len digits.
Largest(len) == Value(Fill(len, Base - 1), len)
Uint64s == Largest(Word) + 1

Newfix64base(size) ==
  [any |-> FALSE, size |-> size, ptr |-> size, init |-> 0, count |-> 0,
   max |-> IF size = Word THEN Largest(size) - 1 ELSE Largest(size)]

NewAny255Base(size) ==
  [any |-> TRUE, size |-> size, ptr |-> size, init |-> Fill(size, 0),
   count |-> Fill(size, 0), max |-> Fill(size, Base - 1)]

NewAnyBaseCounter(n) ==
  LET size == CASE n = 0 -> 1 [] n < 0 -> -n [] OTHER -> n
  IN IF size <= Word THEN Newfix64base(size) ELSE NewAny255Base(size)

\* Up flow goes to init, down flow to max.
Reset(c, over) ==
  [c EXCEPT !.count = IF over THEN c.init ELSE c.max,
            !.ptr = IF ~c.any THEN @ ELSE IF over THEN c.size ELSE 1]

\* The last index below n whose digit differs from the one of limit, or 0.
LastOther(c, limit, n) == Max({i \in 1..n : c.count[i] # limit[i]} \cup {0})

\* Plausible fault, not used by the specification.
RaisedNever(ptr0, n) == ptr0

\* ptr after a change of digit n.
Raised(ptr0, n) == Min({ptr0, n})

\* Plus returns the counter after the call and whether it went over.
AnyPlus(c) ==
  LET p == LastOther(c, c.max, c.size)
  IN IF p = 0 THEN [to |-> Reset(c, TRUE), err |-> "over"]
     ELSE [to |-> [c EXCEPT !.count = [i \in 1..c.size |->
                                         CASE i < p -> @[i]
                                           [] i = p -> (@[i] + 1) % Base
                                           [] OTHER -> c.init[i]],
                            !.ptr = Raised(@, p)],
           err |-> "ok"]

FixPlus(c) ==
  IF c.count >= c.max THEN [to |-> Reset(c, TRUE), err |-> "over"]
  ELSE [to |-> [c EXCEPT !.count = @ + 1], err |-> "ok"]

\* Plausible fault, not used by the specification.
FixAddShort(c, m) ==
  IF m = 0 \/ c.count + m < c.max THEN [to |-> [c EXCEPT !.count = @ + m], err |-> "ok"]
  ELSE [to |-> Reset(c, TRUE), err |-> "over"]

\* AddUint64 of fix64base stops at the first step that goes over.
FixAdd(c, m) ==
  IF m = 0 \/ c.count + m <= c.max THEN [to |-> [c EXCEPT !.count = @ + m], err |-> "ok"]
  ELSE [to |-> Reset(c, TRUE), err |-> "over"]

AnyAdd(c, m) ==
  LET add[i \in 0..m] ==
        IF i = 0 THEN [to |-> c, err |-> "ok"]
        ELSE LET r == add[i - 1] IN IF r.err = "over" THEN r ELSE AnyPlus(r.to)
  IN add[m]

\* Mul of fix64base adds the first count m times to it.
FixMul(c, m) ==
  LET mul[i \in 0..m] ==
        IF i = 0 \/ c.count = 0 THEN [to |-> c, err |-> "ok"]
        ELSE LET r == mul[i - 1]
             IN CASE r.err = "over" -> r
                  [] r.err # "over" /\ r.to.count >= c.max -> [to |-> Reset(c, TRUE), err |-> "over"]
                  [] OTHER -> [r EXCEPT !.to.count = (@ + c.count) % Uint64s]
  IN mul[m]

\* The inner loop of Any255Base.Mul is left by the overflow only.
AnyMul(c, m) ==
  IF m = 0 \/ (c.count[c.size] = 0 /\ c.ptr = c.size) THEN [to |-> c, err |-> "ok"]
  ELSE [to |-> Reset(c, TRUE), err |-> "over"]

FixMimus(c) ==
  IF c.count = c.init THEN [to |-> Reset(c, FALSE), err |-> "over"]
  ELSE [to |-> [c EXCEPT !.count = (@ - 1) % Uint64s], err |-> "ok"]

\* The borrow of Mimus at digit n, and the ptr it leaves.
Borrow(c, n) ==
  LET count == [i \in 1..c.size |->
                  CASE i = c.size -> c.max[i]
                    [] i = n /\ n < c.size -> (c.count[i] - 1) % Base
                    [] n < i /\ i < c.size -> (c.max[i] - 1) % Base
                    [] OTHER -> c.count[i]]
  IN [c EXCEPT !.count = count,
               !.ptr = IF count[n] = c.init[n] /\ @ = n THEN @ + 1 ELSE @]

\* What a call of Mimus may make of c.
Turns(c) ==
  [any : {c.any}, size : {c.size}, ptr : 0..c.size, init : {c.init},
   count : [1..c.size -> Digits], max : {c.max}]

\* After a borrow the loop of Mimus goes on; it indexes below the slice when
\* there is no digit to borrow from.
AnyMimus(c) ==
  LET mimus[d \in Turns(c)] ==
        LET n == LastOther(d, d.init, d.size - 1)
        IN CASE d.count[d.size] # d.init[d.size] ->
                  [to |-> [d EXCEPT !.count[d.size] = (@ - 1) % Base], err |-> "ok"]
             [] d.count[d.size] = d.init[d.size] /\ d.ptr = d.size ->
                  [to |-> Reset(d, FALSE), err |-> "over"]
             [] d.count[d.size] = d.init[d.size] /\ d.ptr # d.size /\ n = 0 ->
                  [to |-> d, err |-> "panic"]
             [] OTHER -> mimus[Borrow(d, n)]
  IN mimus[c]

\* A big-endian number in the low bytes of a buffer of n, cut at the end.
Padded(p, n) == Fill(Max({n - Len(p), 0}), 0) \o SubSeq(p, 1, Min({n, Len(p)}))

\* Any255Base writes the low digits only and leaves the others.
Overlay(s, p) ==
  LET skip == Max({Len(s) - Len(p), 0})
  IN [i \in 1..Len(s) |-> IF i <= skip THEN s[i] ELSE p[i - skip]]

SetMax(c, p) ==
  [c EXCEPT !.max = IF c.any THEN Overlay(@, p) ELSE (Value(Padded(p, Word), Word) - 1) % Uint64s]

FixSetInit(c, p) ==
  LET n == Value(Padded(p, Word), Word) IN [c EXCEPT !.init = n, !.count = n]

AnySetInit(c, p) ==
  LET init == Overlay(c.init, p)
      skip == Max({c.size - Len(p), 0})
  IN [c EXCEPT !.init = init, !.count = Overlay(@, p),
               !.ptr = Min({i \in skip + 1..c.size : init[i] # 0} \cup {c.size})]

\* FromBigInt of Any255Base puts the first byte last, and leaves ptr above.
AnyFromBigInt(c, p) ==
  LET n == Min({Len(p), c.size})
  IN [c EXCEPT !.count = [i \in 1..c.size |->
                            IF i > c.size - n THEN p[c.size - i + 1] ELSE @[i]],
               !.ptr = c.size - n]

FixFromBigInt(c, p) == [c EXCEPT !.count = Value(p, Len(p)) % Uint64s]

\* The digits of a counter; those of fix64base are cut at its size.
CtrDigits(c) == IF c.any THEN c.count ELSE ToDigits(c.count, c.size)

\* FillBytes: as many low digits as there is room for.
FillBytes(c, n) ==
  LET s == CtrDigits(c)
  IN [i \in 1..n |-> IF i + c.size - n >= 1 THEN s[i + c.size - n] ELSE 0]

\* FillExpBytes spreads the digits from the end of n bytes. fix64base does
\* not move at all when there is less than one byte for a digit.
FillExpBytes(c, n) ==
  LET s == CtrDigits(c)
      by == (n - 1) \div c.size
      at == IF c.any /\ by = 0 THEN 1 ELSE by
      kept(i) == {k \in 0..c.size - 1 : n - k * at = i}
  IN [i \in 1..n |-> IF kept(i) = {} THEN 0 ELSE s[c.size - Max(kept(i))]]

\* cmp: Any255Base compares ptr, then the digits up to ptr and no further.
FixCmp(c, d) == CASE c.count < d.count -> "less" [] c.count = d.count -> "equal" [] OTHER -> "greater"

\* The order of the first of n digits that differ.
FirstOther(s, t, n) ==
  LET diff == {i \in 1..n : s[i] # t[i]}
  IN CASE diff = {} -> "equal"
       [] diff # {} /\ s[Min(diff)] < t[Min(diff)] -> "less"
       [] OTHER -> "greater"

AnyCmp(c, d) ==
  CASE c.ptr > d.ptr -> "less"
    [] c.ptr < d.ptr -> "greater"
    [] OTHER -> FirstOther(c.count, d.count, c.ptr)

\* Cmp of counters of two types, or of two AnyBaseCounters: the loop that
\* looks for a zero byte never ends when the first byte is one, and finds -1
\* when there is none.
ZeroByte(s) == IF \A i \in DOMAIN s : s[i] # 0 THEN 0 ELSE Min({i \in DOMAIN s : s[i] = 0})
MixedCmp(s, t) ==
  IF s[1] = 0 \/ t[1] = 0 THEN "spin"
  ELSE CASE ZeroByte(s) < ZeroByte(t) -> "less"
         [] ZeroByte(s) > ZeroByte(t) -> "greater"
         [] OTHER -> FirstOther(s, t, ZeroByte(s))

Cmp(c, d) ==
  CASE c.any /\ d.any -> AnyCmp(c, d)
    [] ~c.any /\ ~d.any -> FixCmp(c, d)
    [] OTHER -> MixedCmp(CtrDigits(c), CtrDigits(d))

\* Touint64 of Any255Base indexes one beyond its result.
Touint64(c) == IF c.any THEN "panic" ELSE "ok"

------------------------------------------------------------------------------
CtrInit ==
  /\ \E n \in CtrSizes : ctr = NewAnyBaseCounter(n)
  /\ ctrOut = [op |-> "New", m |-> 0, err |-> "ok"]
  /\ plain = TRUE

\* A call that changes the counter; a panic ends the caller.
Call(op, m, r) == ctr' = r.to /\ ctrOut' = [op |-> op, m |-> m, err |-> r.err]
Plus == Call("Plus", 1, IF ctr.any THEN AnyPlus(ctr) ELSE FixPlus(ctr)) /\ UNCHANGED plain
Mimus == Call("Mimus", 1, IF ctr.any THEN AnyMimus(ctr) ELSE FixMimus(ctr)) /\ UNCHANGED plain

AddUint64(m) == Call("Add", m, IF ctr.any THEN AnyAdd(ctr, m) ELSE FixAdd(ctr, m)) /\ UNCHANGED plain
Mul(m) == Call("Mul", m, IF ctr.any THEN AnyMul(ctr, m) ELSE FixMul(ctr, m)) /\ UNCHANGED plain
CallReset(over) == Call("Reset", 0, [to |-> Reset(ctr, over), err |-> "ok"]) /\ UNCHANGED plain

Set(c) == ctr' = c /\ ctrOut' = [op |-> "Set", m |-> 0, err |-> "ok"] /\ plain' = FALSE
CallSetMax(p) == Set(SetMax(ctr, p))
CallSetInit(p) == Set(IF ctr.any THEN AnySetInit(ctr, p) ELSE FixSetInit(ctr, p))
FromBigInt(p) == Set(IF ctr.any THEN AnyFromBigInt(ctr, p) ELSE FixFromBigInt(ctr, p))

\* What the calls that only read return.
Read(op, got) == ctrOut' = [op |-> op, m |-> 0, err |-> got] /\ UNCHANGED <<ctr, plain>>
CallTouint64 == Read("Touint64", Touint64(ctr))
CallCmp(c) == Read("Cmp", Cmp(ctr, c))

CtrNext ==
  /\ ctrOut.err \notin {"panic", "spin"}
  /\ \/ Plus \/ Mimus \/ CallTouint64
     \/ \E m \in Amounts : AddUint64(m) \/ Mul(m)
     \/ \E over \in BOOLEAN : CallReset(over)
     \/ \E p \in CtrBytes : CallSetMax(p) \/ CallSetInit(p) \/ FromBigInt(p)
     \/ \E n \in CtrSizes : CallCmp(NewAnyBaseCounter(n))

------------------------------------------------------------------------------
CtrTypeOK ==
  /\ ctr.size \in 1..3 * Word /\ ctr.ptr \in 0..ctr.size /\ plain \in BOOLEAN
  /\ IF ctr.any THEN {ctr.count, ctr.init, ctr.max} \subseteq [1..ctr.size -> Digits]
     ELSE {ctr.count, ctr.init, ctr.max} \subseteq 0..Uint64s - 1

\* The number in the bytes FillBytes writes, and in those FillExpBytes
\* spreads over three times the room.
Number(c) == Value(FillBytes(c, c.size), c.size)
ExpNumber(c) ==
  Value([i \in 1..c.size |-> FillExpBytes(c, 3 * c.size)[3 * c.size - 2 * (c.size - i)]], c.size)
CtrTop(c) == IF c.any THEN Value(c.max, c.size) ELSE c.max

\* With the limits it was made with, and from where no Mul of fix64base has
\* gone beyond them, Plus adds one and AddUint64(m) adds m in both
\* representations, as the bytes they are written to show it, and what goes
\* over the top is reported and leaves zero.
PlusCounts ==
  [][plain /\ (ctr.any \/ ctr.count <= ctr.max) /\ ctrOut'.op \in {"Plus", "Add"} =>
       LET n == Number(ctr) + ctrOut'.m
       IN IF n <= CtrTop(ctr) THEN {Number(ctr'), ExpNumber(ctr')} = {n} /\ ctrOut'.err = "ok"
          ELSE Number(ctr') = 0 /\ ctrOut'.err = "over"]_ctrVars

\* The index of the leading digit, last for the zero.
Lead(c) == Min({i \in 1..c.size : c.count[i] # 0} \cup {c.size})

\* The counter c with the digits s instead, and ptr where the calls leave it.
Peer(c, s) == LET d == [c EXCEPT !.count = s] IN [d EXCEPT !.ptr = Lead(d)]

\* No order of Plus, Mimus, AddUint64, Mul and Reset moves ptr away from the
\* leading digit, so Mimus always finds a digit to borrow from, and cmp never
\* takes the smaller of two numbers for the greater.
PtrLeads ==
  plain /\ ctr.any =>
    /\ ctr.ptr = Lead(ctr) /\ (ctrOut.op = "Mimus" => ctrOut.err # "panic")
    /\ \A s \in [1..ctr.size -> Digits] :
         /\ AnyCmp(ctr, Peer(ctr, s)) = "less" => Value(ctr.count, ctr.size) < Value(s, ctr.size)
         /\ AnyCmp(ctr, Peer(ctr, s)) = "greater" => Value(ctr.count, ctr.size) > Value(s, ctr.size)
=============================================================================
