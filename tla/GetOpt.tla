------------------------------- MODULE GetOpt -------------------------------
(***************************************************************************)
(* getopt.Opts_t: the parser of command lines, the defaults, and the two   *)
(* methods that change one key of a parsed command line by writing it out  *)
(* and parsing it again (getopt.go, and the line helpers of misc.go).      *)
(*                                                                         *)
(* An argument is the sequence of the words that blanks or commas part; a  *)
(* line written out and split again is cut at each of them. A word that    *)
(* begins with a dash is a flag, alone in its argument.                    *)
(***************************************************************************)
EXTENDS Integers, Sequences
LOCAL INSTANCE SequencesExt

CONSTANTS
  ShortFlags, LongFlags,  \* the flags of one dash, and of two
  OptWords,               \* the other words
  OptArgs,                \* the arguments of a command line, sequences of words
  MaxArgs,                \* bound on the length of a command line
  MaxOptCalls             \* bound on the calls of a behaviour

VARIABLES
  longKeys,    \* the flags in the order of the command line
  longArr,     \* the values of each
  noFlagList,  \* the arguments that are nobody's value
  defaults,    \* the default values of the section "options"
  optCalls,
  deleted      \* history: key and value of the last call, if it was DelKeyValue

optVars == <<longKeys, longArr, noFlagList, defaults, optCalls, deleted>>

Flags == ShortFlags \cup LongFlags
Dashes == {"-", "--"}
IsFlag(arg) == arg # <<>> /\ Head(arg) \in Flags
Empty == [keys |-> <<>>, arr |-> [k \in {} |-> <<>>], rest |-> <<>>]

\* ArgsIndex of -1 adds the key; its values are overwritten.
SetKey(o, key, values) ==
  [o EXCEPT !.keys = IF Contains(@, key) THEN @ ELSE Append(@, key),
            !.arr = [k \in DOMAIN @ \cup {key} |-> IF k = key THEN values ELSE @[k]]]

\* The loop of Parse. The holder after the last argument is an empty one.
ParseArgs(args) ==
  LET take(acc, arg) ==
        LET flag == IF acc.new = "" THEN acc.o ELSE SetKey(acc.o, acc.new, <<"">>)
        IN  IF arg = <<>> THEN [new |-> "", o |-> flag]
            ELSE IF Head(arg) \in Dashes THEN acc
            ELSE CASE IsFlag(arg) -> [new |-> Head(arg), o |-> flag]
                   [] acc.new # "" /\ ~IsFlag(arg) -> [new |-> "", o |-> SetKey(acc.o, acc.new, arg)]
                   [] OTHER -> [new |-> "", o |-> [flag EXCEPT !.rest = Append(@, arg)]]
  IN  FoldLeft(take, [new |-> "", o |-> Empty], Append(args, <<>>)).o

\* LineToArgs of a line of words.
LineToArgs(words) == [i \in 1 .. Len(words) |-> <<words[i]>>]

Opts == [keys |-> longKeys, arr |-> longArr, rest |-> noFlagList]

GetStringList(o, k) ==
  IF k \in DOMAIN o.arr /\ o.arr[k] # <<>> THEN o.arr[k]
  ELSE IF k \in DOMAIN defaults THEN defaults[k] ELSE <<>>
GetBool(o, k) ==
  LET list == GetStringList(o, k) IN list # <<>> /\ list[1] \notin {"", "false", "disable"}

\* GetStrings, trimmed of what is empty.
GetStrings(o, k) == LET word(w) == w # "" IN SelectSeq(GetStringList(o, k), word)

\* String: flags before options, short before long; of the options, those with a
\* default come first, in the order the range over the map happens to have.
StringWords(o, order) ==
  LET defaulted(k) == k \in DOMAIN defaults /\ GetStrings(o, k) # <<>>
      later(k) == ~defaulted(k)
      all == SelectSeq(order, defaulted) \o SelectSeq(o.keys, later)
      flags(S) == LET in(k) == k \in S /\ GetStrings(o, k) = <<>> IN SelectSeq(all, in)
      options(S) == LET in(k) == k \in S /\ GetStrings(o, k) # <<>> IN SelectSeq(all, in)
      words(keys) == FlattenSeq([i \in 1 .. Len(keys) |-> <<keys[i]>> \o GetStrings(o, keys[i])])
  IN  words(flags(ShortFlags)) \o words(flags(LongFlags))
        \o words(options(ShortFlags)) \o words(options(LongFlags)) \o FlattenSeq(o.rest)

Orders == SetToSeqs(DOMAIN defaults)
Clean(key, value) == LET word(w) == w # "" IN SelectSeq(<<key, value>>, word)

\* Plausible fault, not used by the specification.
KeptNone(del, key, value) == value # ""

\* The loops of DelKeyValue over the parsed line, for what is to be deleted.
Kept(del, key, value) == key \notin DOMAIN del.arr \/ value # ""
WithoutKey(new, del, value) ==
  LET stays(k) == Kept(del, k, value)
      keys == SelectSeq(new.keys, stays)
      other(k, v) == k \notin DOMAIN del.arr \/ v # value
      without(arg) == ~Contains(del.rest, arg)
  IN  [keys |-> keys,
       arr |-> [k \in ToSet(keys) |-> SelectSeq(new.arr[k], LAMBDA v : other(k, v))],
       rest |-> SelectSeq(new.rest, without)]
-----------------------------------------------------------------------------
OptInit ==
  /\ longKeys = <<>> /\ longArr = Empty.arr /\ noFlagList = <<>>
  /\ defaults = Empty.arr
  /\ optCalls = 0 /\ deleted = <<>>

CallOpt(del) ==
  /\ optCalls < MaxOptCalls /\ optCalls' = optCalls + 1
  /\ deleted' = del
Become(o) == longKeys' = o.keys /\ longArr' = o.arr /\ noFlagList' = o.rest

\* NewOpts parses first; a later Parse forgets the arguments before it.
ParseLine ==
  /\ optCalls = 0 /\ CallOpt(<<>>)
  /\ \E n \in 0 .. MaxArgs : \E args \in [1 .. n -> OptArgs] : Become(ParseArgs(args))
  /\ UNCHANGED defaults

\* SetOpt with one default word. An empty one is the list of the empty string.
SetOpt ==
  /\ CallOpt(<<>>)
  /\ \E k \in Flags, w \in OptWords \cup {""} :
       defaults' = [j \in DOMAIN defaults \cup {k} |-> IF j = k THEN <<w>> ELSE defaults[j]]
  /\ UNCHANGED <<longKeys, longArr, noFlagList>>

DelKeyValue(key, value) ==
  /\ CallOpt(<<key, value>>)
  /\ \E order \in Orders :
       Become(WithoutKey(ParseArgs(LineToArgs(StringWords(Opts, order))),
                         ParseArgs(LineToArgs(Clean(key, value))), value))
  /\ UNCHANGED defaults

SetKeyValue(key, value) ==
  LET new == ParseArgs(LineToArgs(Clean(key, value)))
      put(o, k) == SetKey(o, k, new.arr[k])
  IN  /\ CallOpt(<<>>)
      /\ Become([FoldLeft(put, Opts, new.keys) EXCEPT !.rest = @ \o new.rest])
      /\ UNCHANGED defaults

OptNext ==
  \/ ParseLine \/ SetOpt
  \/ \E key \in Flags \cup OptWords, value \in OptWords \cup {""} :
       DelKeyValue(key, value) \/ SetKeyValue(key, value)
-----------------------------------------------------------------------------
OptTypeOK ==
  /\ DOMAIN longArr = ToSet(longKeys) /\ IsInjective(longKeys) /\ ToSet(longKeys) \subseteq Flags
  /\ \A i \in 1 .. Len(noFlagList) : noFlagList[i] # <<>>
  /\ \A k \in Flags : GetBool(Opts, k) => GetStrings(Opts, k) # <<>>

\* A command line the text of which says what it means: no value or argument has
\* several words, and no argument follows a flag that has no value.
Unambiguous ==
  /\ \A k \in Flags : Len(GetStrings(Opts, k)) <= 1
  /\ \A i \in 1 .. Len(noFlagList) : Len(noFlagList[i]) = 1
  /\ noFlagList # <<>> /\ longKeys # <<>> => \E k \in Flags : GetStrings(Opts, k) # <<>>

\* DelKeyValue of a flag removes its values, or the one that is named (a default comes
\* back for it), and leaves its others, those of the other flags and the arguments as
\* they were, though it writes the line out and parses it again.
DelKeeps ==
  [][\A key \in Flags, value \in OptWords \cup {""} :
       deleted' = <<key, value>> /\ optCalls' # optCalls /\ Unambiguous =>
         /\ \A k \in Flags \ {key} : GetStrings(Opts, k)' = GetStrings(Opts, k)
         /\ noFlagList' = noFlagList
         /\ IF value = "" THEN ~Contains(longKeys', key)
            ELSE key \notin DOMAIN defaults =>
                   GetStrings(Opts, key)' = SelectSeq(GetStrings(Opts, key), LAMBDA v : v # value)]_optVars
=============================================================================
