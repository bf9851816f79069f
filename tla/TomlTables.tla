----------------------------- MODULE TomlTables -----------------------------
(***************************************************************************)
(* What a TOML document defines: the nested hashes of toml.parser, the     *)
(* keys that were created implicitly, and the types recorded beside them   *)
(* (parse.go, decode_meta.go). A document is a sequence of the statements  *)
(* topLevel dispatches on: [a.b], [[a.b]] and key = value.                 *)
(*                                                                         *)
(* A hash is named by the keys that lead to it, each with the element of   *)
(* the array of tables it goes through (0 for a plain table). implicits    *)
(* and types are indexed by the keys joined with dots, as in the code, so  *)
(* they know nothing of elements, and a key with a dot in it (which is a   *)
(* sequence of names here) looks like two.                                 *)
(***************************************************************************)
EXTENDS Integers, Sequences

CONSTANTS
  Tables,        \* the headers of tables: sequences of keys
  Keys,          \* the keys of values; a key is a sequence of names, with dots between
  MaxStatements  \* bound on the length of a document

ASSUME TablesAssumption ==
  /\ Tables \subseteq Seq(Seq(STRING)) \ {<<>>} /\ Keys \subseteq Seq(STRING) \ {<<>>}
  /\ MaxStatements \in Nat

VARIABLES
  mapping,    \* of a full key, what the hash before it has there
  implicits,  \* joined keys of the tables that were created implicitly
  types,      \* of a joined key, its type
  ordered,    \* the keys in the order of the document
  context,    \* the keys of the current hash
  parsed,     \* "run", "error" (panicf), "bug" (log.Fatalf)
  \* History: the full keys that the statements accepted so far defined, and
  \* the statements that were accepted and defined nothing new.
  defined,
  again

tomlVars == <<mapping, implicits, types, ordered, context, parsed, defined, again>>

NoTables == [p \in {} |-> ""]
Hash == [kind |-> "hash", len |-> 0]
Array(n) == [kind |-> "array", len |-> n]
Scalar == [kind |-> "value", len |-> 0]

Last1(key) == key[Len(key)]
Front1(key) == SubSeq(key, 1, Len(key) - 1)
Place(hash, k) == Append(hash, <<k, 0>>)
PutAt(f, x, y) == [z \in DOMAIN f \cup {x} |-> IF z = x THEN y ELSE f[z]]

Join(keys) ==
  LET joined[n \in 0 .. Len(keys)] == IF n = 0 THEN <<>> ELSE joined[n - 1] \o keys[n]
  IN  joined[Len(keys)]

\* The hash that key k of hash leads to; of an array of tables, its last element.
Inner(m, hash, k) ==
  LET at == Place(hash, k)
  IN  IF m[at].kind = "array" THEN Append(hash, <<k, m[at].len>>) ELSE at

\* setValue's walk from the top to the hash of the current context.
WalkKey(m, acc, k) ==
  IF ~acc.ok \/ Place(acc.hash, k) \notin DOMAIN m \/ m[Place(acc.hash, k)].kind = "value"
  THEN [acc EXCEPT !.ok = FALSE]
  ELSE [acc EXCEPT !.hash = Inner(m, @, k)]
Walk(m, keys) ==
  LET walk[n \in 0 .. Len(keys)] ==
        IF n = 0 THEN [hash |-> <<>>, ok |-> TRUE] ELSE WalkKey(m, walk[n - 1], keys[n])
  IN  walk[Len(keys)]

\* A document state, as the operations on it pass it on.
Doc == [m |-> mapping, imp |-> implicits, ctx |-> context, res |-> parsed, at |-> <<>>]

IsImplicit(d, keys) == Join(keys) \in d.imp

\* Plausible fault, not used by the specification.
RemoveImplicitNot(imp, keys) == imp

RemoveImplicit(imp, keys) == imp \ {Join(keys)}

\* setValue(key, value) in the context of d.
SetValue(d, key, value) ==
  LET walk == Walk(d.m, d.ctx)
      at == Place(walk.hash, key)
      keys == Append(d.ctx, key)
  IN  CASE ~walk.ok -> [d EXCEPT !.res = "bug"]
        [] walk.ok /\ at \notin DOMAIN d.m -> [d EXCEPT !.m = PutAt(@, at, value), !.at = at]
        [] walk.ok /\ at \in DOMAIN d.m /\ IsImplicit(d, keys) ->
             [d EXCEPT !.imp = RemoveImplicit(@, keys), !.at = at]
        [] OTHER -> [d EXCEPT !.res = "error"]

\* The loop of establishContext over all keys but the last: implicit hashes.
DrillKey(acc, k) ==
  LET at == Place(acc.at, k)
      seen == Append(acc.ctx, k)
      there == IF at \in DOMAIN acc.m THEN acc
               ELSE [acc EXCEPT !.m = PutAt(@, at, Hash), !.imp = @ \cup {Join(seen)}]
  IN  IF acc.res # "run" THEN acc
      ELSE IF there.m[at].kind = "value" THEN [there EXCEPT !.res = "error"]
      ELSE [there EXCEPT !.ctx = seen, !.at = Inner(there.m, acc.at, k)]
Drill(d, keys) ==
  LET drill[n \in 0 .. Len(keys)] ==
        IF n = 0 THEN [d EXCEPT !.ctx = <<>>, !.at = <<>>] ELSE DrillKey(drill[n - 1], keys[n])
  IN  drill[Len(keys)]

\* The rest of it for an array of tables: one more element.
AddElement(d, key) ==
  LET at == Place(d.at, key)
      len == IF at \in DOMAIN d.m THEN d.m[at].len ELSE 0
  IN  IF at \in DOMAIN d.m /\ d.m[at].kind # "array" THEN [d EXCEPT !.res = "error"]
      ELSE [d EXCEPT !.m = PutAt(@, at, Array(len + 1)), !.at = Append(d.at, <<key, len + 1>>)]

EstablishContext(key, array) ==
  LET d == Drill(Doc, Front1(key))
      e == IF array THEN AddElement(d, Last1(key)) ELSE SetValue(d, Last1(key), Hash)
  IN  IF d.res # "run" THEN d
      ELSE IF e.res # "run" THEN e
      ELSE [e EXCEPT !.ctx = Append(@, Last1(key))]

\* setType, and the list of keys; then the history.
Accept1(d, keys, typ) ==
  /\ mapping' = d.m /\ implicits' = d.imp /\ context' = d.ctx /\ parsed' = d.res
  /\ IF d.res = "run"
     THEN /\ types' = PutAt(types, Join(keys), typ)
          /\ ordered' = Append(ordered, keys)
          /\ defined' = defined \cup {d.at}
          /\ again' = (again \/ d.at \in defined)
     ELSE UNCHANGED <<types, ordered, defined, again>>
-----------------------------------------------------------------------------
TomlInit ==
  /\ mapping = NoTables /\ implicits = {} /\ types = NoTables /\ ordered = <<>>
  /\ context = <<>> /\ parsed = "run" /\ defined = {} /\ again = FALSE

More == parsed = "run" /\ Len(ordered) < MaxStatements

TableHeader(key) == More /\ Accept1(EstablishContext(key, FALSE), key, "Hash")
ArrayHeader(key) == More /\ Accept1(EstablishContext(key, TRUE), key, "ArrayHash")

KeyValue(key) == More /\ Accept1(SetValue(Doc, key, Scalar), Append(context, key), "Integer")

TomlNext ==
  \/ \E key \in Tables : TableHeader(key) \/ ArrayHeader(key)
  \/ \E key \in Keys : KeyValue(key)
-----------------------------------------------------------------------------
\* MetaData.IsDefined: a walk that no array of tables is part of.
IsDefined(keys) ==
  LET at(n) == [i \in 1 .. n |-> <<keys[i], 0>>]
  IN  /\ \A n \in 1 .. Len(keys) - 1 : at(n) \in DOMAIN mapping /\ mapping[at(n)].kind = "hash"
      /\ at(Len(keys)) \in DOMAIN mapping
-----------------------------------------------------------------------------
TomlTypeOK ==
  /\ parsed \in {"run", "error", "bug"}
  /\ \A p \in DOMAIN mapping : mapping[p].kind = "array" <=> mapping[p].len > 0
  /\ Len(ordered) <= MaxStatements /\ DOMAIN types = {Join(ordered[i]) : i \in 1 .. Len(ordered)}

\* The implicits tell apart tables by their joined keys only: no key has a dot,
\* and no array of tables has had a second element.
Plain ==
  /\ \A i \in 1 .. Len(ordered) : \A j \in 1 .. Len(ordered[i]) : Len(ordered[i][j]) = 1
  /\ \A p \in DOMAIN mapping : mapping[p].len < 2

\* No statement of such a document is accepted that defines what an earlier one
\* defined, none stops the program ("Context for key has not been established",
\* "Expected hash"), and without arrays of tables IsDefined finds every key.
DefinedOnce ==
  Plain => /\ ~again /\ parsed # "bug"
           /\ (\A p \in DOMAIN mapping : mapping[p].kind # "array")
                => \A i \in 1 .. Len(ordered) : IsDefined(ordered[i])
=============================================================================
