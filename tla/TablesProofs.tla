---------------------------- MODULE TablesProofs ----------------------------
(***************************************************************************)
(* What a TOML document defines, it defines once, for every set of         *)
(* headers and keys. setValue and establishContext are walks over the keys *)
(* of a hash (Walk, Drill); what they find is proved by induction over the *)
(* keys (UpTo), from what each does with one key.                          *)
(***************************************************************************)
EXTENDS TomlTables, DataInduction, SequenceTheorems, TLAPS

\* STRING under a name of its own: the provers need not know what it is.
Words == STRING
Names == Seq(Words)
KeyLists == Seq(Names)
Paths == Seq(Names \X Nat)
Kinds == {"hash", "array", "value"}
Nodes == {node \in [kind : Kinds, len : Nat] : node.kind = "array" <=> node.len > 0}
Maps == UNION {[D -> Nodes] : D \in SUBSET Paths}
Docs ==
  [m : Maps, imp : SUBSET Names, ctx : KeyLists, res : {"run", "error", "bug"}, at : Paths]

\* The names on a path, and the place of its n-th one.
NamesOf(p) == [i \in 1 .. Len(p) |-> p[i][1]]
Spot(p, n) == [i \in 1 .. n |-> IF i = n THEN <<p[n][1], 0>> ELSE p[i]]
IsPlace(p) == p # <<>> /\ p[Len(p)][2] = 0

\* A path may go through element e of a node; a place is guided when it goes
\* through nodes that are there, down to the one above it.
Through(node, e) ==
  node.kind # "value" /\ IF node.kind = "array" THEN e \in 1 .. node.len ELSE e = 0
Guided(m, p) ==
  \A n \in 1 .. Len(p) - 1 : Spot(p, n) \in DOMAIN m /\ Through(m[Spot(p, n)], p[n][2])

\* The hash p is where the keys lead, in the last elements of the arrays.
Leads(m, keys, p) ==
  /\ NamesOf(p) = keys
  /\ \A n \in 1 .. Len(p) : /\ Spot(p, n) \in DOMAIN m
                            /\ Through(m[Spot(p, n)], p[n][2])
                            /\ m[Spot(p, n)].kind = "array" => p[n][2] = m[Spot(p, n)].len

Grows(m, mm) ==
  \A p \in DOMAIN m : p \in DOMAIN mm /\ mm[p].kind = m[p].kind /\ m[p].len <= mm[p].len

Short(p) == \A i \in 1 .. Len(p) : Len(p[i][1]) = 1
Closed(m) == \A p \in DOMAIN m : IsPlace(p) /\ Guided(m, p)
Single(m) == \A p \in DOMAIN m : m[p].len < 2 /\ Short(p)

\* What is implicit is a hash, and not defined by a statement; what is defined
\* is in the mapping, or an element of an array that is.
Implied(m, imp, def) ==
  /\ \A p \in def \cap DOMAIN m : Join(NamesOf(p)) \notin imp
  /\ \A j \in imp : \E p \in DOMAIN m : m[p].kind = "hash" /\ Join(NamesOf(p)) = j
  /\ \A p \in def \ DOMAIN m :
       /\ p # <<>> /\ p[Len(p)][2] > 0 /\ Spot(p, Len(p)) \in DOMAIN m
       /\ p[Len(p)][2] <= m[Spot(p, Len(p))].len

Good(m, imp, def) == Closed(m) /\ Single(m) /\ Implied(m, imp, def)

\* The keys name a place.
Known(m, keys) == \E p \in DOMAIN m : IsPlace(p) /\ Guided(m, p) /\ NamesOf(p) = keys

TablesTyped ==
  /\ mapping \in Maps /\ implicits \subseteq Names /\ context \in KeyLists
  /\ parsed \in {"run", "error", "bug"}
  /\ ordered \in Seq(KeyLists) /\ defined \subseteq Paths /\ again \in BOOLEAN

\* Plain documents: what DefinedOnce says, every key of the document in the
\* mapping, and, while it goes on, the context leading to a hash.
TablesInv ==
  /\ TablesTyped
  /\ Plain => /\ ~again /\ parsed # "bug"
              /\ \A i \in 1 .. Len(ordered) : Known(mapping, ordered[i])
              /\ parsed = "run" => /\ Good(mapping, implicits, defined)
                                   /\ \E p \in Paths : Leads(mapping, context, p)

-----------------------------------------------------------------------------
(* Paths, places and spots.                                                *)

LEMMA PlaceIs ==
  ASSUME NEW p \in Paths, NEW k \in Names
  PROVE  /\ Place(p, k) \in Paths /\ Len(Place(p, k)) = Len(p) + 1
         /\ \A i \in 1 .. Len(p) : Place(p, k)[i] = p[i]
         /\ Place(p, k)[Len(p) + 1] = <<k, 0>>
         /\ IsPlace(Place(p, k))
<1>1. <<k, 0>> \in Names \X Nat
  OBVIOUS
<1> DEFINE E == Names \X Nat
<1> HIDE DEF E
<1>2. /\ Append(p, <<k, 0>>) \in Seq(E) /\ Len(Append(p, <<k, 0>>)) = Len(p) + 1
      /\ \A i \in 1 .. Len(p) : Append(p, <<k, 0>>)[i] = p[i]
      /\ Append(p, <<k, 0>>)[Len(p) + 1] = <<k, 0>>
  BY <1>1 DEF Paths, E
<1>3. Append(p, <<k, 0>>) # <<>>
  BY <1>2
<1> QED BY <1>2, <1>3 DEF Place, Paths, IsPlace, E

\* A spot depends on the path up to it.
LEMMA SpotOf ==
  ASSUME NEW p \in Paths, NEW q \in Paths, NEW n \in 1 .. Len(p), n <= Len(q),
         \A i \in 1 .. n - 1 : p[i] = q[i], p[n][1] = q[n][1]
  PROVE  Spot(p, n) = Spot(q, n)
BY DEF Spot, Paths

LEMMA SpotType ==
  ASSUME NEW p \in Paths, NEW n \in 1 .. Len(p)
  PROVE  Spot(p, n) \in Paths /\ Len(Spot(p, n)) = n
<1>1. \A i \in 1 .. n : p[i] \in Names \X Nat
  BY DEF Paths
<1>2. \A i \in 1 .. n : Spot(p, n)[i] \in Names \X Nat
  BY <1>1 DEF Spot
<1>3. Spot(p, n) \in [1 .. n -> Names \X Nat]
  BY <1>2 DEF Spot
<1> QED BY <1>3 DEF Paths

\* A place is its own last spot.
LEMMA SpotOfPlace ==
  ASSUME NEW p \in Paths, IsPlace(p)
  PROVE  Spot(p, Len(p)) = p /\ Len(p) \in Nat \ {0}
<1> DEFINE n == Len(p)
<1>1. n \in Nat \ {0}
  BY DEF Paths, IsPlace
<1>2. p[n] \in Names \X Nat /\ p[n][2] = 0
  BY <1>1 DEF Paths, IsPlace
<1>3. p[n] = <<p[n][1], 0>>
  BY <1>2
<1>4. Spot(p, n) = [i \in 1 .. n |-> p[i]]
  BY <1>3 DEF Spot
<1>5. p = [i \in 1 .. n |-> p[i]]
  BY DEF Paths
<1> QED BY <1>1, <1>4, <1>5

LEMMA NamesType ==
  ASSUME NEW p \in Paths
  PROVE  NamesOf(p) \in KeyLists /\ Len(NamesOf(p)) = Len(p)
<1>1. \A i \in 1 .. Len(p) : p[i][1] \in Names
  BY DEF Paths
<1>2. NamesOf(p) \in [1 .. Len(p) -> Names]
  BY <1>1 DEF NamesOf
<1>3. Len(p) \in Nat
  BY DEF Paths
<1>4. NamesOf(p) \in Seq(Names) /\ Len(NamesOf(p)) = Len(p)
  BY <1>2, <1>3
<1> QED BY <1>4 DEF KeyLists

\* Where there is one element at most, the names say which path it is.
LEMMA SamePath ==
  ASSUME NEW m, NEW p \in Paths, NEW q \in Paths, m \in Maps,
         \A x \in DOMAIN m : m[x].len < 2,
         IsPlace(p), IsPlace(q), Guided(m, p), Guided(m, q), NamesOf(p) = NamesOf(q)
  PROVE  p = q
<1>1. Len(p) = Len(q) /\ Len(p) \in Nat \ {0}
  BY NamesType, SpotOfPlace
<1>2. \A i \in 1 .. Len(p) : p[i][1] = q[i][1] /\ p[i] \in Names \X Nat /\ q[i] \in Names \X Nat
  <2> SUFFICES ASSUME NEW i \in 1 .. Len(p)
               PROVE  p[i][1] = q[i][1] /\ p[i] \in Names \X Nat /\ q[i] \in Names \X Nat
    OBVIOUS
  <2>1. NamesOf(p)[i] = p[i][1] /\ NamesOf(q)[i] = q[i][1]
    BY <1>1 DEF NamesOf
  <2> QED BY <1>1, <2>1 DEF Paths
<1> DEFINE N == Len(p) - 1
           S == {n \in 0 .. N : \A i \in 1 .. n : p[i] = q[i]}
<1>3. 0 \in S
  BY <1>1
<1>4. ASSUME NEW n \in 0 .. N - 1, n \in S
      PROVE  n + 1 \in S
  <2>1. n + 1 \in 1 .. Len(p) - 1 /\ n + 1 \in 1 .. Len(q) - 1 /\ n + 1 \in 1 .. Len(p)
    BY <1>1
  <2>2. Spot(p, n + 1) = Spot(q, n + 1)
    BY <1>1, <1>2, <1>4, <2>1, SpotOf
  <2> DEFINE x == Spot(p, n + 1)
  <2>3. x \in DOMAIN m /\ Through(m[x], p[n + 1][2]) /\ Through(m[x], q[n + 1][2])
    BY <2>1, <2>2 DEF Guided
  <2>4. m[x] \in Nodes /\ m[x].len < 2
    BY <2>3 DEF Maps
  <2> HIDE DEF x
  <2>5. p[n + 1][2] = q[n + 1][2]
    BY <2>3, <2>4 DEF Through, Nodes
  <2>6. p[n + 1] = q[n + 1]
    <3>1. /\ p[n + 1] \in Names \X Nat /\ q[n + 1] \in Names \X Nat
          /\ p[n + 1][1] = q[n + 1][1]
      BY <1>2, <2>1
    <3> QED BY <3>1, <2>5
  <2> QED BY <1>4, <2>1, <2>6
<1>5. N \in S
  <2>1. N \in Nat
    BY <1>1
  <2> HIDE DEF S, N
  <2> QED BY <2>1, <1>3, <1>4, UpTo
<1>6. p[Len(p)] = q[Len(p)]
  BY <1>1, <1>2 DEF IsPlace
<1>7. \A i \in 1 .. Len(p) : p[i] = q[i]
  BY <1>1, <1>5, <1>6
<1> QED BY <1>1, <1>7 DEF Paths

-----------------------------------------------------------------------------
(* Joined keys.                                                            *)

LEMMA JoinIs ==
  ASSUME NEW keys \in KeyLists
  PROVE  \E g \in [0 .. Len(keys) -> Names] :
           /\ g[0] = <<>> /\ \A n \in 1 .. Len(keys) : g[n] = g[n - 1] \o keys[n]
           /\ Join(keys) = g[Len(keys)]
<1> DEFINE N == Len(keys)
           step == [n \in 1 .. N |-> [s \in Names |-> s \o keys[n]]]
           joined[n \in 0 .. N] == IF n = 0 THEN <<>> ELSE joined[n - 1] \o keys[n]
<1>1. N \in Nat /\ \A n \in 1 .. N : keys[n] \in Names
  BY DEF KeyLists
<1>2. /\ <<>> \in Names
      /\ \A n \in 1 .. N, s \in Names : step[n][s] = s \o keys[n] /\ step[n][s] \in Names
  BY <1>1 DEF Names
<1>3. PICK g \in [0 .. N -> Names] : Iterates(g, N, <<>>, step)
  <2>1. Steps(step, N, Names)
    BY <1>2 DEF Steps
  <2> HIDE DEF step, N
  <2> QED BY <1>1, <1>2, <2>1, Recursion
<1>4. g = [n \in 0 .. N |-> IF n = 0 THEN <<>> ELSE g[n - 1] \o keys[n]]
  <2>1. \A n \in 0 .. N : g[n] = IF n = 0 THEN <<>> ELSE g[n - 1] \o keys[n]
    <3> SUFFICES ASSUME NEW n \in 0 .. N
                 PROVE  g[n] = IF n = 0 THEN <<>> ELSE g[n - 1] \o keys[n]
      OBVIOUS
    <3>1. CASE n = 0
      BY <1>3, <3>1 DEF Iterates
    <3>2. CASE n # 0
      <4>1. n \in 1 .. N /\ g[n - 1] \in Names
        BY <1>1, <3>2
      <4> HIDE DEF step
      <4> QED BY <1>2, <1>3, <3>2, <4>1 DEF Iterates
    <3> QED BY <3>1, <3>2
  <2> QED BY <2>1
<1>5. joined = [n \in 0 .. N |-> IF n = 0 THEN <<>> ELSE joined[n - 1] \o keys[n]]
  <2> HIDE DEF step
  <2> QED BY <1>4
<1>6. Join(keys) = joined[N]
  BY DEF Join
<1> HIDE DEF joined
<1>7. joined \in [0 .. N -> Names]
  <2> DEFINE S == {n \in 0 .. N : joined[n] \in Names}
  <2>1. 0 \in S
    BY <1>1, <1>2, <1>5
  <2>2. ASSUME NEW n \in 0 .. N - 1, n \in S
        PROVE  n + 1 \in S
    <3>1. n + 1 \in 1 .. N /\ n + 1 # 0 /\ (n + 1) - 1 = n /\ n + 1 \in 0 .. N
      BY <1>1
    <3>2. joined[n + 1] = joined[n] \o keys[n + 1]
      BY <1>5, <3>1
    <3>3. joined[n] \in Seq(Words) /\ keys[n + 1] \in Seq(Words)
      BY <1>1, <2>2, <3>1 DEF Names
    <3>4. joined[n] \o keys[n + 1] \in Names
      BY <3>3 DEF Names
    <3> QED BY <3>1, <3>2, <3>4
  <2> HIDE DEF S
  <2>3. \A n \in 0 .. N : n \in S
    BY <1>1, <2>1, <2>2, UpTo
  <2> QED BY <1>5, <2>3 DEF S
<1>8. joined[0] = <<>> /\ \A n \in 1 .. N : joined[n] = joined[n - 1] \o keys[n]
  BY <1>1, <1>5
<1> QED BY <1>6, <1>7, <1>8

LEMMA WithOne ==
  ASSUME NEW S, NEW s \in Seq(S), NEW t \in Seq(S), Len(t) = 1
  PROVE  /\ Len(s \o t) = Len(s) + 1 /\ (s \o t)[Len(s) + 1] = t[1]
         /\ \A i \in 1 .. Len(s) : (s \o t)[i] = s[i]
BY ConcatProperties

\* Keys of one name each are joined to the list of the names.
LEMMA JoinSingles ==
  ASSUME NEW keys \in KeyLists, \A i \in 1 .. Len(keys) : Len(keys[i]) = 1
  PROVE  Join(keys) = [i \in 1 .. Len(keys) |-> keys[i][1]]
<1> DEFINE N == Len(keys)
<1>1. N \in Nat /\ \A n \in 1 .. N : keys[n] \in Seq(Words)
  BY DEF KeyLists, Names
<1>2. PICK g \in [0 .. N -> Names] :
        /\ g[0] = <<>> /\ \A n \in 1 .. N : g[n] = g[n - 1] \o keys[n]
        /\ Join(keys) = g[N]
  BY JoinIs
<1> DEFINE S == {n \in 0 .. N : Len(g[n]) = n /\ \A i \in 1 .. n : g[n][i] = keys[i][1]}
<1>3. 0 \in S
  BY <1>1, <1>2
<1>4. ASSUME NEW n \in 0 .. N - 1, n \in S
      PROVE  n + 1 \in S
  <2>1. n + 1 \in 1 .. N /\ n \in Nat /\ g[n + 1] = g[n] \o keys[n + 1]
    <3>1. n + 1 \in 1 .. N /\ n \in Nat /\ (n + 1) - 1 = n
      BY <1>1
    <3> QED BY <1>2, <3>1
  <2>2. g[n] \in Seq(Words) /\ Len(g[n]) = n /\ \A i \in 1 .. n : g[n][i] = keys[i][1]
    BY <1>4 DEF Names
  <2>3. keys[n + 1] \in Seq(Words) /\ Len(keys[n + 1]) = 1
    BY <1>1, <2>1
  <2>4. /\ Len(g[n + 1]) = n + 1 /\ g[n + 1][n + 1] = keys[n + 1][1]
        /\ \A i \in 1 .. n : g[n + 1][i] = g[n][i]
    <3> DEFINE s == g[n]
               t == keys[n + 1]
    <3>1. s \in Seq(Words) /\ t \in Seq(Words) /\ Len(t) = 1 /\ Len(s) = n
      BY <2>2, <2>3
    <3> HIDE DEF s, t
    <3>2. /\ Len(s \o t) = Len(s) + 1 /\ (s \o t)[Len(s) + 1] = t[1]
          /\ \A i \in 1 .. Len(s) : (s \o t)[i] = s[i]
      BY <3>1, WithOne
    <3> QED BY <2>1, <3>1, <3>2 DEF s, t
  <2>5. \A i \in 1 .. n + 1 : g[n + 1][i] = keys[i][1]
    <3> SUFFICES ASSUME NEW i \in 1 .. n + 1 PROVE g[n + 1][i] = keys[i][1]
      OBVIOUS
    <3>1. i \in 1 .. n \/ i = n + 1
      BY <2>1
    <3> QED BY <2>2, <2>4, <3>1
  <2>6. n + 1 \in 0 .. N
    BY <2>1
  <2> QED BY <2>4, <2>5, <2>6
<1>5. N \in S
  <2> HIDE DEF S, N
  <2>1. \A n \in 0 .. N : n \in S
    BY <1>1, <1>3, <1>4, UpTo
  <2> QED BY <1>1, <2>1
<1>6. g[N] \in Seq(Words)
  BY <1>1 DEF Names
<1> QED BY <1>2, <1>5, <1>6

LEMMA JoinApart ==
  ASSUME NEW s \in KeyLists, NEW t \in KeyLists,
         \A i \in 1 .. Len(s) : Len(s[i]) = 1, \A i \in 1 .. Len(t) : Len(t[i]) = 1,
         Join(s) = Join(t)
  PROVE  s = t
<1>1. /\ Len(s) \in Nat /\ Len(t) \in Nat
      /\ \A i \in 1 .. Len(s) : s[i] \in Seq(Words)
      /\ \A i \in 1 .. Len(t) : t[i] \in Seq(Words)
  BY DEF KeyLists, Names
<1>2. /\ Join(s) = [i \in 1 .. Len(s) |-> s[i][1]]
      /\ Join(t) = [i \in 1 .. Len(t) |-> t[i][1]]
  BY JoinSingles
<1>3. Len(s) = Len(t) /\ \A i \in 1 .. Len(s) : s[i][1] = t[i][1]
  <2>1. 1 .. Len(s) = 1 .. Len(t)
    BY <1>2
  <2>2. Len(s) = Len(t)
    BY <1>1, <2>1
  <2>3. ASSUME NEW i \in 1 .. Len(s)
        PROVE  s[i][1] = t[i][1]
    <3>1. Join(s)[i] = s[i][1] /\ Join(t)[i] = t[i][1]
      BY <1>2, <2>2
    <3> QED BY <3>1
  <2> QED BY <2>2, <2>3
<1>4. ASSUME NEW i \in 1 .. Len(s)
      PROVE  s[i] = t[i]
  <2>1. /\ s[i] \in Seq(Words) /\ t[i] \in Seq(Words)
        /\ Len(s[i]) = 1 /\ Len(t[i]) = 1 /\ s[i][1] = t[i][1]
    BY <1>1, <1>3
  <2> QED BY <2>1
<1> QED BY <1>3, <1>4 DEF KeyLists

-----------------------------------------------------------------------------
(* Mappings, and what goes down in them.                                   *)

LEMMA PutIs ==
  ASSUME NEW m \in Maps, NEW at \in Paths, NEW node \in Nodes
  PROVE  /\ PutAt(m, at, node) \in Maps /\ DOMAIN PutAt(m, at, node) = DOMAIN m \cup {at}
         /\ PutAt(m, at, node)[at] = node
         /\ \A p \in DOMAIN m : p # at => PutAt(m, at, node)[p] = m[p]
<1>1. PICK D \in SUBSET Paths : m \in [D -> Nodes]
  BY DEF Maps
<1>2. D \cup {at} \in SUBSET Paths /\ PutAt(m, at, node) \in [D \cup {at} -> Nodes]
  BY <1>1 DEF PutAt
<1> QED BY <1>1, <1>2 DEF PutAt, Maps

LEMMA MapIs ==
  ASSUME NEW m \in Maps
  PROVE  DOMAIN m \subseteq Paths /\ \A p \in DOMAIN m : m[p] \in Nodes
BY DEF Maps

\* The element that Inner goes through, and the path it makes.
LEMMA InnerIs ==
  ASSUME NEW m \in Maps, NEW p \in Paths, NEW k \in Names,
         Place(p, k) \in DOMAIN m, m[Place(p, k)].kind # "value"
  PROVE  \E e \in Nat :
           /\ Inner(m, p, k) = Append(p, <<k, e>>) /\ Through(m[Place(p, k)], e)
           /\ m[Place(p, k)].kind = "array" => e = m[Place(p, k)].len
<1> DEFINE node == m[Place(p, k)]
<1>1. node \in Nodes
  BY MapIs
<1> HIDE DEF node
<1>2. CASE node.kind = "array"
  <2>1. Inner(m, p, k) = Append(p, <<k, node.len>>)
    BY <1>2 DEF Inner, node
  <2>2. node.len \in Nat /\ Through(node, node.len)
    BY <1>1, <1>2 DEF Through, Nodes
  <2> QED BY <2>1, <2>2 DEF node
<1>3. CASE node.kind # "array"
  <2>1. Inner(m, p, k) = Append(p, <<k, 0>>)
    BY <1>3 DEF Inner, Place, node
  <2>2. Through(node, 0)
    BY <1>3 DEF Through, node
  <2> QED BY <1>3, <2>1, <2>2 DEF node
<1> QED BY <1>2, <1>3

LEMMA AppendIs ==
  ASSUME NEW p \in Paths, NEW k \in Names, NEW e \in Nat
  PROVE  /\ Append(p, <<k, e>>) \in Paths /\ Len(Append(p, <<k, e>>)) = Len(p) + 1
         /\ \A i \in 1 .. Len(p) : Append(p, <<k, e>>)[i] = p[i]
         /\ Append(p, <<k, e>>)[Len(p) + 1] = <<k, e>>
<1> DEFINE E == Names \X Nat
           x == <<k, e>>
<1>1. x \in E
  OBVIOUS
<1> HIDE DEF E, x
<1>2. /\ Append(p, x) \in Seq(E) /\ Len(Append(p, x)) = Len(p) + 1
      /\ \A i \in 1 .. Len(p) : Append(p, x)[i] = p[i]
      /\ Append(p, x)[Len(p) + 1] = x
  BY <1>1 DEF Paths, E
<1> QED BY <1>2 DEF Paths, E, x

Walks == [hash : Paths, ok : BOOLEAN]

LEMMA WalkKeyType ==
  ASSUME NEW m \in Maps, NEW acc \in Walks, NEW k \in Names
  PROVE  WalkKey(m, acc, k) \in Walks
<1>1. CASE ~acc.ok \/ Place(acc.hash, k) \notin DOMAIN m \/ m[Place(acc.hash, k)].kind = "value"
  <2>1. WalkKey(m, acc, k) = [acc EXCEPT !.ok = FALSE]
    BY <1>1 DEF WalkKey
  <2> QED BY <2>1 DEF Walks
<1>2. CASE ~(~acc.ok \/ Place(acc.hash, k) \notin DOMAIN m \/ m[Place(acc.hash, k)].kind = "value")
  <2>1. WalkKey(m, acc, k) = [acc EXCEPT !.hash = Inner(m, acc.hash, k)]
    BY <1>2 DEF WalkKey
  <2>2. acc.hash \in Paths
    BY DEF Walks
  <2>3. Inner(m, acc.hash, k) \in Paths
    BY <1>2, <2>2, InnerIs, AppendIs
  <2> QED BY <2>1, <2>3 DEF Walks
<1> QED BY <1>1, <1>2

LEMMA WalkIs ==
  ASSUME NEW m \in Maps, NEW keys \in KeyLists
  PROVE  \E g \in [0 .. Len(keys) -> Walks] :
           /\ g[0] = [hash |-> <<>>, ok |-> TRUE]
           /\ \A n \in 1 .. Len(keys) : g[n] = WalkKey(m, g[n - 1], keys[n])
           /\ Walk(m, keys) = g[Len(keys)]
<1> DEFINE N == Len(keys)
           top == [hash |-> <<>>, ok |-> TRUE]
           step == [n \in 1 .. N |-> [acc \in Walks |-> WalkKey(m, acc, keys[n])]]
           walk[n \in 0 .. N] == IF n = 0 THEN top ELSE WalkKey(m, walk[n - 1], keys[n])
<1>1. N \in Nat /\ \A n \in 1 .. N : keys[n] \in Names
  BY DEF KeyLists
<1>2. top \in Walks
  BY DEF Walks, Paths
<1>3. \A n \in 1 .. N, acc \in Walks :
        step[n][acc] = WalkKey(m, acc, keys[n]) /\ step[n][acc] \in Walks
  BY <1>1, WalkKeyType
<1>4. PICK g \in [0 .. N -> Walks] : Iterates(g, N, top, step)
  <2>1. Steps(step, N, Walks)
    BY <1>3 DEF Steps
  <2> HIDE DEF step, N, top
  <2> QED BY <1>1, <1>2, <2>1, Recursion
<1> HIDE DEF top
<1>5. \A n \in 0 .. N : g[n] = IF n = 0 THEN top ELSE WalkKey(m, g[n - 1], keys[n])
  <2> SUFFICES ASSUME NEW n \in 0 .. N
               PROVE  g[n] = IF n = 0 THEN top ELSE WalkKey(m, g[n - 1], keys[n])
    OBVIOUS
  <2>1. CASE n = 0
    BY <1>4, <2>1 DEF Iterates
  <2>2. CASE n # 0
    <3>1. n \in 1 .. N /\ g[n - 1] \in Walks
      BY <1>1, <2>2
    <3> HIDE DEF step
    <3> QED BY <1>3, <1>4, <2>2, <3>1 DEF Iterates
  <2> QED BY <2>1, <2>2
<1>6. walk = [n \in 0 .. N |-> IF n = 0 THEN top ELSE WalkKey(m, walk[n - 1], keys[n])]
  <2>1. g = [n \in 0 .. N |-> IF n = 0 THEN top ELSE WalkKey(m, g[n - 1], keys[n])]
    BY <1>5
  <2> HIDE DEF step
  <2> QED BY <2>1
<1>7. Walk(m, keys) = walk[N]
  BY DEF Walk, top
<1> HIDE DEF walk, step
<1>8. \A n \in 0 .. N : walk[n] \in Walks
  <2> DEFINE S == {n \in 0 .. N : walk[n] \in Walks}
  <2>1. 0 \in S
    BY <1>1, <1>2, <1>6
  <2>2. ASSUME NEW n \in 0 .. N - 1, n \in S
        PROVE  n + 1 \in S
    <3>1. n + 1 \in 1 .. N /\ n + 1 # 0 /\ (n + 1) - 1 = n /\ n + 1 \in 0 .. N
      BY <1>1
    <3>2. walk[n + 1] = WalkKey(m, walk[n], keys[n + 1])
      BY <1>6, <3>1
    <3> QED BY <1>1, <2>2, <3>1, <3>2, WalkKeyType
  <2> HIDE DEF S
  <2>3. \A n \in 0 .. N : n \in S
    BY <1>1, <2>1, <2>2, UpTo
  <2> QED BY <2>3 DEF S
<1>9. walk \in [0 .. N -> Walks]
  BY <1>6, <1>8
<1>10. walk[0] = top /\ \A n \in 1 .. N : walk[n] = WalkKey(m, walk[n - 1], keys[n])
  BY <1>1, <1>6
<1> QED BY <1>7, <1>9, <1>10 DEF top

-----------------------------------------------------------------------------
(* Paths that lead to a hash.                                              *)

LEMMA SpotIsPlace ==
  ASSUME NEW p \in Paths, NEW h \in Paths, NEW n \in 1 .. Len(p), Len(h) = n - 1,
         \A i \in 1 .. n - 1 : h[i] = p[i]
  PROVE  Spot(p, n) = Place(h, p[n][1])
<1>1. p[n][1] \in Names
  BY DEF Paths
<1> DEFINE k == p[n][1]
           q == Place(h, k)
<1>2. k \in Names
  BY <1>1
<1> HIDE DEF k
<1>3. /\ q \in Paths /\ Len(q) = Len(h) + 1 /\ q[Len(h) + 1] = <<k, 0>>
      /\ \A i \in 1 .. Len(h) : q[i] = h[i]
  BY <1>2, PlaceIs
<1> HIDE DEF q
<1>4. Len(q) = n /\ q[n] = <<k, 0>> /\ \A i \in 1 .. n - 1 : q[i] = p[i]
  BY <1>3
<1>5. q = [i \in 1 .. n |-> q[i]]
  BY <1>3, <1>4 DEF Paths
<1>6. \A i \in 1 .. n : q[i] = IF i = n THEN <<k, 0>> ELSE p[i]
  <2> SUFFICES ASSUME NEW i \in 1 .. n PROVE q[i] = IF i = n THEN <<k, 0>> ELSE p[i]
    OBVIOUS
  <2>1. n \in Nat
    BY DEF Paths
  <2>2. i = n \/ i \in 1 .. n - 1
    BY <2>1
  <2> QED BY <1>4, <2>2
<1>7. q = [i \in 1 .. n |-> IF i = n THEN <<k, 0>> ELSE p[i]]
  BY <1>5, <1>6
<1> QED BY <1>7 DEF Spot, k, q

LEMMA SpotsOfAppend ==
  ASSUME NEW p \in Paths, NEW k \in Names, NEW e \in Nat
  PROVE  /\ \A n \in 1 .. Len(p) : Spot(Append(p, <<k, e>>), n) = Spot(p, n)
         /\ Spot(Append(p, <<k, e>>), Len(p) + 1) = Place(p, k)
         /\ NamesOf(Append(p, <<k, e>>)) = Append(NamesOf(p), k)
<1> DEFINE q == Append(p, <<k, e>>)
<1>1. /\ q \in Paths /\ Len(q) = Len(p) + 1 /\ q[Len(p) + 1] = <<k, e>>
      /\ \A i \in 1 .. Len(p) : q[i] = p[i]
  BY AppendIs
<1>2. Len(p) \in Nat
  BY DEF Paths
<1> HIDE DEF q
<1>3. ASSUME NEW n \in 1 .. Len(p)
      PROVE  Spot(q, n) = Spot(p, n)
  <2>1. n <= Len(q) /\ (\A i \in 1 .. n - 1 : p[i] = q[i]) /\ p[n][1] = q[n][1]
    BY <1>1, <1>2
  <2> QED BY <1>1, <2>1, SpotOf
<1>4. Spot(q, Len(p) + 1) = Place(p, k)
  <2>1. q[Len(p) + 1][1] = k
    BY <1>1
  <2>2. Len(p) + 1 \in 1 .. Len(q) /\ (Len(p) + 1) - 1 = Len(p)
    BY <1>1, <1>2
  <2>3. Spot(q, Len(p) + 1) = Place(p, q[Len(p) + 1][1])
    BY <1>1, <1>2, <2>2, SpotIsPlace
  <2> QED BY <2>1, <2>3
<1>5. NamesOf(q) = Append(NamesOf(p), k)
  <2> DEFINE r == Append(NamesOf(p), k)
             t == NamesOf(p)
  <2>1. t \in Seq(Names) /\ Len(t) = Len(p) /\ \A i \in 1 .. Len(p) : t[i] = p[i][1]
    BY NamesType DEF NamesOf, KeyLists
  <2> HIDE DEF t
  <2>2. /\ Append(t, k) \in Seq(Names) /\ Len(Append(t, k)) = Len(p) + 1
        /\ \A i \in 1 .. Len(p) : Append(t, k)[i] = t[i]
        /\ Append(t, k)[Len(p) + 1] = k
    BY <2>1
  <2>3. r \in Seq(Names) /\ Len(r) = Len(p) + 1 /\ r[Len(p) + 1] = k
        /\ \A i \in 1 .. Len(p) : r[i] = p[i][1]
    BY <2>1, <2>2 DEF t
  <2> HIDE DEF r
  <2>4. /\ NamesOf(q) \in Seq(Names) /\ Len(NamesOf(q)) = Len(p) + 1
        /\ \A i \in 1 .. Len(p) + 1 : NamesOf(q)[i] = q[i][1]
    BY <1>1, NamesType DEF NamesOf, KeyLists
  <2>5. \A i \in 1 .. Len(p) + 1 : NamesOf(q)[i] = r[i]
    <3> SUFFICES ASSUME NEW i \in 1 .. Len(p) + 1 PROVE NamesOf(q)[i] = r[i]
      OBVIOUS
    <3>1. i \in 1 .. Len(p) \/ i = Len(p) + 1
      BY <1>2
    <3> QED BY <1>1, <2>3, <2>4, <3>1
  <2>6. NamesOf(q) = r
    BY <2>3, <2>4, <2>5
  <2> QED BY <2>6 DEF r
<1> QED BY <1>3, <1>4, <1>5 DEF q

\* setValue finds the hash that the context leads to.
LEMMA WalkLeads ==
  ASSUME NEW m \in Maps, NEW keys \in KeyLists, NEW p \in Paths, Leads(m, keys, p)
  PROVE  Walk(m, keys) = [hash |-> p, ok |-> TRUE]
<1> DEFINE N == Len(keys)
<1>1. N \in Nat /\ N = Len(p) /\ \A n \in 1 .. N : keys[n] \in Names /\ keys[n] = p[n][1]
  <2>1. NamesOf(p) = keys
    BY DEF Leads
  <2> QED BY <2>1, NamesType DEF KeyLists, NamesOf
<1>2. PICK g \in [0 .. N -> Walks] :
        /\ g[0] = [hash |-> <<>>, ok |-> TRUE]
        /\ \A n \in 1 .. N : g[n] = WalkKey(m, g[n - 1], keys[n])
        /\ Walk(m, keys) = g[N]
  BY WalkIs
<1> DEFINE S == {n \in 0 .. N : /\ g[n].ok /\ Len(g[n].hash) = n
                                /\ \A i \in 1 .. n : g[n].hash[i] = p[i]}
<1>3. 0 \in S
  BY <1>1, <1>2
<1>4. ASSUME NEW n \in 0 .. N - 1, n \in S
      PROVE  n + 1 \in S
  <2> DEFINE h == g[n].hash
             k == keys[n + 1]
             e == p[n + 1][2]
  <2>1. n + 1 \in 1 .. N /\ n \in Nat /\ n \in 0 .. N /\ (n + 1) - 1 = n /\ n + 1 \in 0 .. N
    BY <1>1
  <2>2. h \in Paths /\ Len(h) = n /\ g[n].ok /\ \A i \in 1 .. n : h[i] = p[i]
    BY <1>2, <1>4, <2>1 DEF Walks
  <2>3. k \in Names /\ k = p[n + 1][1] /\ p[n + 1] \in Names \X Nat /\ e \in Nat
    BY <1>1, <2>1 DEF Paths
  <2>4. Spot(p, n + 1) = Place(h, k)
    <3> HIDE DEF h, k
    <3>1. /\ n + 1 \in 1 .. Len(p) /\ Len(h) = (n + 1) - 1
          /\ \A i \in 1 .. (n + 1) - 1 : h[i] = p[i]
      BY <1>1, <2>1, <2>2
    <3>2. Spot(p, n + 1) = Place(h, p[n + 1][1])
      BY <2>2, <3>1, SpotIsPlace
    <3> QED BY <2>3, <3>2
  <2> DEFINE at == Place(h, k)
  <2>5. /\ at \in DOMAIN m /\ Through(m[at], e)
        /\ m[at].kind = "array" => e = m[at].len
    BY <1>1, <2>1, <2>4 DEF Leads
  <2>6. m[at].kind # "value"
    BY <2>5 DEF Through
  <2>7. PICK f \in Nat : /\ Inner(m, h, k) = Append(h, <<k, f>>) /\ Through(m[at], f)
                         /\ m[at].kind = "array" => f = m[at].len
    <3> HIDE DEF h, k
    <3> QED BY <2>2, <2>3, <2>5, <2>6, InnerIs DEF at
  <2>8. f = e
    <3> HIDE DEF at, e
    <3> QED BY <2>5, <2>7 DEF Through
  <2>9. p[n + 1] = <<k, f>>
    BY <2>3, <2>8
  <2>10. g[n + 1] = [g[n] EXCEPT !.hash = Append(h, <<k, f>>)]
    <3>1. g[n + 1] = WalkKey(m, g[n], k)
      BY <1>2, <2>1
    <3>2. WalkKey(m, g[n], k) = [g[n] EXCEPT !.hash = Inner(m, h, k)]
      BY <2>2, <2>5, <2>6 DEF WalkKey
    <3> QED BY <2>7, <3>1, <3>2
  <2>11. g[n] \in Walks
    BY <1>2, <2>1
  <2>12. g[n + 1].ok /\ g[n + 1].hash = Append(h, <<k, f>>)
    BY <2>2, <2>10, <2>11 DEF Walks
  <2>13. /\ Len(Append(h, <<k, f>>)) = n + 1 /\ Append(h, <<k, f>>)[n + 1] = <<k, f>>
         /\ \A i \in 1 .. n : Append(h, <<k, f>>)[i] = h[i]
    <3> HIDE DEF h, k
    <3> QED BY <2>2, <2>3, AppendIs
  <2>14. \A i \in 1 .. n + 1 : g[n + 1].hash[i] = p[i]
    <3> SUFFICES ASSUME NEW i \in 1 .. n + 1 PROVE g[n + 1].hash[i] = p[i]
      OBVIOUS
    <3>1. i \in 1 .. n \/ i = n + 1
      BY <2>1
    <3> HIDE DEF h, k
    <3> QED BY <2>2, <2>9, <2>12, <2>13, <3>1
  <2> HIDE DEF h, k, e, at
  <2> QED BY <2>1, <2>12, <2>13, <2>14
<1>5. N \in S
  <2> HIDE DEF S, N
  <2>1. \A n \in 0 .. N : n \in S
    BY <1>1, <1>3, <1>4, UpTo
  <2> QED BY <1>1, <2>1
<1>6. g[N].hash = p /\ g[N].ok = TRUE /\ g[N] \in Walks
  <2>1. g[N] \in Walks /\ g[N].hash \in Paths
    BY <1>1, <1>2 DEF Walks
  <2> QED BY <1>1, <1>5, <2>1 DEF Walks, Paths
<1>7. g[N] = [hash |-> p, ok |-> TRUE]
  BY <1>6 DEF Walks
<1> QED BY <1>2, <1>7

-----------------------------------------------------------------------------
(* Mappings that grow.                                                     *)

LEMMA GrowsSelf ==
  ASSUME NEW m \in Maps
  PROVE  Grows(m, m)
BY MapIs DEF Grows, Nodes

LEMMA GrowsOn ==
  ASSUME NEW m \in Maps, NEW mm \in Maps, NEW mmm \in Maps, Grows(m, mm), Grows(mm, mmm)
  PROVE  Grows(m, mmm)
<1> SUFFICES ASSUME NEW p \in DOMAIN m
             PROVE  p \in DOMAIN mmm /\ mmm[p].kind = m[p].kind /\ m[p].len <= mmm[p].len
  BY DEF Grows
<1>1. p \in DOMAIN mm /\ p \in DOMAIN mmm
  BY DEF Grows
<1>2. m[p].len \in Nat /\ mm[p].len \in Nat /\ mmm[p].len \in Nat
  BY <1>1, MapIs DEF Nodes
<1> QED BY <1>1, <1>2 DEF Grows

LEMMA GrowsPut ==
  ASSUME NEW m \in Maps, NEW at \in Paths, NEW node \in Nodes,
         at \in DOMAIN m => node.kind = m[at].kind /\ m[at].len <= node.len
  PROVE  Grows(m, PutAt(m, at, node))
<1> SUFFICES ASSUME NEW p \in DOMAIN m
             PROVE  /\ p \in DOMAIN PutAt(m, at, node)
                    /\ PutAt(m, at, node)[p].kind = m[p].kind
                    /\ m[p].len <= PutAt(m, at, node)[p].len
  BY DEF Grows
<1>1. /\ p \in DOMAIN PutAt(m, at, node) /\ PutAt(m, at, node)[at] = node
      /\ p # at => PutAt(m, at, node)[p] = m[p]
  <2> DEFINE mm == PutAt(m, at, node)
  <2>1. /\ DOMAIN mm = DOMAIN m \cup {at} /\ mm[at] = node
        /\ \A x \in DOMAIN m : x # at => mm[x] = m[x]
    BY PutIs
  <2> HIDE DEF mm
  <2>2. p \in DOMAIN mm /\ mm[at] = node /\ (p # at => mm[p] = m[p])
    BY <2>1
  <2> QED BY <2>2 DEF mm
<1>2. m[p].len \in Nat
  BY MapIs DEF Nodes
<1> QED BY <1>1, <1>2

LEMMA GuidedOn ==
  ASSUME NEW m \in Maps, NEW mm \in Maps, Grows(m, mm), NEW p \in Paths, Guided(m, p)
  PROVE  Guided(mm, p)
<1> SUFFICES ASSUME NEW n \in 1 .. Len(p) - 1
             PROVE  Spot(p, n) \in DOMAIN mm /\ Through(mm[Spot(p, n)], p[n][2])
  BY DEF Guided
<1> DEFINE x == Spot(p, n)
           e == p[n][2]
<1>1. x \in DOMAIN m /\ Through(m[x], e)
  BY DEF Guided
<1>2. e \in Nat
  BY DEF Paths
<1> HIDE DEF x, e
<1>3. x \in DOMAIN mm /\ mm[x].kind = m[x].kind /\ m[x].len <= mm[x].len
  BY <1>1 DEF Grows
<1>4. m[x].len \in Nat /\ mm[x].len \in Nat
  BY <1>1, <1>3, MapIs DEF Nodes
<1>5. Through(mm[x], e)
  BY <1>1, <1>2, <1>3, <1>4 DEF Through
<1> QED BY <1>3, <1>5 DEF x, e

LEMMA KnownOn ==
  ASSUME NEW m \in Maps, NEW mm \in Maps, Grows(m, mm), NEW keys, Known(m, keys)
  PROVE  Known(mm, keys)
<1>1. PICK p \in DOMAIN m : IsPlace(p) /\ Guided(m, p) /\ NamesOf(p) = keys
  BY DEF Known
<1>2. p \in Paths /\ p \in DOMAIN mm
  BY MapIs DEF Grows
<1>3. Guided(mm, p)
  BY <1>1, <1>2, GuidedOn
<1> QED BY <1>1, <1>2, <1>3 DEF Known

\* A new place changes nothing on the way to another.
LEMMA LeadsPut ==
  ASSUME NEW m \in Maps, NEW at \in Paths, NEW node \in Nodes, at \notin DOMAIN m,
         NEW keys, NEW p \in Paths, Leads(m, keys, p)
  PROVE  Leads(PutAt(m, at, node), keys, p)
<1> DEFINE mm == PutAt(m, at, node)
<1>1. DOMAIN mm = DOMAIN m \cup {at} /\ \A x \in DOMAIN m : x # at => mm[x] = m[x]
  BY PutIs
<1> HIDE DEF mm
<1>2. Leads(mm, keys, p)
  BY <1>1 DEF Leads
<1> QED BY <1>2 DEF mm

LEMMA LeadsGuided ==
  ASSUME NEW m \in Maps, NEW keys \in KeyLists, NEW p \in Paths, Leads(m, keys, p),
         NEW k \in Names
  PROVE  /\ Place(p, k) \in Paths /\ IsPlace(Place(p, k)) /\ Guided(m, Place(p, k))
         /\ NamesOf(Place(p, k)) = Append(keys, k)
<1> DEFINE q == Append(p, <<k, 0>>)
<1>1. q = Place(p, k)
  BY DEF Place
<1>2. /\ \A n \in 1 .. Len(p) : Spot(q, n) = Spot(p, n)
      /\ NamesOf(q) = Append(NamesOf(p), k)
  BY SpotsOfAppend
<1>3. q \in Paths /\ Len(q) = Len(p) + 1 /\ \A i \in 1 .. Len(p) : q[i] = p[i]
  BY AppendIs
<1>4. IsPlace(q)
  BY <1>1, PlaceIs
<1> HIDE DEF q
<1>5. Guided(m, q)
  <2> SUFFICES ASSUME NEW n \in 1 .. Len(q) - 1
               PROVE  Spot(q, n) \in DOMAIN m /\ Through(m[Spot(q, n)], q[n][2])
    BY DEF Guided
  <2>1. n \in 1 .. Len(p)
    BY <1>3 DEF Paths
  <2> QED BY <1>2, <1>3, <2>1 DEF Leads
<1> QED BY <1>1, <1>2, <1>3, <1>4, <1>5 DEF Leads

\* Through a node at the end of it, the way goes on.
LEMMA LeadsOn ==
  ASSUME NEW m \in Maps, NEW keys \in KeyLists, NEW p \in Paths, Leads(m, keys, p),
         NEW k \in Names, NEW e \in Nat, Place(p, k) \in DOMAIN m,
         Through(m[Place(p, k)], e),
         m[Place(p, k)].kind = "array" => e = m[Place(p, k)].len
  PROVE  Leads(m, Append(keys, k), Append(p, <<k, e>>))
<1> DEFINE q == Append(p, <<k, e>>)
<1>1. /\ \A n \in 1 .. Len(p) : Spot(q, n) = Spot(p, n)
      /\ Spot(q, Len(p) + 1) = Place(p, k) /\ NamesOf(q) = Append(NamesOf(p), k)
  BY SpotsOfAppend
<1>2. /\ q \in Paths /\ Len(q) = Len(p) + 1 /\ q[Len(p) + 1] = <<k, e>>
      /\ \A i \in 1 .. Len(p) : q[i] = p[i]
  BY AppendIs
<1> HIDE DEF q
<1>3. ASSUME NEW n \in 1 .. Len(q)
      PROVE  /\ Spot(q, n) \in DOMAIN m
             /\ Through(m[Spot(q, n)], q[n][2])
             /\ m[Spot(q, n)].kind = "array" => q[n][2] = m[Spot(q, n)].len
  <2>1. n \in 1 .. Len(p) \/ n = Len(p) + 1
    BY <1>2 DEF Paths
  <2>2. CASE n \in 1 .. Len(p)
    <3>1. Spot(q, n) = Spot(p, n) /\ q[n] = p[n]
      BY <1>1, <1>2, <2>2
    <3> QED BY <2>2, <3>1 DEF Leads
  <2>3. CASE n = Len(p) + 1
    <3>1. Spot(q, n) = Place(p, k) /\ q[n][2] = e
      BY <1>1, <1>2, <2>3
    <3> QED BY <3>1
  <2> QED BY <2>1, <2>2, <2>3
<1>4. NamesOf(q) = Append(keys, k)
  BY <1>1 DEF Leads
<1> QED BY <1>3, <1>4 DEF Leads, q

\* Where the keys of the mapping have one name each, so have those of a hash.
LEMMA LeadsShort ==
  ASSUME NEW m \in Maps, NEW keys \in KeyLists, NEW p \in Paths, Leads(m, keys, p), Single(m)
  PROVE  \A i \in 1 .. Len(keys) : Len(keys[i]) = 1
<1> SUFFICES ASSUME NEW i \in 1 .. Len(keys) PROVE Len(keys[i]) = 1
  OBVIOUS
<1>1. Len(keys) = Len(p) /\ NamesOf(p) = keys
  BY NamesType DEF Leads
<1>2. i \in 1 .. Len(p) /\ keys[i] = p[i][1]
  BY <1>1 DEF NamesOf
<1>3. Spot(p, i) \in DOMAIN m /\ Len(Spot(p, i)) = i /\ i \in 1 .. i
  BY <1>2, SpotType DEF Leads
<1>4. Short(Spot(p, i)) /\ Spot(p, i)[i] = <<p[i][1], 0>>
  BY <1>2, <1>3 DEF Single, Spot
<1> QED BY <1>2, <1>3, <1>4 DEF Short

-----------------------------------------------------------------------------
(* New places, and implicit ones that a statement defines.                 *)

\* A place is the only one with its keys joined.
LEMMA OnePlace ==
  ASSUME NEW m \in Maps, Closed(m), Single(m),
         NEW at \in Paths, IsPlace(at), Guided(m, at),
         NEW keys \in KeyLists, NamesOf(at) = keys, \A i \in 1 .. Len(keys) : Len(keys[i]) = 1,
         NEW p \in DOMAIN m, Join(NamesOf(p)) = Join(keys)
  PROVE  p = at
<1>1. p \in Paths /\ IsPlace(p) /\ Guided(m, p) /\ Short(p)
  BY MapIs DEF Closed, Single
<1>2. NamesOf(p) \in KeyLists /\ Len(NamesOf(p)) = Len(p)
  BY <1>1, NamesType
<1>3. \A i \in 1 .. Len(NamesOf(p)) : Len(NamesOf(p)[i]) = 1
  BY <1>1, <1>2 DEF Short, NamesOf
<1>4. NamesOf(p) = keys
  BY <1>2, <1>3, JoinApart
<1> QED BY <1>1, <1>4, SamePath DEF Single

LEMMA NamesOn ==
  ASSUME NEW keys \in KeyLists, NEW k \in Names
  PROVE  /\ Append(keys, k) \in KeyLists /\ Len(Append(keys, k)) = Len(keys) + 1
         /\ \A i \in 1 .. Len(keys) : Append(keys, k)[i] = keys[i]
         /\ Append(keys, k)[Len(keys) + 1] = k
         /\ (\A i \in 1 .. Len(keys) : Len(keys[i]) = 1) /\ Len(k) = 1
              => \A i \in 1 .. Len(Append(keys, k)) : Len(Append(keys, k)[i]) = 1
<1>1. /\ Append(keys, k) \in Seq(Names) /\ Len(Append(keys, k)) = Len(keys) + 1
      /\ \A i \in 1 .. Len(keys) : Append(keys, k)[i] = keys[i]
      /\ Append(keys, k)[Len(keys) + 1] = k
  BY DEF KeyLists
<1> DEFINE s == Append(keys, k)
<1> HIDE DEF s
<1>2. ASSUME \A i \in 1 .. Len(keys) : Len(keys[i]) = 1, Len(k) = 1, NEW i \in 1 .. Len(s)
      PROVE  Len(s[i]) = 1
  <2>1. i \in 1 .. Len(keys) \/ i = Len(keys) + 1
    BY <1>1 DEF s, KeyLists
  <2>2. CASE i \in 1 .. Len(keys)
    BY <1>1, <1>2, <2>2 DEF s
  <2>3. CASE i = Len(keys) + 1
    BY <1>1, <1>2, <2>3 DEF s
  <2> QED BY <2>1, <2>2, <2>3
<1> QED BY <1>1, <1>2 DEF s, KeyLists

\* A mapping with a new place in it.
LEMMA ShapePut ==
  ASSUME NEW m \in Maps, Closed(m), Single(m),
         NEW keys \in KeyLists, NEW p \in Paths, Leads(m, keys, p),
         NEW k \in Names, Len(k) = 1, Place(p, k) \notin DOMAIN m,
         NEW node \in Nodes, node.len < 2
  PROVE  /\ Closed(PutAt(m, Place(p, k), node)) /\ Single(PutAt(m, Place(p, k), node))
<1> DEFINE at == Place(p, k)
           mm == PutAt(m, at, node)
<1>1. at \in Paths /\ IsPlace(at) /\ Guided(m, at)
  BY LeadsGuided
<1>2. Short(at)
  <2>1. /\ Len(at) = Len(p) + 1 /\ at[Len(p) + 1] = <<k, 0>>
        /\ \A i \in 1 .. Len(p) : at[i] = p[i]
    BY PlaceIs
  <2>2. NamesOf(p) = keys /\ Len(keys) = Len(p)
    BY NamesType DEF Leads
  <2>3. \A i \in 1 .. Len(p) : Len(p[i][1]) = 1
    BY <2>2, LeadsShort DEF NamesOf
  <2> HIDE DEF at
  <2>4. ASSUME NEW i \in 1 .. Len(at)
        PROVE  Len(at[i][1]) = 1
    <3>1. i \in 1 .. Len(p) \/ i = Len(p) + 1
      BY <2>1 DEF Paths
    <3> QED BY <2>1, <2>3, <3>1
  <2> QED BY <2>4 DEF Short
<1>3. at \notin DOMAIN m
  OBVIOUS
<1> HIDE DEF at
<1>4. /\ mm \in Maps /\ DOMAIN mm = DOMAIN m \cup {at} /\ mm[at] = node
      /\ \A q \in DOMAIN m : q # at => mm[q] = m[q]
  BY <1>1, PutIs
<1>5. Grows(m, mm)
  BY <1>1, <1>3, GrowsPut
<1> HIDE DEF mm
<1>6. Closed(mm)
  <2> SUFFICES ASSUME NEW q \in DOMAIN mm PROVE IsPlace(q) /\ Guided(mm, q)
    BY DEF Closed
  <2>1. CASE q = at
    BY <1>1, <1>4, <1>5, <2>1, GuidedOn
  <2>2. CASE q # at
    <3>1. q \in DOMAIN m /\ q \in Paths
      BY <1>4, <2>2, MapIs
    <3> QED BY <1>4, <1>5, <3>1, GuidedOn DEF Closed
  <2> QED BY <2>1, <2>2
<1>7. Single(mm)
  BY <1>2, <1>4 DEF Single
<1> QED BY <1>6, <1>7 DEF mm, at

\* What is implicit stays apart from what is defined.
LEMMA GoodPut ==
  ASSUME NEW m \in Maps, NEW imp, NEW def \in SUBSET Paths, Good(m, imp, def),
         NEW keys \in KeyLists, NEW p \in Paths, Leads(m, keys, p),
         NEW k \in Names, Len(k) = 1, Place(p, k) \notin DOMAIN m,
         NEW node \in Nodes, node.len < 2
  PROVE  /\ Place(p, k) \notin def
         /\ Good(PutAt(m, Place(p, k), node), imp, def \cup {Place(p, k)})
         /\ node.kind = "hash"
              => Good(PutAt(m, Place(p, k), node), imp \cup {Join(Append(keys, k))}, def)
         /\ node = Array(1)
              => /\ Append(p, <<k, 1>>) \notin def
                 /\ Good(PutAt(m, Place(p, k), node), imp, def \cup {Append(p, <<k, 1>>)})
<1> DEFINE at == Place(p, k)
           mm == PutAt(m, at, node)
           all == Append(keys, k)
           x == Append(p, <<k, 1>>)
<1>1. at \in Paths /\ IsPlace(at) /\ Guided(m, at) /\ NamesOf(at) = all
  BY LeadsGuided
<1>2. all \in KeyLists /\ \A i \in 1 .. Len(all) : Len(all[i]) = 1
  BY LeadsShort, NamesOn DEF Good
<1>3. at \notin DOMAIN m
  OBVIOUS
<1>4. Closed(mm) /\ Single(mm)
  BY ShapePut DEF Good
<1>5. /\ x \in Paths /\ x # <<>> /\ Len(x) > 0 /\ x[Len(x)][2] = 1 /\ Spot(x, Len(x)) = at
  <2>1. x \in Paths /\ Len(x) = Len(p) + 1 /\ x[Len(p) + 1] = <<k, 1>>
    BY AppendIs
  <2>2. Spot(x, Len(p) + 1) = at
    BY SpotsOfAppend
  <2>3. Len(p) \in Nat
    BY DEF Paths
  <2> HIDE DEF x, at
  <2>4. x[Len(x)][2] = 1
    BY <2>1
  <2> QED BY <2>1, <2>2, <2>3, <2>4
<1> HIDE DEF x, all, at
<1>6. /\ mm \in Maps /\ DOMAIN mm = DOMAIN m \cup {at} /\ mm[at] = node
      /\ \A q \in DOMAIN m : q # at => mm[q] = m[q]
  BY <1>1, PutIs
<1> HIDE DEF mm
<1>7. at \notin def
  <2>1. at[Len(at)][2] = 0
    BY <1>1 DEF IsPlace
  <2> QED BY <1>3, <2>1 DEF Good, Implied
<1>8. \A q \in DOMAIN m : Join(NamesOf(q)) # Join(all)
  <2> SUFFICES ASSUME NEW q \in DOMAIN m, Join(NamesOf(q)) = Join(all) PROVE FALSE
    OBVIOUS
  <2>1. q = at
    BY <1>1, <1>2, OnePlace DEF Good
  <2> QED BY <1>3, <2>1
<1>9. Join(all) \notin imp
  BY <1>8 DEF Good, Implied
<1>10. \A j \in imp : \E q \in DOMAIN mm : mm[q].kind = "hash" /\ Join(NamesOf(q)) = j
  <2> SUFFICES ASSUME NEW j \in imp
               PROVE  \E q \in DOMAIN mm : mm[q].kind = "hash" /\ Join(NamesOf(q)) = j
    OBVIOUS
  <2>1. PICK q \in DOMAIN m : m[q].kind = "hash" /\ Join(NamesOf(q)) = j
    BY DEF Good, Implied
  <2>2. q \in DOMAIN mm /\ mm[q] = m[q]
    BY <1>3, <1>6
  <2> QED BY <2>1, <2>2
<1>11. \A q \in def \ DOMAIN mm :
         /\ q # <<>> /\ q[Len(q)][2] > 0 /\ Spot(q, Len(q)) \in DOMAIN mm
         /\ q[Len(q)][2] <= mm[Spot(q, Len(q))].len
  <2> SUFFICES ASSUME NEW q \in def \ DOMAIN mm
               PROVE  /\ q # <<>> /\ q[Len(q)][2] > 0 /\ Spot(q, Len(q)) \in DOMAIN mm
                      /\ q[Len(q)][2] <= mm[Spot(q, Len(q))].len
    OBVIOUS
  <2>1. q \in def \ DOMAIN m
    BY <1>6
  <2>2. /\ q # <<>> /\ q[Len(q)][2] > 0 /\ Spot(q, Len(q)) \in DOMAIN m
        /\ q[Len(q)][2] <= m[Spot(q, Len(q))].len
    BY <2>1 DEF Good, Implied
  <2> QED BY <1>3, <1>6, <2>2
<1>12. \A q \in def \cap DOMAIN mm : q \in DOMAIN m /\ Join(NamesOf(q)) \notin imp
  BY <1>6, <1>7 DEF Good, Implied
<1>13. Good(mm, imp, def \cup {at})
  <2>1. \A q \in (def \cup {at}) \cap DOMAIN mm : Join(NamesOf(q)) \notin imp
    BY <1>1, <1>9, <1>12
  <2>2. (def \cup {at}) \ DOMAIN mm = def \ DOMAIN mm
    BY <1>6
  <2>3. Implied(mm, imp, def \cup {at})
    BY <1>10, <1>11, <2>1, <2>2 DEF Implied
  <2> QED BY <1>4, <2>3 DEF Good
<1>14. ASSUME node.kind = "hash"
       PROVE  Good(mm, imp \cup {Join(all)}, def)
  <2>1. \A q \in def \cap DOMAIN mm : Join(NamesOf(q)) \notin imp \cup {Join(all)}
    BY <1>8, <1>12
  <2>2. \A j \in imp \cup {Join(all)} :
          \E q \in DOMAIN mm : mm[q].kind = "hash" /\ Join(NamesOf(q)) = j
    BY <1>1, <1>6, <1>10, <1>14
  <2>3. Implied(mm, imp \cup {Join(all)}, def)
    BY <1>11, <2>1, <2>2 DEF Implied
  <2> QED BY <1>4, <2>3 DEF Good
<1>15. ASSUME node = Array(1)
       PROVE  x \notin def /\ Good(mm, imp, def \cup {x})
  <2>1. x \notin DOMAIN mm
    <3>1. ~IsPlace(x)
      BY <1>5 DEF IsPlace
    <3> QED BY <1>4, <3>1 DEF Closed
  <2>2. x \notin def
    <3> SUFFICES ASSUME x \in def PROVE FALSE
      OBVIOUS
    <3>1. x \in def \ DOMAIN m
      BY <1>6, <2>1
    <3>2. Spot(x, Len(x)) \in DOMAIN m
      BY <3>1 DEF Good, Implied
    <3> QED BY <1>3, <1>5, <3>2
  <2>3. \A q \in (def \cup {x}) \cap DOMAIN mm : Join(NamesOf(q)) \notin imp
    BY <1>12, <2>1
  <2>4. mm[at].len = 1
    BY <1>6, <1>15 DEF Array
  <2>5. \A q \in (def \cup {x}) \ DOMAIN mm :
          /\ q # <<>> /\ q[Len(q)][2] > 0 /\ Spot(q, Len(q)) \in DOMAIN mm
          /\ q[Len(q)][2] <= mm[Spot(q, Len(q))].len
    BY <1>5, <1>6, <1>11, <2>4
  <2>6. Implied(mm, imp, def \cup {x})
    BY <1>10, <2>3, <2>5 DEF Implied
  <2> QED BY <1>4, <2>2, <2>6 DEF Good
<1> QED BY <1>7, <1>13, <1>14, <1>15 DEF mm, x, all, at

\* A statement that defines an implicit table.
LEMMA GoodDrop ==
  ASSUME NEW m \in Maps, NEW imp, NEW def \in SUBSET Paths, Good(m, imp, def),
         NEW keys \in KeyLists, NEW p \in Paths, Leads(m, keys, p),
         NEW k \in Names, Len(k) = 1, Place(p, k) \in DOMAIN m,
         Join(Append(keys, k)) \in imp
  PROVE  /\ Place(p, k) \notin def /\ m[Place(p, k)].kind = "hash"
         /\ Good(m, imp \ {Join(Append(keys, k))}, def \cup {Place(p, k)})
<1> DEFINE at == Place(p, k)
           all == Append(keys, k)
<1>1. at \in Paths /\ IsPlace(at) /\ Guided(m, at) /\ NamesOf(at) = all
  BY LeadsGuided
<1>2. all \in KeyLists /\ \A i \in 1 .. Len(all) : Len(all[i]) = 1
  BY LeadsShort, NamesOn DEF Good
<1>3. at \in DOMAIN m /\ Join(all) \in imp
  OBVIOUS
<1> HIDE DEF all, at
<1>4. at \notin def
  BY <1>1, <1>3 DEF Good, Implied
<1>5. PICK q \in DOMAIN m : m[q].kind = "hash" /\ Join(NamesOf(q)) = Join(all)
  BY <1>3 DEF Good, Implied
<1>6. q = at
  BY <1>1, <1>2, <1>5, OnePlace DEF Good
<1>7. \A r \in (def \cup {at}) \cap DOMAIN m : Join(NamesOf(r)) \notin imp \ {Join(all)}
  BY <1>1 DEF Good, Implied
<1>8. (def \cup {at}) \ DOMAIN m = def \ DOMAIN m
  BY <1>3
<1>9. Implied(m, imp \ {Join(all)}, def \cup {at})
  BY <1>7, <1>8 DEF Good, Implied
<1> QED BY <1>4, <1>5, <1>6, <1>9 DEF Good, at, all

-----------------------------------------------------------------------------
(* The loop of establishContext.                                           *)

LEMMA JoinType ==
  ASSUME NEW keys \in KeyLists
  PROVE  Join(keys) \in Names
<1>1. PICK g \in [0 .. Len(keys) -> Names] : Join(keys) = g[Len(keys)]
  BY JoinIs
<1>2. Len(keys) \in 0 .. Len(keys)
  BY DEF KeyLists
<1> QED BY <1>1, <1>2

LEMMA DrillKeyCases ==
  ASSUME NEW acc \in Docs, NEW k \in Names
  PROVE  LET at == Place(acc.at, k)
             seen == Append(acc.ctx, k)
         IN  \/ acc.res # "run" /\ DrillKey(acc, k) = acc
             \/ /\ acc.res = "run" /\ at \in DOMAIN acc.m /\ acc.m[at].kind = "value"
                /\ DrillKey(acc, k) = [acc EXCEPT !.res = "error"]
             \/ /\ acc.res = "run" /\ at \in DOMAIN acc.m /\ acc.m[at].kind # "value"
                /\ DrillKey(acc, k) = [acc EXCEPT !.ctx = seen, !.at = Inner(acc.m, acc.at, k)]
             \/ /\ acc.res = "run" /\ at \notin DOMAIN acc.m
                /\ DrillKey(acc, k) =
                     [acc EXCEPT !.m = PutAt(acc.m, at, Hash), !.imp = acc.imp \cup {Join(seen)},
                                 !.ctx = seen, !.at = at]
<1> DEFINE at == Place(acc.at, k)
           seen == Append(acc.ctx, k)
           put == PutAt(acc.m, at, Hash)
<1>1. acc.m \in Maps /\ acc.at \in Paths
  BY DEF Docs
<1>2. at \in Paths
  BY <1>1, PlaceIs
<1>3. Hash \in Nodes
  BY DEF Hash, Nodes, Kinds
<1>4. put[at] = Hash
  <2> HIDE DEF at
  <2> QED BY <1>1, <1>2, <1>3, PutIs
<1>5. CASE acc.res # "run"
  BY <1>5 DEF DrillKey
<1>6. CASE acc.res = "run" /\ at \in DOMAIN acc.m
  BY <1>6 DEF DrillKey
<1>7. CASE acc.res = "run" /\ at \notin DOMAIN acc.m
  <2> DEFINE there == [acc EXCEPT !.m = put, !.imp = acc.imp \cup {Join(seen)}]
  <2>1. there.m = put
    BY DEF Docs
  <2>2. Inner(put, acc.at, k) = at
    BY <1>4 DEF Inner, Hash
  <2>3. there.m[at].kind # "value"
    BY <1>4, <2>1 DEF Hash
  <2>4. DrillKey(acc, k) = [there EXCEPT !.ctx = seen, !.at = Inner(there.m, acc.at, k)]
    BY <1>7, <2>3 DEF DrillKey
  <2>5. DrillKey(acc, k) = [there EXCEPT !.ctx = seen, !.at = at]
    BY <2>1, <2>2, <2>4
  <2> HIDE DEF put, at, seen
  <2>6. DrillKey(acc, k) =
          [acc EXCEPT !.m = put, !.imp = acc.imp \cup {Join(seen)}, !.ctx = seen, !.at = at]
    BY <2>5
  <2> QED BY <1>7, <2>6 DEF put, at, seen
<1> QED BY <1>5, <1>6, <1>7

\* One key: the mapping grows, and the document is still at the hash of its context.
LEMMA DrillKeyKeeps ==
  ASSUME NEW acc \in Docs, NEW k \in Names
  PROVE  /\ DrillKey(acc, k) \in Docs
         /\ Grows(acc.m, DrillKey(acc, k).m)
         /\ acc.res # "bug" => DrillKey(acc, k).res # "bug"
         /\ DrillKey(acc, k).res = "run"
              => acc.res = "run" /\ DrillKey(acc, k).ctx = Append(acc.ctx, k)
         /\ DrillKey(acc, k).res = "run" /\ Leads(acc.m, acc.ctx, acc.at)
              => Leads(DrillKey(acc, k).m, Append(acc.ctx, k), DrillKey(acc, k).at)
<1> DEFINE at == Place(acc.at, k)
           seen == Append(acc.ctx, k)
           put == PutAt(acc.m, at, Hash)
           new == DrillKey(acc, k)
<1>1. /\ acc.m \in Maps /\ acc.at \in Paths /\ acc.ctx \in KeyLists /\ acc.imp \subseteq Names
      /\ acc.res \in {"run", "error", "bug"}
  BY DEF Docs
<1>2. at \in Paths /\ Hash \in Nodes
  BY <1>1, PlaceIs DEF Hash, Nodes, Kinds
<1>3. seen \in KeyLists
  BY <1>1, NamesOn
<1>4. \/ acc.res # "run" /\ new = acc
      \/ /\ acc.res = "run" /\ at \in DOMAIN acc.m /\ acc.m[at].kind = "value"
         /\ new = [acc EXCEPT !.res = "error"]
      \/ /\ acc.res = "run" /\ at \in DOMAIN acc.m /\ acc.m[at].kind # "value"
         /\ new = [acc EXCEPT !.ctx = seen, !.at = Inner(acc.m, acc.at, k)]
      \/ /\ acc.res = "run" /\ at \notin DOMAIN acc.m
         /\ new = [acc EXCEPT !.m = put, !.imp = acc.imp \cup {Join(seen)},
                              !.ctx = seen, !.at = at]
  BY DrillKeyCases
<1> HIDE DEF new
<1>5. Grows(acc.m, acc.m)
  BY <1>1, GrowsSelf
<1>6. CASE acc.res # "run" /\ new = acc
  BY <1>5, <1>6 DEF new
<1>7. CASE acc.res = "run" /\ new = [acc EXCEPT !.res = "error"]
  <2>1. new \in Docs /\ new.m = acc.m /\ new.res = "error"
    BY <1>7 DEF Docs
  <2> QED BY <1>5, <2>1 DEF new
<1>8. CASE /\ acc.res = "run" /\ at \in DOMAIN acc.m /\ acc.m[at].kind # "value"
           /\ new = [acc EXCEPT !.ctx = seen, !.at = Inner(acc.m, acc.at, k)]
  <2>1. PICK e \in Nat : /\ Inner(acc.m, acc.at, k) = Append(acc.at, <<k, e>>)
                         /\ Through(acc.m[at], e)
                         /\ acc.m[at].kind = "array" => e = acc.m[at].len
    BY <1>1, <1>8, InnerIs
  <2> DEFINE to == Append(acc.at, <<k, e>>)
  <2>2. to \in Paths
    BY <1>1, AppendIs
  <2>3. Leads(acc.m, acc.ctx, acc.at) => Leads(acc.m, seen, to)
    BY <1>1, <1>8, <2>1, LeadsOn
  <2> HIDE DEF to, seen
  <2>4. new \in Docs /\ new.m = acc.m /\ new.res = "run" /\ new.ctx = seen /\ new.at = to
    BY <1>3, <1>8, <2>1, <2>2 DEF Docs, to
  <2> QED BY <1>5, <1>8, <2>3, <2>4 DEF new, seen
<1>9. CASE /\ acc.res = "run" /\ at \notin DOMAIN acc.m
           /\ new = [acc EXCEPT !.m = put, !.imp = acc.imp \cup {Join(seen)},
                                !.ctx = seen, !.at = at]
  <2>1. at \notin DOMAIN acc.m
    BY <1>9
  <2>2. at = Append(acc.at, <<k, 0>>)
    BY DEF Place
  <2>3. Join(seen) \in Names
    BY <1>3, JoinType
  <2>4. /\ put \in Maps /\ at \in DOMAIN put /\ put[at] = Hash /\ Grows(acc.m, put)
        /\ Leads(acc.m, acc.ctx, acc.at) => Leads(put, acc.ctx, acc.at)
    <3> HIDE DEF at
    <3>1. put \in Maps /\ DOMAIN put = DOMAIN acc.m \cup {at} /\ put[at] = Hash
      BY <1>1, <1>2, PutIs
    <3>2. Grows(acc.m, put)
      BY <1>1, <1>2, <2>1, GrowsPut
    <3>3. Leads(acc.m, acc.ctx, acc.at) => Leads(put, acc.ctx, acc.at)
      BY <1>1, <1>2, <2>1, LeadsPut
    <3> HIDE DEF put
    <3> QED BY <3>1, <3>2, <3>3
  <2>5. Leads(acc.m, acc.ctx, acc.at) => Leads(put, seen, at)
    <3>1. put[at].kind = "hash" /\ Through(put[at], 0)
      BY <2>4 DEF Hash, Through
    <3> HIDE DEF put
    <3>2. ASSUME Leads(put, acc.ctx, acc.at)
          PROVE  Leads(put, seen, Append(acc.at, <<k, 0>>))
      BY <1>1, <2>4, <3>1, <3>2, LeadsOn
    <3> QED BY <2>2, <2>4, <3>2
  <2> HIDE DEF put, at, seen
  <2>6. new \in Docs /\ new.m = put /\ new.res = "run" /\ new.ctx = seen /\ new.at = at
    BY <1>1, <1>2, <1>3, <1>9, <2>3, <2>4 DEF Docs
  <2> QED BY <1>9, <2>4, <2>5, <2>6 DEF new, seen
<1> QED BY <1>4, <1>6, <1>7, <1>8, <1>9

\* What it makes implicit is new.
LEMMA DrillKeyGood ==
  ASSUME NEW acc \in Docs, NEW k \in Names, Len(k) = 1, NEW def \in SUBSET Paths,
         acc.res = "run" => Leads(acc.m, acc.ctx, acc.at), Good(acc.m, acc.imp, def)
  PROVE  Good(DrillKey(acc, k).m, DrillKey(acc, k).imp, def)
<1> DEFINE at == Place(acc.at, k)
           seen == Append(acc.ctx, k)
           put == PutAt(acc.m, at, Hash)
           new == DrillKey(acc, k)
<1>1. acc.m \in Maps /\ acc.at \in Paths /\ acc.ctx \in KeyLists
  BY DEF Docs
<1>2. Hash \in Nodes /\ Hash.len < 2 /\ Hash.kind = "hash"
  BY DEF Hash, Nodes, Kinds
<1>3. \/ acc.res # "run" /\ new = acc
      \/ /\ acc.res = "run" /\ at \in DOMAIN acc.m /\ acc.m[at].kind = "value"
         /\ new = [acc EXCEPT !.res = "error"]
      \/ /\ acc.res = "run" /\ at \in DOMAIN acc.m /\ acc.m[at].kind # "value"
         /\ new = [acc EXCEPT !.ctx = seen, !.at = Inner(acc.m, acc.at, k)]
      \/ /\ acc.res = "run" /\ at \notin DOMAIN acc.m
         /\ new = [acc EXCEPT !.m = put, !.imp = acc.imp \cup {Join(seen)},
                              !.ctx = seen, !.at = at]
  BY DrillKeyCases
<1> HIDE DEF new
<1>4. CASE acc.res = "run" /\ at \notin DOMAIN acc.m
  <2>1. new.m = put /\ new.imp = acc.imp \cup {Join(seen)}
    <3> HIDE DEF put, seen, at
    <3> QED BY <1>3, <1>4 DEF Docs
  <2>2. Good(put, acc.imp \cup {Join(seen)}, def)
    BY <1>1, <1>2, <1>4, GoodPut
  <2> QED BY <2>1, <2>2 DEF new
<1>5. CASE ~(acc.res = "run" /\ at \notin DOMAIN acc.m)
  <2>1. new.m = acc.m /\ new.imp = acc.imp
    <3> HIDE DEF put, seen, at
    <3> QED BY <1>3, <1>5 DEF Docs
  <2> QED BY <2>1 DEF new
<1> QED BY <1>4, <1>5

LEMMA DrillIs ==
  ASSUME NEW d \in Docs, NEW keys \in KeyLists
  PROVE  \E g \in [0 .. Len(keys) -> Docs] :
           /\ g[0] = [d EXCEPT !.ctx = <<>>, !.at = <<>>]
           /\ \A n \in 1 .. Len(keys) : g[n] = DrillKey(g[n - 1], keys[n])
           /\ Drill(d, keys) = g[Len(keys)]
<1> DEFINE N == Len(keys)
           top == [d EXCEPT !.ctx = <<>>, !.at = <<>>]
           step == [n \in 1 .. N |-> [acc \in Docs |-> DrillKey(acc, keys[n])]]
           drill[n \in 0 .. N] == IF n = 0 THEN top ELSE DrillKey(drill[n - 1], keys[n])
<1>1. N \in Nat /\ \A n \in 1 .. N : keys[n] \in Names
  BY DEF KeyLists
<1>2. top \in Docs
  <2>1. <<>> \in Paths /\ <<>> \in KeyLists
    BY DEF Paths, KeyLists
  <2> QED BY <2>1 DEF Docs
<1>3. \A n \in 1 .. N, acc \in Docs :
        step[n][acc] = DrillKey(acc, keys[n]) /\ step[n][acc] \in Docs
  BY <1>1, DrillKeyKeeps
<1>4. PICK g \in [0 .. N -> Docs] : Iterates(g, N, top, step)
  <2>1. Steps(step, N, Docs)
    BY <1>3 DEF Steps
  <2> HIDE DEF step, N, top
  <2> QED BY <1>1, <1>2, <2>1, Recursion
<1> HIDE DEF top
<1>5. \A n \in 0 .. N : g[n] = IF n = 0 THEN top ELSE DrillKey(g[n - 1], keys[n])
  <2> SUFFICES ASSUME NEW n \in 0 .. N
               PROVE  g[n] = IF n = 0 THEN top ELSE DrillKey(g[n - 1], keys[n])
    OBVIOUS
  <2>1. CASE n = 0
    BY <1>4, <2>1 DEF Iterates
  <2>2. CASE n # 0
    <3>1. n \in 1 .. N /\ g[n - 1] \in Docs
      BY <1>1, <2>2
    <3> HIDE DEF step
    <3> QED BY <1>3, <1>4, <2>2, <3>1 DEF Iterates
  <2> QED BY <2>1, <2>2
<1>6. drill = [n \in 0 .. N |-> IF n = 0 THEN top ELSE DrillKey(drill[n - 1], keys[n])]
  <2>1. g = [n \in 0 .. N |-> IF n = 0 THEN top ELSE DrillKey(g[n - 1], keys[n])]
    BY <1>5
  <2> HIDE DEF step
  <2> QED BY <2>1
<1>7. Drill(d, keys) = drill[N]
  BY DEF Drill, top
<1> HIDE DEF drill, step
<1>8. \A n \in 0 .. N : drill[n] \in Docs
  <2> DEFINE S == {n \in 0 .. N : drill[n] \in Docs}
  <2>1. 0 \in S
    BY <1>1, <1>2, <1>6
  <2>2. ASSUME NEW n \in 0 .. N - 1, n \in S
        PROVE  n + 1 \in S
    <3>1. n + 1 \in 1 .. N /\ n + 1 # 0 /\ (n + 1) - 1 = n /\ n + 1 \in 0 .. N
      BY <1>1
    <3>2. drill[n + 1] = DrillKey(drill[n], keys[n + 1])
      BY <1>6, <3>1
    <3> QED BY <1>1, <2>2, <3>1, <3>2, DrillKeyKeeps
  <2> HIDE DEF S
  <2>3. \A n \in 0 .. N : n \in S
    BY <1>1, <2>1, <2>2, UpTo
  <2> QED BY <2>3 DEF S
<1>9. drill \in [0 .. N -> Docs]
  BY <1>6, <1>8
<1>10. drill[0] = top /\ \A n \in 1 .. N : drill[n] = DrillKey(drill[n - 1], keys[n])
  BY <1>1, <1>6
<1> QED BY <1>7, <1>9, <1>10 DEF top

LEMMA DrillKeeps ==
  ASSUME NEW d \in Docs, d.res = "run", NEW keys \in KeyLists, NEW def \in SUBSET Paths
  PROVE  /\ Drill(d, keys) \in Docs /\ Grows(d.m, Drill(d, keys).m)
         /\ Drill(d, keys).res # "bug"
         /\ Drill(d, keys).res = "run"
              => /\ Drill(d, keys).ctx = keys
                 /\ Leads(Drill(d, keys).m, keys, Drill(d, keys).at)
         /\ (\A i \in 1 .. Len(keys) : Len(keys[i]) = 1) /\ Good(d.m, d.imp, def)
              => Good(Drill(d, keys).m, Drill(d, keys).imp, def)
<1> DEFINE N == Len(keys)
           Plainly == (\A i \in 1 .. N : Len(keys[i]) = 1) /\ Good(d.m, d.imp, def)
<1>1. N \in Nat /\ \A n \in 1 .. N : keys[n] \in Names
  BY DEF KeyLists
<1>2. PICK g \in [0 .. N -> Docs] :
        /\ g[0] = [d EXCEPT !.ctx = <<>>, !.at = <<>>]
        /\ \A n \in 1 .. N : g[n] = DrillKey(g[n - 1], keys[n])
        /\ Drill(d, keys) = g[N]
  BY DrillIs
<1> DEFINE At(e, n) == /\ e.ctx \in KeyLists /\ Len(e.ctx) = n
                       /\ \A i \in 1 .. n : e.ctx[i] = keys[i]
                       /\ Leads(e.m, e.ctx, e.at)
           Kept(e, n) == /\ Grows(d.m, e.m) /\ e.res # "bug"
                         /\ e.res = "run" => At(e, n)
                         /\ Plainly => Good(e.m, e.imp, def)
           S == {n \in 0 .. N : Kept(g[n], n)}
<1>3. 0 \in S
  <2> DEFINE e == [d EXCEPT !.ctx = <<>>, !.at = <<>>]
  <2>1. <<>> \in KeyLists /\ <<>> \in Paths /\ Len(<<>>) = 0
    BY DEF KeyLists, Paths
  <2>2. e.m = d.m /\ e.imp = d.imp /\ e.res = "run" /\ e.ctx = <<>> /\ e.at = <<>>
    BY DEF Docs
  <2>3. d.m \in Maps
    BY DEF Docs
  <2>4. Grows(d.m, d.m)
    BY <2>3, GrowsSelf
  <2>5. Leads(d.m, <<>>, <<>>)
    BY <2>1 DEF Leads, NamesOf
  <2> HIDE DEF e, Plainly
  <2>6. At(e, 0)
    BY <2>1, <2>2, <2>5
  <2>7. Plainly => Good(e.m, e.imp, def)
    BY <2>2 DEF Plainly
  <2>8. Kept(e, 0)
    BY <2>2, <2>4, <2>6, <2>7
  <2>9. 0 \in 0 .. N
    BY <1>1
  <2> HIDE DEF Kept
  <2> QED BY <1>2, <2>8, <2>9 DEF e
<1>4. ASSUME NEW n \in 0 .. N - 1, n \in S
      PROVE  n + 1 \in S
  <2> DEFINE e == g[n]
             k == keys[n + 1]
             f == DrillKey(e, k)
  <2>1. n + 1 \in 1 .. N /\ n \in Nat /\ n \in 0 .. N /\ (n + 1) - 1 = n /\ n + 1 \in 0 .. N
    BY <1>1
  <2>2. e \in Docs /\ k \in Names /\ g[n + 1] = f
    BY <1>1, <1>2, <2>1
  <2>3. Kept(e, n)
    BY <1>4
  <2> HIDE DEF e, k
  <2>4. /\ f \in Docs /\ Grows(e.m, f.m) /\ f.res # "bug"
        /\ f.res = "run" => e.res = "run" /\ f.ctx = Append(e.ctx, k)
        /\ f.res = "run" /\ Leads(e.m, e.ctx, e.at) => Leads(f.m, Append(e.ctx, k), f.at)
    BY <2>2, <2>3, DrillKeyKeeps
  <2>5. Plainly => Good(f.m, f.imp, def)
    <3> SUFFICES ASSUME Plainly PROVE Good(f.m, f.imp, def)
      OBVIOUS
    <3>1. Len(k) = 1
      BY <2>1 DEF k
    <3>2. Good(e.m, e.imp, def) /\ (e.res = "run" => Leads(e.m, e.ctx, e.at))
      BY <2>3
    <3> QED BY <2>2, <3>1, <3>2, DrillKeyGood
  <2> HIDE DEF f, Plainly
  <2>6. Grows(d.m, f.m)
    <3>1. d.m \in Maps /\ e.m \in Maps /\ f.m \in Maps
      BY <2>2, <2>4 DEF Docs
    <3> QED BY <2>3, <2>4, <3>1, GrowsOn
  <2>7. ASSUME f.res = "run"
        PROVE  At(f, n + 1)
    <3>1. /\ e.ctx \in KeyLists /\ Len(e.ctx) = n /\ \A i \in 1 .. n : e.ctx[i] = keys[i]
          /\ Leads(e.m, e.ctx, e.at) /\ f.ctx = Append(e.ctx, k)
      BY <2>3, <2>4, <2>7
    <3>2. /\ f.ctx \in KeyLists /\ Len(f.ctx) = n + 1 /\ f.ctx[n + 1] = k
          /\ \A i \in 1 .. n : f.ctx[i] = e.ctx[i]
      BY <2>2, <3>1, NamesOn
    <3>3. \A i \in 1 .. n + 1 : f.ctx[i] = keys[i]
      <4> SUFFICES ASSUME NEW i \in 1 .. n + 1 PROVE f.ctx[i] = keys[i]
        OBVIOUS
      <4>1. i \in 1 .. n \/ i = n + 1
        BY <2>1
      <4> QED BY <3>1, <3>2, <4>1 DEF k
    <3> QED BY <2>4, <2>7, <3>1, <3>2, <3>3
  <2> HIDE DEF At
  <2>8. Kept(f, n + 1)
    BY <2>4, <2>5, <2>6, <2>7
  <2> HIDE DEF Kept
  <2> QED BY <2>1, <2>2, <2>8
<1>5. N \in S
  <2> HIDE DEF S, N
  <2>1. \A n \in 0 .. N : n \in S
    BY <1>1, <1>3, <1>4, UpTo
  <2> QED BY <1>1, <2>1
<1> DEFINE e == Drill(d, keys)
<1>6. e \in Docs /\ Kept(e, N)
  BY <1>1, <1>2, <1>5
<1> HIDE DEF e, Plainly
<1>7. e.res = "run" => e.ctx = keys /\ Leads(e.m, keys, e.at)
  <2> SUFFICES ASSUME e.res = "run" PROVE e.ctx = keys /\ Leads(e.m, keys, e.at)
    OBVIOUS
  <2>1. At(e, N)
    BY <1>6
  <2>2. e.ctx = keys
    BY <2>1 DEF KeyLists
  <2> QED BY <2>1, <2>2
<1> QED BY <1>6, <1>7 DEF e, Plainly

-----------------------------------------------------------------------------
(* setValue, and a new element of an array of tables.                      *)

\* What setValue makes of d, at the key of hash p.
ValueSet(d, p, key, value, e) ==
  LET at == Place(p, key)
      keys == Append(d.ctx, key)
  IN  \/ at \notin DOMAIN d.m /\ e = [d EXCEPT !.m = PutAt(d.m, at, value), !.at = at]
      \/ /\ at \in DOMAIN d.m /\ Join(keys) \in d.imp
         /\ e = [d EXCEPT !.imp = d.imp \ {Join(keys)}, !.at = at]
      \/ at \in DOMAIN d.m /\ e = [d EXCEPT !.res = "error"]

LEMMA SetValueCases ==
  ASSUME NEW d \in Docs, NEW p \in Paths, Leads(d.m, d.ctx, p), NEW key \in Names,
         NEW value \in Nodes
  PROVE  ValueSet(d, p, key, value, SetValue(d, key, value))
<1> DEFINE at == Place(p, key)
           keys == Append(d.ctx, key)
           e == SetValue(d, key, value)
<1>1. d.m \in Maps /\ d.ctx \in KeyLists
  BY DEF Docs
<1>2. Walk(d.m, d.ctx) = [hash |-> p, ok |-> TRUE]
  BY <1>1, WalkLeads
<1>3. Walk(d.m, d.ctx).ok = TRUE /\ Walk(d.m, d.ctx).hash = p
  BY <1>2
<1>4. CASE at \notin DOMAIN d.m
  <2>1. e = [d EXCEPT !.m = PutAt(d.m, at, value), !.at = at]
    BY <1>3, <1>4 DEF SetValue
  <2> QED BY <1>4, <2>1 DEF ValueSet
<1>5. CASE at \in DOMAIN d.m /\ Join(keys) \in d.imp
  <2>1. e = [d EXCEPT !.imp = d.imp \ {Join(keys)}, !.at = at]
    BY <1>3, <1>5 DEF SetValue, IsImplicit, RemoveImplicit
  <2> QED BY <1>5, <2>1 DEF ValueSet
<1>6. CASE at \in DOMAIN d.m /\ Join(keys) \notin d.imp
  <2>1. e = [d EXCEPT !.res = "error"]
    BY <1>3, <1>6 DEF SetValue, IsImplicit
  <2> QED BY <1>6, <2>1 DEF ValueSet
<1> QED BY <1>4, <1>5, <1>6

LEMMA SetValueKeeps ==
  ASSUME NEW d \in Docs, d.res = "run", NEW p \in Paths, Leads(d.m, d.ctx, p),
         NEW key \in Names, NEW value \in Nodes
  PROVE  LET e == SetValue(d, key, value)
         IN  /\ e \in Docs /\ Grows(d.m, e.m) /\ e.res # "bug" /\ e.ctx = d.ctx
             /\ e.res = "run" => /\ e.at = Place(p, key) /\ e.at \in DOMAIN e.m
                                 /\ Leads(e.m, d.ctx, p)
<1> DEFINE at == Place(p, key)
           keys == Append(d.ctx, key)
           e == SetValue(d, key, value)
           put == PutAt(d.m, at, value)
<1>1. d.m \in Maps /\ d.ctx \in KeyLists /\ d.imp \subseteq Names
  BY DEF Docs
<1>2. \/ at \notin DOMAIN d.m /\ e = [d EXCEPT !.m = put, !.at = at]
      \/ /\ at \in DOMAIN d.m /\ Join(keys) \in d.imp
         /\ e = [d EXCEPT !.imp = d.imp \ {Join(keys)}, !.at = at]
      \/ at \in DOMAIN d.m /\ e = [d EXCEPT !.res = "error"]
  <2>1. ValueSet(d, p, key, value, e)
    BY SetValueCases
  <2> HIDE DEF e
  <2> QED BY <2>1 DEF ValueSet
<1>3. at \in Paths
  BY PlaceIs
<1>4. Grows(d.m, d.m)
  BY <1>1, GrowsSelf
<1> HIDE DEF e, at, keys
<1>5. CASE at \notin DOMAIN d.m /\ e = [d EXCEPT !.m = put, !.at = at]
  <2>1. put \in Maps /\ DOMAIN put = DOMAIN d.m \cup {at}
    BY <1>1, <1>3, PutIs
  <2>2. Grows(d.m, put)
    BY <1>1, <1>3, <1>5, GrowsPut
  <2>3. Leads(put, d.ctx, p)
    BY <1>1, <1>3, <1>5, LeadsPut
  <2> HIDE DEF put
  <2>4. e \in Docs /\ e.m = put /\ e.at = at /\ e.res = "run" /\ e.ctx = d.ctx
    BY <1>3, <1>5, <2>1 DEF Docs
  <2> QED BY <2>1, <2>2, <2>3, <2>4 DEF e, at
<1>6. CASE /\ at \in DOMAIN d.m
           /\ e = [d EXCEPT !.imp = d.imp \ {Join(keys)}, !.at = at]
  <2>1. e \in Docs /\ e.m = d.m /\ e.at = at /\ e.res = "run" /\ e.ctx = d.ctx
    BY <1>1, <1>3, <1>6 DEF Docs
  <2> QED BY <1>4, <1>6, <2>1 DEF e, at
<1>7. CASE e = [d EXCEPT !.res = "error"]
  <2>1. e \in Docs /\ e.m = d.m /\ e.res = "error" /\ e.ctx = d.ctx
    BY <1>7 DEF Docs
  <2> QED BY <1>4, <2>1 DEF e
<1> QED BY <1>2, <1>5, <1>6, <1>7

LEMMA SetValueGood ==
  ASSUME NEW d \in Docs, NEW p \in Paths, Leads(d.m, d.ctx, p),
         NEW key \in Names, Len(key) = 1, NEW value \in Nodes, value.len < 2,
         NEW def \in SUBSET Paths, Good(d.m, d.imp, def),
         SetValue(d, key, value).res = "run"
  PROVE  LET e == SetValue(d, key, value)
         IN  /\ Place(p, key) \notin def /\ Good(e.m, e.imp, def \cup {Place(p, key)})
             /\ value = Hash => e.m[Place(p, key)].kind = "hash"
<1> DEFINE at == Place(p, key)
           keys == Append(d.ctx, key)
           e == SetValue(d, key, value)
           put == PutAt(d.m, at, value)
<1>1. d.m \in Maps /\ d.ctx \in KeyLists
  BY DEF Docs
<1>2. \/ at \notin DOMAIN d.m /\ e = [d EXCEPT !.m = put, !.at = at]
      \/ /\ at \in DOMAIN d.m /\ Join(keys) \in d.imp
         /\ e = [d EXCEPT !.imp = d.imp \ {Join(keys)}, !.at = at]
      \/ at \in DOMAIN d.m /\ e = [d EXCEPT !.res = "error"]
  <2>1. ValueSet(d, p, key, value, e)
    BY SetValueCases
  <2> HIDE DEF e
  <2> QED BY <2>1 DEF ValueSet
<1> HIDE DEF e
<1>3. e.res = "run"
  BY DEF e
<1>4. CASE at \notin DOMAIN d.m
  <2>1. at \notin def /\ Good(put, d.imp, def \cup {at})
    BY <1>1, <1>4, GoodPut
  <2>2. put[at] = value
    BY <1>1, PlaceIs, PutIs
  <2>3. e.m = put /\ e.imp = d.imp
    <3> HIDE DEF at, keys, put
    <3> QED BY <1>2, <1>4 DEF Docs
  <2>4. value = Hash => value.kind = "hash"
    BY DEF Hash
  <2> HIDE DEF at, keys, put
  <2> QED BY <2>1, <2>2, <2>3, <2>4 DEF e, at
<1>5. CASE at \in DOMAIN d.m
  <2>1. e # [d EXCEPT !.res = "error"]
    BY <1>3 DEF Docs
  <2>2. Join(keys) \in d.imp /\ e = [d EXCEPT !.imp = d.imp \ {Join(keys)}, !.at = at]
    BY <1>2, <1>5, <2>1
  <2>3. /\ at \notin def /\ d.m[at].kind = "hash"
        /\ Good(d.m, d.imp \ {Join(keys)}, def \cup {at})
    BY <1>1, <1>5, <2>2, GoodDrop
  <2> HIDE DEF at, keys
  <2>4. e.m = d.m /\ e.imp = d.imp \ {Join(keys)}
    BY <2>2 DEF Docs
  <2> QED BY <2>3, <2>4 DEF e, at
<1> QED BY <1>4, <1>5

LEMMA AddElementCases ==
  ASSUME NEW d \in Docs, NEW key \in Names
  PROVE  LET at == Place(d.at, key)
             e == AddElement(d, key)
         IN  \/ at \in DOMAIN d.m /\ e = [d EXCEPT !.res = "error"]
             \/ \E len \in Nat :
                  /\ IF at \in DOMAIN d.m THEN len = d.m[at].len /\ d.m[at].kind = "array" /\ len > 0
                     ELSE len = 0
                  /\ e = [d EXCEPT !.m = PutAt(d.m, at, Array(len + 1)),
                                   !.at = Append(d.at, <<key, len + 1>>)]
<1> DEFINE at == Place(d.at, key)
<1>1. d.m \in Maps
  BY DEF Docs
<1>2. CASE at \notin DOMAIN d.m
  <2>1. AddElement(d, key) = [d EXCEPT !.m = PutAt(d.m, at, Array(0 + 1)),
                                       !.at = Append(d.at, <<key, 0 + 1>>)]
    BY <1>2 DEF AddElement
  <2> QED BY <1>2, <2>1
<1>3. CASE at \in DOMAIN d.m /\ d.m[at].kind # "array"
  BY <1>3 DEF AddElement
<1>4. CASE at \in DOMAIN d.m /\ d.m[at].kind = "array"
  <2>1. d.m[at].len \in Nat /\ d.m[at].len > 0
    BY <1>1, <1>4, MapIs DEF Nodes
  <2>2. AddElement(d, key) = [d EXCEPT !.m = PutAt(d.m, at, Array(d.m[at].len + 1)),
                                       !.at = Append(d.at, <<key, d.m[at].len + 1>>)]
    BY <1>4 DEF AddElement
  <2> QED BY <1>4, <2>1, <2>2
<1> QED BY <1>2, <1>3, <1>4

LEMMA AddElementKeeps ==
  ASSUME NEW d \in Docs, d.res = "run", NEW key \in Names
  PROVE  LET e == AddElement(d, key)
         IN  /\ e \in Docs /\ Grows(d.m, e.m) /\ e.res # "bug" /\ e.ctx = d.ctx
             /\ e.res = "run" => Place(d.at, key) \in DOMAIN e.m
<1> DEFINE at == Place(d.at, key)
           e == AddElement(d, key)
<1>1. d.m \in Maps /\ d.at \in Paths
  BY DEF Docs
<1>2. \/ at \in DOMAIN d.m /\ e = [d EXCEPT !.res = "error"]
      \/ \E len \in Nat :
           /\ IF at \in DOMAIN d.m THEN len = d.m[at].len /\ d.m[at].kind = "array" /\ len > 0
              ELSE len = 0
           /\ e = [d EXCEPT !.m = PutAt(d.m, at, Array(len + 1)),
                            !.at = Append(d.at, <<key, len + 1>>)]
  BY AddElementCases
<1>3. at \in Paths
  BY <1>1, PlaceIs
<1> HIDE DEF e, at
<1>4. ASSUME e = [d EXCEPT !.res = "error"]
      PROVE  e \in Docs /\ Grows(d.m, e.m) /\ e.res = "error" /\ e.ctx = d.ctx
  <2>1. e \in Docs /\ e.m = d.m /\ e.res = "error" /\ e.ctx = d.ctx
    BY <1>4 DEF Docs
  <2>2. Grows(d.m, d.m)
    BY <1>1, GrowsSelf
  <2> QED BY <2>1, <2>2
<1>5. ASSUME NEW len \in Nat,
             IF at \in DOMAIN d.m THEN len = d.m[at].len /\ d.m[at].kind = "array" /\ len > 0
             ELSE len = 0,
             e = [d EXCEPT !.m = PutAt(d.m, at, Array(len + 1)),
                           !.at = Append(d.at, <<key, len + 1>>)]
      PROVE  /\ e \in Docs /\ Grows(d.m, e.m) /\ e.res = "run" /\ e.ctx = d.ctx
             /\ at \in DOMAIN e.m
  <2> DEFINE node == Array(len + 1)
             put == PutAt(d.m, at, node)
             to == Append(d.at, <<key, len + 1>>)
  <2>1. node \in Nodes /\ node.kind = "array" /\ node.len = len + 1
    BY DEF Array, Nodes, Kinds
  <2>2. to \in Paths
    BY <1>1, AppendIs
  <2> HIDE DEF to, node
  <2>3. put \in Maps /\ DOMAIN put = DOMAIN d.m \cup {at}
    <3>1. node \in Nodes
      BY <2>1
    <3> QED BY <1>1, <1>3, <3>1, PutIs
  <2>4. at \in DOMAIN d.m => node.kind = d.m[at].kind /\ d.m[at].len <= node.len
    BY <1>5, <2>1
  <2>5. Grows(d.m, put)
    BY <1>1, <1>3, <2>1, <2>4, GrowsPut
  <2> HIDE DEF put
  <2>6. e = [d EXCEPT !.m = put, !.at = to]
    BY <1>5 DEF put, to, node
  <2>7. e \in Docs /\ e.m = put /\ e.res = "run" /\ e.ctx = d.ctx
    BY <2>2, <2>3, <2>6 DEF Docs
  <2> QED BY <2>3, <2>5, <2>7
<1>6. /\ e \in Docs /\ Grows(d.m, e.m) /\ e.res # "bug" /\ e.ctx = d.ctx
      /\ e.res = "run" => at \in DOMAIN e.m
  <2>1. CASE e = [d EXCEPT !.res = "error"]
    BY <1>4, <2>1
  <2>2. CASE e # [d EXCEPT !.res = "error"]
    <3>1. /\ e \in Docs /\ Grows(d.m, e.m) /\ e.res = "run" /\ e.ctx = d.ctx
          /\ at \in DOMAIN e.m
      BY <1>2, <1>5, <2>2, Zenon
    <3> QED BY <3>1
  <2> QED BY <2>1, <2>2
<1> QED BY <1>6 DEF e, at

\* Where there is one element at most, it is the first.
LEMMA AddElementGood ==
  ASSUME NEW d \in Docs, NEW key \in Names, AddElement(d, key).res = "run",
         \A p \in DOMAIN AddElement(d, key).m : AddElement(d, key).m[p].len < 2
  PROVE  /\ Place(d.at, key) \notin DOMAIN d.m
         /\ AddElement(d, key).m = PutAt(d.m, Place(d.at, key), Array(1))
         /\ AddElement(d, key).imp = d.imp
         /\ AddElement(d, key).at = Append(d.at, <<key, 1>>)
<1> DEFINE at == Place(d.at, key)
           e == AddElement(d, key)
<1>1. d.m \in Maps /\ d.at \in Paths
  BY DEF Docs
<1>2. \/ at \in DOMAIN d.m /\ e = [d EXCEPT !.res = "error"]
      \/ \E len \in Nat :
           /\ IF at \in DOMAIN d.m THEN len = d.m[at].len /\ d.m[at].kind = "array" /\ len > 0
              ELSE len = 0
           /\ e = [d EXCEPT !.m = PutAt(d.m, at, Array(len + 1)),
                            !.at = Append(d.at, <<key, len + 1>>)]
  BY AddElementCases
<1>3. at \in Paths
  BY <1>1, PlaceIs
<1> HIDE DEF e, at
<1>4. e.res = "run" /\ \A p \in DOMAIN e.m : e.m[p].len < 2
  BY DEF e
<1>5. e # [d EXCEPT !.res = "error"]
  BY <1>4 DEF Docs
<1>6. PICK len \in Nat :
        /\ IF at \in DOMAIN d.m THEN len = d.m[at].len /\ d.m[at].kind = "array" /\ len > 0
           ELSE len = 0
        /\ e = [d EXCEPT !.m = PutAt(d.m, at, Array(len + 1)),
                         !.at = Append(d.at, <<key, len + 1>>)]
  BY <1>2, <1>5
<1> DEFINE put == PutAt(d.m, at, Array(len + 1))
           to == Append(d.at, <<key, len + 1>>)
<1>7. put[at] = Array(len + 1) /\ at \in DOMAIN put
  BY DEF PutAt
<1>8. e.m = put /\ e.at = to /\ e.imp = d.imp
  <2> HIDE DEF put, to
  <2>1. e = [d EXCEPT !.m = put, !.at = to]
    BY <1>6 DEF put, to
  <2> QED BY <2>1 DEF Docs
<1>9. len + 1 < 2
  <2>1. put[at].len < 2
    BY <1>4, <1>7, <1>8
  <2> QED BY <1>7, <2>1 DEF Array
<1>10. len = 0
  BY <1>9
<1>11. at \notin DOMAIN d.m
  BY <1>6, <1>10
<1>12. put = PutAt(d.m, at, Array(1)) /\ to = Append(d.at, <<key, 1>>)
  BY <1>10
<1> QED BY <1>8, <1>11, <1>12 DEF e, at

\* Whatever the context, setValue only adds to the mapping.
LEMMA SetValueType ==
  ASSUME NEW d \in Docs, NEW key \in Names, NEW value \in Nodes
  PROVE  SetValue(d, key, value) \in Docs /\ Grows(d.m, SetValue(d, key, value).m)
<1> DEFINE walk == Walk(d.m, d.ctx)
           at == Place(walk.hash, key)
           keys == Append(d.ctx, key)
           put == PutAt(d.m, at, value)
           e == SetValue(d, key, value)
<1>1. d.m \in Maps /\ d.ctx \in KeyLists /\ d.imp \subseteq Names
  BY DEF Docs
<1>2. walk \in Walks
  <2>1. PICK g \in [0 .. Len(d.ctx) -> Walks] : walk = g[Len(d.ctx)]
    BY <1>1, WalkIs
  <2>2. Len(d.ctx) \in 0 .. Len(d.ctx)
    BY <1>1 DEF KeyLists
  <2> QED BY <2>1, <2>2
<1> HIDE DEF walk
<1>3. at \in Paths
  BY <1>2, PlaceIs DEF Walks
<1>4. \/ e = [d EXCEPT !.res = "bug"]
      \/ at \notin DOMAIN d.m /\ e = [d EXCEPT !.m = put, !.at = at]
      \/ e = [d EXCEPT !.imp = d.imp \ {Join(keys)}, !.at = at]
      \/ e = [d EXCEPT !.res = "error"]
  BY DEF SetValue, IsImplicit, RemoveImplicit, walk
<1> HIDE DEF at, e
<1>5. Grows(d.m, d.m)
  BY <1>1, GrowsSelf
<1>6. CASE at \notin DOMAIN d.m /\ e = [d EXCEPT !.m = put, !.at = at]
  <2>1. put \in Maps /\ Grows(d.m, put)
    BY <1>1, <1>3, <1>6, PutIs, GrowsPut
  <2> HIDE DEF put
  <2>2. e \in Docs /\ e.m = put
    BY <1>3, <1>6, <2>1 DEF Docs
  <2> QED BY <2>1, <2>2 DEF e
<1>7. CASE \/ e = [d EXCEPT !.res = "bug"]
           \/ e = [d EXCEPT !.imp = d.imp \ {Join(keys)}, !.at = at]
           \/ e = [d EXCEPT !.res = "error"]
  <2>1. e \in Docs /\ e.m = d.m
    BY <1>1, <1>3, <1>7 DEF Docs
  <2> QED BY <1>5, <2>1 DEF e
<1> QED BY <1>4, <1>6, <1>7

-----------------------------------------------------------------------------
(* The statements.                                                         *)

LEMMA FrontIs ==
  ASSUME NEW key \in KeyLists, key # <<>>
  PROVE  /\ Front1(key) \in KeyLists /\ Last1(key) \in Names
         /\ Append(Front1(key), Last1(key)) = key
         /\ (\A i \in 1 .. Len(key) : Len(key[i]) = 1)
              => /\ Len(Last1(key)) = 1
                 /\ \A i \in 1 .. Len(Front1(key)) : Len(Front1(key)[i]) = 1
<1> DEFINE N == Len(key)
           f == Front1(key)
<1>1. key \in Seq(Names) /\ N \in Nat \ {0}
  BY DEF KeyLists
<1>2. f \in Seq(Names) /\ Len(f) = N - 1 /\ \A i \in 1 .. N - 1 : f[i] = key[i]
  <2>1. 1 \in Int /\ N - 1 \in Int /\ \A i \in 1 .. N - 1 : key[i] \in Names
    BY <1>1
  <2>2. /\ f \in Seq(Names) /\ Len(f) = IF 1 <= N - 1 THEN (N - 1) - 1 + 1 ELSE 0
        /\ \A i \in 1 .. (N - 1) - 1 + 1 : f[i] = key[1 + i - 1]
    BY <2>1, SubSeqProperties DEF Front1
  <2> HIDE DEF f
  <2>3. \A i \in 1 .. N - 1 : f[i] = key[i]
    <3> SUFFICES ASSUME NEW i \in 1 .. N - 1 PROVE f[i] = key[i]
      OBVIOUS
    <3>1. i \in 1 .. (N - 1) - 1 + 1 /\ 1 + i - 1 = i
      BY <1>1
    <3> QED BY <2>2, <3>1
  <2>4. Len(f) = N - 1
    <3>1. Len(f) = IF 1 <= N - 1 THEN (N - 1) - 1 + 1 ELSE 0
      BY <2>2
    <3> HIDE DEF N
    <3> QED BY <1>1, <3>1
  <2> QED BY <2>2, <2>3, <2>4
<1>3. Last1(key) = key[N] /\ key[N] \in Names
  BY <1>1 DEF Last1
<1>4. Append(f, key[N]) = key
  <2> DEFINE s == Append(f, key[N])
  <2> HIDE DEF f
  <2>1. /\ s \in Seq(Names) /\ Len(s) = (N - 1) + 1 /\ s[(N - 1) + 1] = key[N]
        /\ \A i \in 1 .. N - 1 : s[i] = f[i]
    BY <1>1, <1>2, <1>3
  <2> HIDE DEF s
  <2>2. \A i \in 1 .. N : s[i] = key[i]
    <3> SUFFICES ASSUME NEW i \in 1 .. N PROVE s[i] = key[i]
      OBVIOUS
    <3>1. i = N \/ i \in 1 .. N - 1
      BY <1>1
    <3>2. (N - 1) + 1 = N
      BY <1>1
    <3> QED BY <1>2, <2>1, <3>1, <3>2
  <2>3. Len(s) = N
    BY <1>1, <2>1
  <2>4. s = key
    BY <1>1, <2>1, <2>2, <2>3
  <2> QED BY <2>4 DEF s
<1>5. N \in 1 .. N /\ 1 .. N - 1 \subseteq 1 .. N
  BY <1>1
<1> HIDE DEF f
<1>6. ASSUME \A i \in 1 .. N : Len(key[i]) = 1
      PROVE  Len(Last1(key)) = 1 /\ \A i \in 1 .. Len(f) : Len(f[i]) = 1
  BY <1>2, <1>3, <1>5, <1>6
<1> QED BY <1>2, <1>3, <1>4, <1>6 DEF f, KeyLists

LEMMA DocIs ==
  ASSUME TablesTyped
  PROVE  /\ Doc \in Docs /\ Doc.m = mapping /\ Doc.imp = implicits /\ Doc.ctx = context
         /\ Doc.res = parsed /\ defined \in SUBSET Paths
<1>1. <<>> \in Paths
  BY DEF Paths
<1> QED BY <1>1 DEF Doc, Docs, TablesTyped

LEMMA EstablishCases ==
  ASSUME NEW key, NEW array
  PROVE  LET c == Drill(Doc, Front1(key))
             e == IF array THEN AddElement(c, Last1(key)) ELSE SetValue(c, Last1(key), Hash)
             d == EstablishContext(key, array)
         IN  \/ c.res # "run" /\ d = c
             \/ c.res = "run" /\ e.res # "run" /\ d = e
             \/ c.res = "run" /\ e.res = "run" /\ d = [e EXCEPT !.ctx = Append(@, Last1(key))]
BY DEF EstablishContext

\* A header: what it leads to is in the mapping, and the context is its key.
LEMMA EstablishKeeps ==
  ASSUME TablesTyped, parsed = "run", NEW key \in KeyLists, key # <<>>, NEW array \in BOOLEAN
  PROVE  LET d == EstablishContext(key, array)
         IN  /\ d \in Docs /\ Grows(mapping, d.m) /\ d.res # "bug"
             /\ d.res = "run" => Known(d.m, key)
<1> DEFINE front == Front1(key)
           k == Last1(key)
           c == Drill(Doc, front)
           e == IF array THEN AddElement(c, k) ELSE SetValue(c, k, Hash)
           d == EstablishContext(key, array)
           at == Place(c.at, k)
<1>1. /\ Doc \in Docs /\ Doc.m = mapping /\ Doc.res = "run" /\ defined \in SUBSET Paths
      /\ mapping \in Maps
  BY DocIs DEF TablesTyped
<1>2. front \in KeyLists /\ k \in Names /\ Append(front, k) = key
  BY FrontIs
<1>3. \/ c.res # "run" /\ d = c
      \/ c.res = "run" /\ e.res # "run" /\ d = e
      \/ c.res = "run" /\ e.res = "run" /\ d = [e EXCEPT !.ctx = Append(@, k)]
  BY EstablishCases
<1>4. /\ c \in Docs /\ Grows(mapping, c.m) /\ c.res # "bug"
      /\ c.res = "run" => c.ctx = front /\ Leads(c.m, front, c.at)
  BY <1>1, <1>2, DrillKeeps
<1> HIDE DEF c, k, d
<1>5. ASSUME c.res = "run"
      PROVE  /\ e \in Docs /\ Grows(mapping, e.m) /\ e.res # "bug" /\ e.ctx = front
             /\ e.res = "run" => Known(e.m, key)
  <2>1. c.m \in Maps /\ c.at \in Paths /\ Leads(c.m, c.ctx, c.at) /\ c.ctx = front
    BY <1>4, <1>5 DEF Docs
  <2>2. Hash \in Nodes
    BY DEF Hash, Nodes, Kinds
  <2>3. /\ e \in Docs /\ Grows(c.m, e.m) /\ e.res # "bug" /\ e.ctx = c.ctx
        /\ e.res = "run" => at \in DOMAIN e.m
    <3>1. CASE array
      <4>1. e = AddElement(c, k)
        BY <3>1
      <4> QED BY <1>2, <1>4, <1>5, <4>1, AddElementKeeps
    <3>2. CASE ~array
      <4>1. e = SetValue(c, k, Hash)
        BY <3>2
      <4> HIDE DEF e
      <4>2. /\ e \in Docs /\ Grows(c.m, e.m) /\ e.res # "bug" /\ e.ctx = c.ctx
            /\ e.res = "run" => e.at = at /\ e.at \in DOMAIN e.m
        BY <1>2, <1>4, <1>5, <2>1, <2>2, <4>1, SetValueKeeps
      <4> QED BY <4>2
    <3> QED BY <3>1, <3>2
  <2> HIDE DEF e
  <2>4. e.m \in Maps
    BY <2>3 DEF Docs
  <2>5. Grows(mapping, e.m)
    BY <1>1, <1>4, <2>1, <2>3, <2>4, GrowsOn
  <2>6. /\ at \in Paths /\ IsPlace(at) /\ Guided(c.m, at) /\ NamesOf(at) = key
    <3>1. at \in Paths /\ IsPlace(at) /\ Guided(c.m, at) /\ NamesOf(at) = Append(front, k)
      BY <1>2, <1>4, <1>5, <2>1, LeadsGuided
    <3> QED BY <1>2, <3>1
  <2>7. Guided(e.m, at)
    BY <2>1, <2>3, <2>4, <2>6, GuidedOn
  <2> HIDE DEF at
  <2>8. e.res = "run" => Known(e.m, key)
    BY <2>3, <2>6, <2>7 DEF Known
  <2> QED BY <2>1, <2>3, <2>5, <2>8
<1> HIDE DEF e
<1>6. CASE c.res # "run"
  BY <1>3, <1>4, <1>6 DEF d
<1>7. CASE c.res = "run"
  <2>1. e \in Docs /\ Append(front, k) \in KeyLists /\ e.ctx = front
    BY <1>2, <1>5, <1>7
  <2>2. d = e \/ d = [e EXCEPT !.ctx = key]
    BY <1>2, <1>3, <1>7, <2>1
  <2>3. d \in Docs /\ d.m = e.m /\ d.res = e.res
    BY <2>1, <2>2 DEF Docs
  <2> QED BY <1>5, <1>7, <2>3 DEF d
<1> QED BY <1>6, <1>7

LEMMA EstablishGood ==
  ASSUME TablesTyped, parsed = "run", NEW key \in KeyLists, key # <<>>, NEW array \in BOOLEAN,
         Good(mapping, implicits, defined), \A i \in 1 .. Len(key) : Len(key[i]) = 1,
         EstablishContext(key, array).res = "run",
         \A p \in DOMAIN EstablishContext(key, array).m :
            EstablishContext(key, array).m[p].len < 2
  PROVE  LET d == EstablishContext(key, array)
         IN  /\ d.at \notin defined /\ Good(d.m, d.imp, defined \cup {d.at})
             /\ d.ctx = key /\ Leads(d.m, key, d.at)
<1> DEFINE front == Front1(key)
           k == Last1(key)
           c == Drill(Doc, front)
           e == IF array THEN AddElement(c, k) ELSE SetValue(c, k, Hash)
           d == EstablishContext(key, array)
           at == Place(c.at, k)
<1>1. /\ Doc \in Docs /\ Doc.m = mapping /\ Doc.res = "run" /\ defined \in SUBSET Paths
      /\ Doc.imp = implicits
  BY DocIs
<1>2. /\ front \in KeyLists /\ k \in Names /\ Append(front, k) = key
      /\ Len(k) = 1 /\ \A i \in 1 .. Len(front) : Len(front[i]) = 1
  BY FrontIs
<1>3. \/ c.res # "run" /\ d = c
      \/ c.res = "run" /\ e.res # "run" /\ d = e
      \/ c.res = "run" /\ e.res = "run" /\ d = [e EXCEPT !.ctx = Append(@, k)]
  BY EstablishCases
<1>4. /\ c \in Docs
      /\ c.res = "run" => c.ctx = front /\ Leads(c.m, front, c.at)
      /\ Good(c.m, c.imp, defined)
  BY <1>1, <1>2, DrillKeeps
<1> HIDE DEF c, k, d, e
<1>5. d.res = "run" /\ \A p \in DOMAIN d.m : d.m[p].len < 2
  BY DEF d
<1>6. c.res = "run" /\ e.res = "run" /\ d = [e EXCEPT !.ctx = Append(@, k)]
  BY <1>3, <1>5
<1>7. c.m \in Maps /\ c.at \in Paths /\ Leads(c.m, c.ctx, c.at) /\ c.ctx = front
  BY <1>4, <1>6 DEF Docs
<1>8. Hash \in Nodes /\ Hash.len < 2 /\ Array(1) \in Nodes /\ Array(1).len < 2
  BY DEF Hash, Array, Nodes, Kinds
<1>9. e \in Docs /\ e.ctx = front
  <2>1. CASE array
    <3>1. e = AddElement(c, k)
      BY <2>1 DEF e
    <3> QED BY <1>2, <1>4, <1>6, <1>7, <3>1, AddElementKeeps
  <2>2. CASE ~array
    <3>1. e = SetValue(c, k, Hash)
      BY <2>2 DEF e
    <3>2. e \in Docs /\ e.ctx = c.ctx
      BY <1>2, <1>4, <1>6, <1>7, <1>8, <3>1, SetValueKeeps
    <3> QED BY <1>7, <3>2
  <2> QED BY <2>1, <2>2
<1>10. d.m = e.m /\ d.imp = e.imp /\ d.at = e.at /\ d.ctx = key
  BY <1>2, <1>6, <1>9 DEF Docs
<1>11. e.m \in Maps /\ \A p \in DOMAIN e.m : e.m[p].len < 2
  BY <1>5, <1>9, <1>10 DEF Docs
<1>12. CASE array
  <2>1. e = AddElement(c, k)
    BY <1>12 DEF e
  <2>2. at \notin DOMAIN c.m /\ e.m = PutAt(c.m, at, Array(1)) /\ e.imp = c.imp
        /\ e.at = Append(c.at, <<k, 1>>)
    BY <1>2, <1>4, <1>6, <1>11, <2>1, AddElementGood
  <2>3. /\ e.at \notin defined /\ Good(e.m, e.imp, defined \cup {e.at})
    <3> DEFINE node == Array(1)
               put == PutAt(c.m, at, node)
               to == Append(c.at, <<k, 1>>)
    <3>1. node \in Nodes /\ node.len < 2 /\ node = Array(1)
      BY <1>8
    <3>2. Leads(c.m, front, c.at) /\ at \notin DOMAIN c.m
      BY <1>7, <2>2
    <3> HIDE DEF node
    <3>3. to \notin defined /\ Good(put, c.imp, defined \cup {to})
      BY <1>1, <1>2, <1>4, <1>7, <3>1, <3>2, GoodPut
    <3> HIDE DEF put, to
    <3> QED BY <2>2, <3>1, <3>3 DEF put, to
  <2>4. Leads(e.m, front, c.at) /\ at \in DOMAIN e.m /\ e.m[at] = Array(1)
    <3>1. at \in Paths
      BY <1>2, <1>7, PlaceIs
    <3> HIDE DEF at
    <3>2. Leads(e.m, front, c.at)
      BY <1>7, <1>8, <2>2, <3>1, LeadsPut
    <3> QED BY <2>2, <3>2 DEF PutAt
  <2>5. Through(e.m[at], 1) /\ e.m[at].len = 1 /\ 1 \in Nat
    BY <2>4 DEF Through, Array
  <2>6. Leads(e.m, key, e.at)
    <3>1. Leads(e.m, Append(front, k), Append(c.at, <<k, 1>>))
      BY <1>2, <1>7, <1>11, <2>4, <2>5, LeadsOn
    <3> QED BY <1>2, <2>2, <3>1
  <2> QED BY <1>10, <2>3, <2>6 DEF d
<1>13. CASE ~array
  <2>1. e = SetValue(c, k, Hash)
    BY <1>13 DEF e
  <2>2. e.at = at /\ at \in DOMAIN e.m /\ Leads(e.m, front, c.at)
    <3>1. e.at = Place(c.at, k) /\ e.at \in DOMAIN e.m /\ Leads(e.m, c.ctx, c.at)
      BY <1>2, <1>4, <1>6, <1>7, <1>8, <2>1, SetValueKeeps
    <3> QED BY <1>7, <3>1
  <2>3. at \notin defined /\ Good(e.m, e.imp, defined \cup {at}) /\ e.m[at].kind = "hash"
    BY <1>1, <1>2, <1>4, <1>6, <1>7, <1>8, <2>1, SetValueGood
  <2>4. Through(e.m[at], 0) /\ 0 \in Nat /\ at = Append(c.at, <<k, 0>>)
    BY <2>3 DEF Through, Place
  <2>5. Leads(e.m, key, at)
    <3>1. Leads(e.m, Append(front, k), Append(c.at, <<k, 0>>))
      BY <1>2, <1>7, <1>11, <2>2, <2>3, <2>4, LeadsOn
    <3> QED BY <1>2, <2>4, <3>1
  <2> QED BY <1>10, <2>2, <2>3, <2>5 DEF d
<1> QED BY <1>12, <1>13

LEMMA KeyValueKeeps ==
  ASSUME TablesTyped, parsed = "run", NEW key \in Names
  PROVE  LET d == SetValue(Doc, key, Scalar)
         IN  /\ d \in Docs /\ Grows(mapping, d.m)
             /\ (\E p \in Paths : Leads(mapping, context, p))
                  => d.res # "bug" /\ (d.res = "run" => Known(d.m, Append(context, key)))
<1> DEFINE d == SetValue(Doc, key, Scalar)
<1>1. /\ Doc \in Docs /\ Doc.m = mapping /\ Doc.res = "run" /\ Doc.ctx = context
      /\ mapping \in Maps /\ context \in KeyLists
  BY DocIs DEF TablesTyped
<1>2. Scalar \in Nodes
  BY DEF Scalar, Nodes, Kinds
<1>3. d \in Docs /\ Grows(mapping, d.m)
  BY <1>1, <1>2, SetValueType
<1>4. ASSUME NEW p \in Paths, Leads(mapping, context, p)
      PROVE  d.res # "bug" /\ (d.res = "run" => Known(d.m, Append(context, key)))
  <2> DEFINE at == Place(p, key)
  <2>1. Leads(Doc.m, Doc.ctx, p)
    BY <1>1, <1>4
  <2>2. d.res # "bug" /\ (d.res = "run" => d.at = at /\ d.at \in DOMAIN d.m)
    BY <1>1, <1>2, <2>1, SetValueKeeps
  <2>3. at \in Paths /\ IsPlace(at) /\ Guided(mapping, at) /\ NamesOf(at) = Append(context, key)
    BY <1>1, <1>4, LeadsGuided
  <2>4. d.m \in Maps
    BY <1>3 DEF Docs
  <2> HIDE DEF at, d
  <2>5. Guided(d.m, at)
    BY <1>1, <1>3, <2>3, <2>4, GuidedOn
  <2> QED BY <2>2, <2>3, <2>5 DEF Known
<1> QED BY <1>3, <1>4

LEMMA KeyValueGood ==
  ASSUME TablesTyped, parsed = "run", NEW key \in Names, Len(key) = 1,
         Good(mapping, implicits, defined), NEW p \in Paths, Leads(mapping, context, p),
         SetValue(Doc, key, Scalar).res = "run"
  PROVE  LET d == SetValue(Doc, key, Scalar)
         IN  /\ d.at \notin defined /\ Good(d.m, d.imp, defined \cup {d.at})
             /\ d.ctx = context /\ Leads(d.m, context, p)
<1> DEFINE d == SetValue(Doc, key, Scalar)
<1>1. /\ Doc \in Docs /\ Doc.m = mapping /\ Doc.res = "run" /\ Doc.ctx = context
      /\ Doc.imp = implicits /\ defined \in SUBSET Paths /\ Leads(Doc.m, Doc.ctx, p)
  BY DocIs
<1>2. Scalar \in Nodes /\ Scalar.len < 2
  BY DEF Scalar, Nodes, Kinds
<1>3. d.at = Place(p, key) /\ d.ctx = context /\ Leads(d.m, context, p)
  <2>1. /\ d.ctx = Doc.ctx
        /\ d.res = "run" => d.at = Place(p, key) /\ Leads(d.m, Doc.ctx, p)
    BY <1>1, <1>2, SetValueKeeps
  <2> QED BY <1>1, <2>1
<1>4. Place(p, key) \notin defined /\ Good(d.m, d.imp, defined \cup {Place(p, key)})
  BY <1>1, <1>2, SetValueGood
<1> QED BY <1>3, <1>4

LEMMA AcceptTyped ==
  ASSUME TablesTyped, NEW d \in Docs, NEW keys \in KeyLists, NEW typ, Accept1(d, keys, typ)
  PROVE  TablesTyped'
<1>1. /\ mapping' \in Maps /\ implicits' \subseteq Names /\ context' \in KeyLists
      /\ parsed' \in {"run", "error", "bug"}
  BY DEF Accept1, Docs
<1>2. ordered' \in Seq(KeyLists) /\ defined' \subseteq Paths /\ again' \in BOOLEAN
  <2>1. ordered \in Seq(KeyLists) /\ defined \subseteq Paths /\ again \in BOOLEAN
    BY DEF TablesTyped
  <2>2. CASE d.res = "run"
    <3>1. /\ ordered' = Append(ordered, keys) /\ defined' = defined \cup {d.at}
          /\ again' = (again \/ d.at \in defined)
      BY <2>2 DEF Accept1
    <3>2. ordered' \in Seq(KeyLists)
      BY <2>1, <3>1
    <3>3. defined' \subseteq Paths
      BY <2>1, <3>1 DEF Docs
    <3>4. again' \in BOOLEAN
      BY <2>1, <3>1
    <3> QED BY <3>2, <3>3, <3>4
  <2>3. CASE d.res # "run"
    BY <2>1, <2>3 DEF Accept1
  <2> QED BY <2>2, <2>3
<1> QED BY <1>1, <1>2 DEF TablesTyped

\* A document that is plain after a statement was so before it.
LEMMA PlainBefore ==
  ASSUME TablesTyped, NEW d \in Docs, NEW keys \in KeyLists, NEW typ, Accept1(d, keys, typ),
         Grows(mapping, d.m), Plain'
  PROVE  /\ Plain
         /\ d.res = "run" => \A i \in 1 .. Len(keys) : Len(keys[i]) = 1
         /\ \A p \in DOMAIN d.m : d.m[p].len < 2
<1>1. mapping' = d.m /\ mapping \in Maps /\ d.m \in Maps
  BY DEF Accept1, TablesTyped, Docs
<1>2. \A p \in DOMAIN d.m : d.m[p].len < 2
  BY <1>1 DEF Plain
<1>3. \A p \in DOMAIN mapping : mapping[p].len < 2
  <2> SUFFICES ASSUME NEW p \in DOMAIN mapping PROVE mapping[p].len < 2
    OBVIOUS
  <2>1. p \in DOMAIN d.m /\ mapping[p].len <= d.m[p].len
    BY DEF Grows
  <2>2. mapping[p].len \in Nat /\ d.m[p].len \in Nat
    BY <1>1, <2>1, MapIs DEF Nodes
  <2> QED BY <1>2, <2>1, <2>2
<1>4. ordered \in Seq(KeyLists) /\ Len(ordered) \in Nat
  BY DEF TablesTyped
<1>5. \A i \in 1 .. Len(ordered') : \A j \in 1 .. Len(ordered'[i]) : Len(ordered'[i][j]) = 1
  BY DEF Plain
<1>6. CASE d.res = "run"
  <2> DEFINE s == Append(ordered, keys)
  <2>1. ordered' = s
    BY <1>6 DEF Accept1
  <2>2. /\ Len(s) = Len(ordered) + 1 /\ s[Len(ordered) + 1] = keys
        /\ \A i \in 1 .. Len(ordered) : s[i] = ordered[i]
    BY <1>4
  <2> HIDE DEF s
  <2>3. \A i \in 1 .. Len(s) : \A j \in 1 .. Len(s[i]) : Len(s[i][j]) = 1
    BY <1>5, <2>1
  <2>4. Len(ordered) + 1 \in 1 .. Len(s) /\ 1 .. Len(ordered) \subseteq 1 .. Len(s)
    BY <1>4, <2>2
  <2>5. \A i \in 1 .. Len(ordered) : \A j \in 1 .. Len(ordered[i]) : Len(ordered[i][j]) = 1
    BY <2>2, <2>3, <2>4
  <2>6. \A i \in 1 .. Len(keys) : Len(keys[i]) = 1
    BY <2>2, <2>3, <2>4
  <2> QED BY <1>2, <1>3, <2>5, <2>6 DEF Plain
<1>7. CASE d.res # "run"
  <2>1. ordered' = ordered
    BY <1>7 DEF Accept1
  <2>2. \A i \in 1 .. Len(ordered) : \A j \in 1 .. Len(ordered[i]) : Len(ordered[i][j]) = 1
    BY <1>5, <2>1
  <2> QED BY <1>2, <1>3, <1>7, <2>2 DEF Plain
<1> QED BY <1>6, <1>7

PlainAfter(d, keys) ==
  /\ d.res = "run" /\ \A i \in 1 .. Len(keys) : Len(keys[i]) = 1
  /\ \A p \in DOMAIN d.m : d.m[p].len < 2

\* What a statement has to show of the document it makes.
LEMMA AcceptKeeps ==
  ASSUME TablesInv, parsed = "run",
         NEW d \in Docs, NEW keys \in KeyLists, NEW typ, Accept1(d, keys, typ),
         Grows(mapping, d.m),
         Plain => d.res # "bug" /\ (d.res = "run" => Known(d.m, keys)),
         Plain /\ PlainAfter(d, keys)
           => /\ d.at \notin defined /\ Good(d.m, d.imp, defined \cup {d.at})
              /\ \E p \in Paths : Leads(d.m, d.ctx, p)
  PROVE  TablesInv'
<1>1. TablesTyped /\ TablesTyped'
  BY AcceptTyped DEF TablesInv
<1>2. SUFFICES ASSUME Plain'
               PROVE  /\ ~again' /\ parsed' # "bug"
                      /\ \A i \in 1 .. Len(ordered') : Known(mapping', ordered'[i])
                      /\ parsed' = "run" => /\ Good(mapping', implicits', defined')
                                            /\ \E p \in Paths : Leads(mapping', context', p)
  BY <1>1 DEF TablesInv
<1>3. /\ Plain
      /\ d.res = "run" => \A i \in 1 .. Len(keys) : Len(keys[i]) = 1
      /\ \A p \in DOMAIN d.m : d.m[p].len < 2
  BY <1>1, <1>2, PlainBefore
<1>4. /\ mapping' = d.m /\ implicits' = d.imp /\ context' = d.ctx /\ parsed' = d.res
      /\ mapping \in Maps /\ d.m \in Maps
  BY <1>1 DEF Accept1, TablesTyped, Docs
<1>5. ~again /\ \A i \in 1 .. Len(ordered) : Known(mapping, ordered[i])
  BY <1>3 DEF TablesInv
<1>6. \A i \in 1 .. Len(ordered) : Known(d.m, ordered[i])
  BY <1>4, <1>5, KnownOn
<1>7. d.res # "bug" /\ (d.res = "run" => Known(d.m, keys))
  BY <1>3
<1>8. ordered \in Seq(KeyLists) /\ Len(ordered) \in Nat
  BY <1>1 DEF TablesTyped
<1>9. CASE d.res = "run"
  <2> DEFINE s == Append(ordered, keys)
  <2>1. /\ ordered' = s /\ defined' = defined \cup {d.at}
        /\ again' = (again \/ d.at \in defined)
    BY <1>9 DEF Accept1
  <2>2. /\ d.at \notin defined /\ Good(d.m, d.imp, defined \cup {d.at})
        /\ \E p \in Paths : Leads(d.m, d.ctx, p)
    BY <1>3, <1>9 DEF PlainAfter
  <2>3. /\ Len(s) = Len(ordered) + 1 /\ s[Len(ordered) + 1] = keys
        /\ \A i \in 1 .. Len(ordered) : s[i] = ordered[i]
    BY <1>8
  <2> HIDE DEF s
  <2>4. \A i \in 1 .. Len(s) : Known(d.m, s[i])
    <3> SUFFICES ASSUME NEW i \in 1 .. Len(s) PROVE Known(d.m, s[i])
      OBVIOUS
    <3>1. i \in 1 .. Len(ordered) \/ i = Len(ordered) + 1
      BY <1>8, <2>3
    <3> QED BY <1>6, <1>7, <1>9, <2>3, <3>1
  <2>5. ~again'
    BY <1>5, <2>1, <2>2
  <2> QED BY <1>4, <1>7, <2>1, <2>2, <2>4, <2>5
<1>10. CASE d.res # "run"
  <2>1. ordered' = ordered /\ again' = again
    BY <1>10 DEF Accept1
  <2> QED BY <1>4, <1>5, <1>6, <1>7, <1>10, <2>1
<1> QED BY <1>9, <1>10

LEMMA HeaderStep ==
  ASSUME TablesInv, parsed = "run", NEW key \in KeyLists, key # <<>>, NEW array \in BOOLEAN,
         NEW typ, Accept1(EstablishContext(key, array), key, typ)
  PROVE  TablesInv'
<1> DEFINE d == EstablishContext(key, array)
<1>1. TablesTyped
  BY DEF TablesInv
<1>2. /\ d \in Docs /\ Grows(mapping, d.m) /\ d.res # "bug"
      /\ d.res = "run" => Known(d.m, key)
  BY <1>1, EstablishKeeps
<1>3. ASSUME Plain, PlainAfter(d, key)
      PROVE  /\ d.at \notin defined /\ Good(d.m, d.imp, defined \cup {d.at})
             /\ \E p \in Paths : Leads(d.m, d.ctx, p)
  <2>1. Good(mapping, implicits, defined)
    BY <1>3 DEF TablesInv
  <2>2. /\ d.at \notin defined /\ Good(d.m, d.imp, defined \cup {d.at})
        /\ d.ctx = key /\ Leads(d.m, key, d.at)
    BY <1>1, <1>3, <2>1, EstablishGood DEF PlainAfter
  <2>3. d.at \in Paths
    BY <1>2 DEF Docs
  <2> QED BY <2>2, <2>3
<1>4. Accept1(d, key, typ)
  OBVIOUS
<1> HIDE DEF d
<1> QED BY <1>2, <1>3, <1>4, AcceptKeeps

LEMMA KeyValueStep ==
  ASSUME TablesInv, parsed = "run", NEW key \in Names,
         NEW typ, Accept1(SetValue(Doc, key, Scalar), Append(context, key), typ)
  PROVE  TablesInv'
<1> DEFINE d == SetValue(Doc, key, Scalar)
           keys == Append(context, key)
<1>1. TablesTyped /\ context \in KeyLists
  BY DEF TablesInv, TablesTyped
<1>2. /\ keys \in KeyLists /\ Len(keys) = Len(context) + 1 /\ keys[Len(context) + 1] = key
      /\ Len(context) \in Nat
  BY <1>1, NamesOn DEF KeyLists
<1>3. /\ d \in Docs /\ Grows(mapping, d.m)
      /\ (\E p \in Paths : Leads(mapping, context, p))
           => d.res # "bug" /\ (d.res = "run" => Known(d.m, keys))
  BY <1>1, KeyValueKeeps
<1>4. Plain => \E p \in Paths : Leads(mapping, context, p)
  BY DEF TablesInv
<1>5. ASSUME Plain, PlainAfter(d, keys)
      PROVE  /\ d.at \notin defined /\ Good(d.m, d.imp, defined \cup {d.at})
             /\ \E p \in Paths : Leads(d.m, d.ctx, p)
  <2>1. Good(mapping, implicits, defined)
    BY <1>5 DEF TablesInv
  <2>2. PICK p \in Paths : Leads(mapping, context, p)
    BY <1>4, <1>5
  <2>3. Len(key) = 1
    <3> HIDE DEF keys
    <3>1. Len(context) + 1 \in 1 .. Len(keys)
      BY <1>2
    <3> QED BY <1>2, <1>5, <3>1 DEF PlainAfter
  <2>4. /\ d.at \notin defined /\ Good(d.m, d.imp, defined \cup {d.at})
        /\ d.ctx = context /\ Leads(d.m, context, p)
    BY <1>1, <1>5, <2>1, <2>2, <2>3, KeyValueGood DEF PlainAfter
  <2> QED BY <2>4
<1>6. Accept1(d, keys, typ)
  OBVIOUS
<1> HIDE DEF d, keys
<1> QED BY <1>2, <1>3, <1>4, <1>5, <1>6, AcceptKeeps

-----------------------------------------------------------------------------
(* The theorem.                                                            *)

LEMMA TablesStart ==
  ASSUME TomlInit
  PROVE  TablesInv
<1>1. NoTables \in Maps /\ DOMAIN NoTables = {}
  <2>1. NoTables \in [{} -> Nodes] /\ {} \in SUBSET Paths
    BY DEF NoTables
  <2> QED BY <2>1 DEF NoTables, Maps
<1>2. <<>> \in KeyLists /\ <<>> \in Paths /\ <<>> \in Seq(KeyLists) /\ Len(<<>>) = 0
  BY DEF KeyLists, Paths
<1>3. TablesTyped
  BY <1>1, <1>2 DEF TomlInit, TablesTyped
<1>4. Good(mapping, implicits, defined)
  BY <1>1 DEF TomlInit, Good, Closed, Single, Implied
<1>5. Leads(mapping, context, <<>>)
  BY <1>2 DEF TomlInit, Leads, NamesOf
<1> QED BY <1>2, <1>3, <1>4, <1>5 DEF TomlInit, TablesInv

LEMMA TablesNext ==
  ASSUME TablesInv, [TomlNext]_tomlVars
  PROVE  TablesInv'
<1> USE DEF TomlNext
<1>1. ASSUME NEW key \in Tables, TableHeader(key) \/ ArrayHeader(key)
      PROVE  TablesInv'
  <2>1. key \in KeyLists /\ key # <<>>
    BY TablesAssumption DEF KeyLists, Names, Words
  <2>2. CASE TableHeader(key)
    <3>1. parsed = "run" /\ Accept1(EstablishContext(key, FALSE), key, "Hash")
      BY <2>2 DEF TableHeader, More
    <3> QED BY <2>1, <3>1, HeaderStep
  <2>3. CASE ArrayHeader(key)
    <3>1. parsed = "run" /\ Accept1(EstablishContext(key, TRUE), key, "ArrayHash")
      BY <2>3 DEF ArrayHeader, More
    <3> QED BY <2>1, <3>1, HeaderStep
  <2> QED BY <1>1, <2>2, <2>3
<1>2. ASSUME NEW key \in Keys, KeyValue(key)
      PROVE  TablesInv'
  <2>1. key \in Names
    BY TablesAssumption DEF Names, Words
  <2>2. /\ parsed = "run"
        /\ Accept1(SetValue(Doc, key, Scalar), Append(context, key), "Integer")
    BY <1>2 DEF KeyValue, More
  <2> QED BY <2>1, <2>2, KeyValueStep
<1>3. CASE UNCHANGED tomlVars
  BY <1>3 DEF tomlVars, TablesInv, TablesTyped, Plain
<1> QED BY <1>1, <1>2, <1>3

\* Without arrays of tables, the elements of a path that guides are all 0.
LEMMA KnownDefined ==
  ASSUME TablesTyped, NEW keys \in KeyLists, Known(mapping, keys),
         \A p \in DOMAIN mapping : mapping[p].kind # "array"
  PROVE  IsDefined(keys)
<1> DEFINE at(n) == [i \in 1 .. n |-> <<keys[i], 0>>]
<1>1. PICK p \in DOMAIN mapping : IsPlace(p) /\ Guided(mapping, p) /\ NamesOf(p) = keys
  BY DEF Known
<1>2. p \in Paths /\ mapping \in Maps
  BY MapIs DEF TablesTyped
<1>3. Len(keys) = Len(p) /\ Len(p) \in Nat \ {0} /\ \A i \in 1 .. Len(p) : keys[i] = p[i][1]
  BY <1>1, <1>2, NamesType, SpotOfPlace DEF NamesOf
<1>4. ASSUME NEW n \in 1 .. Len(p) - 1
      PROVE  Spot(p, n) \in DOMAIN mapping /\ mapping[Spot(p, n)].kind = "hash" /\ p[n][2] = 0
  <2> DEFINE x == Spot(p, n)
  <2>1. x \in DOMAIN mapping /\ Through(mapping[x], p[n][2])
    BY <1>1 DEF Guided
  <2>2. mapping[x].kind \in Kinds
    BY <1>2, <2>1, MapIs DEF Nodes
  <2> HIDE DEF x
  <2>3. mapping[x].kind = "hash" /\ p[n][2] = 0
    BY <2>1, <2>2 DEF Through, Kinds
  <2> QED BY <2>1, <2>3 DEF x
<1>5. \A i \in 1 .. Len(p) : p[i] = <<keys[i], 0>>
  <2> SUFFICES ASSUME NEW i \in 1 .. Len(p) PROVE p[i] = <<keys[i], 0>>
    OBVIOUS
  <2>1. p[i] \in Names \X Nat
    BY <1>2 DEF Paths
  <2>2. p[i][2] = 0
    <3>1. i = Len(p) \/ i \in 1 .. Len(p) - 1
      BY <1>3
    <3> QED BY <1>1, <1>4, <3>1 DEF IsPlace
  <2> QED BY <1>3, <2>1, <2>2
<1>6. ASSUME NEW n \in 1 .. Len(p)
      PROVE  Spot(p, n) = at(n)
  <2>1. \A i \in 1 .. n : (IF i = n THEN <<p[n][1], 0>> ELSE p[i]) = <<keys[i], 0>>
    BY <1>3, <1>5
  <2> QED BY <2>1 DEF Spot
<1>7. at(Len(keys)) \in DOMAIN mapping
  <2>1. Spot(p, Len(p)) = p /\ Len(p) \in 1 .. Len(p)
    BY <1>1, <1>2, <1>3, SpotOfPlace
  <2> HIDE DEF at
  <2> QED BY <1>3, <1>6, <2>1
<1>8. \A n \in 1 .. Len(keys) - 1 : at(n) \in DOMAIN mapping /\ mapping[at(n)].kind = "hash"
  <2> SUFFICES ASSUME NEW n \in 1 .. Len(p) - 1
               PROVE  at(n) \in DOMAIN mapping /\ mapping[at(n)].kind = "hash"
    BY <1>3
  <2>1. n \in 1 .. Len(p)
    BY <1>3
  <2> HIDE DEF at
  <2> QED BY <1>4, <1>6, <2>1
<1> QED BY <1>7, <1>8 DEF IsDefined

LEMMA TablesImply ==
  ASSUME TablesInv
  PROVE  DefinedOnce
<1>1. TablesTyped
  BY DEF TablesInv
<1>2. SUFFICES ASSUME Plain
               PROVE  /\ ~again /\ parsed # "bug"
                      /\ (\A p \in DOMAIN mapping : mapping[p].kind # "array")
                           => \A i \in 1 .. Len(ordered) : IsDefined(ordered[i])
  BY DEF DefinedOnce
<1>3. ~again /\ parsed # "bug" /\ \A i \in 1 .. Len(ordered) : Known(mapping, ordered[i])
  BY <1>2 DEF TablesInv
<1>4. ASSUME \A p \in DOMAIN mapping : mapping[p].kind # "array", NEW i \in 1 .. Len(ordered)
      PROVE  IsDefined(ordered[i])
  <2>1. ordered[i] \in KeyLists /\ Known(mapping, ordered[i])
    BY <1>1, <1>3 DEF TablesTyped
  <2> QED BY <1>1, <1>4, <2>1, KnownDefined
<1> QED BY <1>3, <1>4

\* In a document whose keys have no dot and whose arrays of tables have one element
\* each, no statement defines again what another did, the walks of parse.go never
\* stop the program, and IsDefined finds every key when there is no such array.
THEOREM DefinedOnceHolds == TomlInit /\ [][TomlNext]_tomlVars => []DefinedOnce
<1>1. TomlInit => TablesInv
  BY TablesStart
<1>2. TablesInv /\ [TomlNext]_tomlVars => TablesInv'
  BY TablesNext
<1>3. TablesInv => DefinedOnce
  BY TablesImply
<1> QED BY <1>1, <1>2, <1>3, PTL

=============================================================================
