------------------------------- MODULE Palloc -------------------------------
(***************************************************************************)
(* The allocPool of palloc/palloc.go: sync.Pools of byte buffers, kept     *)
(* under a key computed from the size asked for or the capacity given      *)
(* back. A sync.Pool may drop what it holds at any time.                   *)
(***************************************************************************)
EXTENDS Integers

CONSTANTS
  Bufs,       \* buffers; bounds how many exist at once
  Step,       \* the step NewAlloc is called with
  Sizes,      \* sizes Get is called with
  Foreign     \* capacities of buffers Put that no Get returned

ASSUME StepAssumption == Step \in Int
ASSUME SizesAssumption == Sizes \subseteq Int /\ Foreign \subseteq Nat

ALLOC_BASE == 16

\* NewAlloc.
step ==
  LET s == IF Step <= ALLOC_BASE THEN ALLOC_BASE ELSE Step IN s + (s % ALLOC_BASE)

VARIABLES
  where,     \* "none", "out" with a caller, or in a pool
  cap,       \* capacity of each buffer
  key,       \* the pool of a buffer in a pool
  crash,     \* Get has sliced a buffer beyond its capacity
  irregular  \* history: a size or capacity was not a positive multiple of step

pallocVars == <<where, cap, key, crash, irregular>>

\* Types; a capacity and a key are never negative.
PallocTypeOK ==
  /\ where \in [Bufs -> {"none", "out", "pool"}]
  /\ cap \in [Bufs -> Nat] /\ key \in [Bufs -> Nat]
  /\ crash \in BOOLEAN /\ irregular \in BOOLEAN

PallocInit ==
  /\ where = [b \in Bufs |-> "none"]
  /\ cap = [b \in Bufs |-> 0] /\ key = [b \in Bufs |-> 0]
  /\ crash = FALSE /\ irregular = FALSE

Regular(n) == n > 0 /\ n % step = 0

GetSize(size) == IF size < 0 THEN 0 ELSE size
GetKey(size) == size + (size % step)

\* Plausible fault, not used by PallocNext: the sum of Put's key rounds up a step more.
PutKeyUp(c) == IF c <= step THEN step ELSE c + step - (c % step)

\* Plausible fault, not used by PallocNext: small buffers get no pool of their own.
PutKeyAlike(c) == c - (c % step)

PutKey(c) == IF c <= step THEN step ELSE c + (c % step)

\* The pool of the size has buffer b.
GetPooled(b, n) ==
  LET size == GetSize(n) IN
  /\ ~crash /\ where[b] = "pool" /\ key[b] = GetKey(size)
  /\ where' = [where EXCEPT ![b] = "out"]
  /\ crash' = (size > cap[b])
  /\ irregular' = (irregular \/ ~Regular(size))
  /\ UNCHANGED <<cap, key>>

\* The pool of the size is new, or has nothing: its New makes a buffer b.
GetNew(b, n) ==
  LET size == GetSize(n) IN
  /\ ~crash /\ where[b] = "none"
  /\ where' = [where EXCEPT ![b] = "out"]
  /\ cap' = [cap EXCEPT ![b] = GetKey(size)]
  /\ irregular' = (irregular \/ ~Regular(size))
  /\ UNCHANGED <<key, crash>>

Put(b) ==
  /\ ~crash /\ where[b] = "out"
  /\ where' = [where EXCEPT ![b] = "pool"]
  /\ key' = [key EXCEPT ![b] = PutKey(cap[b])]
  /\ UNCHANGED <<cap, crash, irregular>>

\* A buffer of capacity c that the caller has made.
PutForeign(b, c) ==
  /\ ~crash /\ where[b] = "none"
  /\ where' = [where EXCEPT ![b] = "pool"]
  /\ cap' = [cap EXCEPT ![b] = c]
  /\ key' = [key EXCEPT ![b] = PutKey(c)]
  /\ irregular' = (irregular \/ ~Regular(c))
  /\ UNCHANGED crash

\* The caller, or a sync.Pool, lets b go.
Drop(b) ==
  /\ ~crash /\ where[b] # "none"
  /\ where' = [where EXCEPT ![b] = "none"]
  /\ UNCHANGED <<cap, key, crash, irregular>>

PallocNext == \E b \in Bufs :
  \/ \E n \in Sizes : GetPooled(b, n) \/ GetNew(b, n)
  \/ Put(b) \/ (\E c \in Foreign : PutForeign(b, c)) \/ Drop(b)

PallocSpec == PallocInit /\ [][PallocNext]_pallocVars

-----------------------------------------------------------------------------
\* A Get panics only after some Get or Put of a length that is not a positive
\* multiple of the step: callers that keep to multiples may share a pool.
RegularIsSafe == crash => irregular

\* A pool holds no buffer larger than its key, but for the pool of the step,
\* and a buffer is smaller than its key by less than one step: no Get wastes
\* more than that.
KeyIsClose ==
  \A b \in Bufs : where[b] = "pool" =>
    IF cap[b] <= step THEN key[b] = step ELSE cap[b] <= key[b] /\ key[b] < cap[b] + step

-----------------------------------------------------------------------------
\* Why RegularIsSafe: regular buffers lie under their own capacity.
RegularInv ==
  ~irregular => \A b \in Bufs :
    where[b] # "none" => Regular(cap[b]) /\ (where[b] = "pool" => key[b] = cap[b])
=============================================================================
