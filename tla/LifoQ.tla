------------------------------- MODULE LifoQ --------------------------------
(***************************************************************************)
(* The LifoQ of queues/queues.go. Push and Compact run under q.m; Pop      *)
(* takes the top index under q.m and reads the slice after it let go.      *)
(***************************************************************************)
EXTENDS Integers, Sequences

CONSTANTS
  Users,      \* goroutines that use the queue
  Nil,        \* an empty slot, and what Pop returns of an empty queue
  InitSizes,  \* the initsize NewLifoQ may be called with
  MaxPush     \* bound: values pushed

ASSUME InitSizesAssumption == InitSizes \subseteq Int
ASSUME MaxPushAssumption == MaxPush \in Nat /\ Nil \notin Nat

VARIABLES
  q,       \* the slice q.q; slot i of the code is q[i + 1]
  last,    \* q.last
  ptr,     \* q.ptr, shared by all Pops
  reading, \* goroutines in a Pop that has released q.m and not read the slice
  pushed,  \* values pushed so far; the next one is pushed + 1
  stack,   \* history: the values a stack would hold
  mixed    \* history: a Push came when a Pop had lowered last, or initsize > 0

lifoVars == <<q, last, ptr, reading, pushed, stack, mixed>>

Values == 1..MaxPush

\* Types; last never falls below -1.
LifoTypeOK ==
  /\ q \in Seq(Values \cup {Nil})
  /\ last \in -1..MaxPush /\ ptr \in 0..MaxPush
  /\ reading \subseteq Users
  /\ pushed \in 0..MaxPush /\ stack \in Seq(Values)
  /\ mixed \in BOOLEAN

NewLifoQ(initsize) ==
  /\ q = [i \in 1..(IF initsize < 0 THEN 0 ELSE initsize) |-> Nil]
  /\ last = -1 /\ ptr = 0

LifoInit ==
  /\ \E n \in InitSizes : NewLifoQ(n)
  /\ reading = {}
  /\ pushed = 0
  /\ stack = <<>>
  /\ mixed = FALSE

\* Plausible fault, not used by LifoNext: Compact drops the top as well.
CompactTop(p) ==
  /\ p \notin reading
  /\ q' = [i \in DOMAIN q |-> IF i > last THEN Nil ELSE q[i]]
  /\ UNCHANGED <<last, ptr, reading, pushed, stack, mixed>>

\* Plausible fault, not used by LifoNext: Compact cuts the slice, one slot short.
CompactCut(p) ==
  /\ p \notin reading
  /\ q' = SubSeq(q, 1, last)
  /\ UNCHANGED <<last, ptr, reading, pushed, stack, mixed>>

-----------------------------------------------------------------------------
Push(p) ==
  /\ p \notin reading /\ pushed < MaxPush
  /\ pushed' = pushed + 1
  /\ q' = Append(q, pushed')
  /\ last' = last + 1
  /\ stack' = Append(stack, pushed')
  /\ mixed' = (mixed \/ last + 1 # Len(q))
  /\ UNCHANGED <<ptr, reading>>

\* The locked part of Pop; of an empty queue it returns nil.
Pop(p) ==
  /\ p \notin reading /\ last >= 0
  /\ ptr' = last
  /\ last' = last - 1
  /\ reading' = reading \cup {p}
  /\ stack' = SubSeq(stack, 1, Len(stack) - 1)
  /\ UNCHANGED <<q, pushed, mixed>>

\* return q.q[q.ptr]: whatever is there by now.
PopRead(p) ==
  /\ p \in reading
  /\ reading' = reading \ {p}
  /\ UNCHANGED <<q, last, ptr, pushed, stack, mixed>>

Compact(p) ==
  /\ p \notin reading
  /\ q' = [i \in DOMAIN q |-> IF i > last + 1 THEN Nil ELSE q[i]]
  /\ UNCHANGED <<last, ptr, reading, pushed, stack, mixed>>

LifoNext == \E p \in Users : Push(p) \/ Pop(p) \/ PopRead(p) \/ Compact(p)

LifoSpec == LifoInit /\ [][LifoNext]_lifoVars

-----------------------------------------------------------------------------
\* The unlocked read of Pop never indexes beyond the slice, whatever the other
\* goroutines push, pop or compact meanwhile.
ReadInRange == reading # {} => ptr + 1 \in DOMAIN q

\* As long as no Push follows a Pop the slots up to last are the stack, with
\* any number of Pops and Compacts in between.
PushPhaseIsLifo == ~mixed => SubSeq(q, 1, last + 1) = stack
=============================================================================
