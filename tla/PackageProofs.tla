--------------------------- MODULE PackageProofs ----------------------------
(***************************************************************************)
(* What the small packages promise, for every value of their constants:    *)
(* SpinLock excludes any number of threads and implements Lock; callers of *)
(* an allocPool that keep to its step never make it panic; LifoQ's         *)
(* unlocked read stays within its slice; a rotating file stays within its  *)
(* limits; an AES of keyaes opens one block and nothing else; a CMsg comes  *)
(* out of a used one as it was marshalled; a TCPFilter loses and repeats   *)
(* no byte of the stream; the connection counter of the server is right at *)
(* every step.                                                             *)
(***************************************************************************)
EXTENDS SpinLock, Palloc, LifoQ, RotFile, KeyAES, Messages, TcpFilter, QpsServer,
        FiniteSetTheorems, FunctionTheorems, TLAPS

-----------------------------------------------------------------------------
(* SpinLock: the lock of one word.                                         *)

\* An unlocked word is 0 and has no owner.
LEMMA InitWord == SpinInit => SpinTypeOK /\ WordInv
BY DEF SpinInit, SpinTypeOK, WordInv, MutualExclusion

\* Only the compare-and-swap that saw 0 gets the lock; only its owner resets it.
LEMMA StepWord ==
  ASSUME SpinTypeOK, WordInv, [SpinNext]_spinVars
  PROVE  SpinTypeOK' /\ WordInv'
<1> USE DEF SpinTypeOK, WordInv, MutualExclusion, Goto
<1>1. ASSUME NEW t \in Threads, CallTryLock(t)
      PROVE  SpinTypeOK' /\ WordInv'
  BY <1>1 DEF CallTryLock, TryLock
<1>2. ASSUME NEW t \in Threads, CallLock(t)
      PROVE  SpinTypeOK' /\ WordInv'
  BY <1>2 DEF CallLock
<1>3. ASSUME NEW t \in Threads, LockTry(t)
      PROVE  SpinTypeOK' /\ WordInv'
  BY <1>3 DEF LockTry, TryLock
<1>4. ASSUME NEW t \in Threads, Gosched(t)
      PROVE  SpinTypeOK' /\ WordInv'
  BY <1>4 DEF Gosched
<1>5. ASSUME NEW t \in Threads, Unlock(t)
      PROVE  SpinTypeOK' /\ WordInv'
  BY <1>5 DEF Unlock
<1>6. CASE UNCHANGED spinVars
  BY <1>6 DEF spinVars
<1> QED BY <1>1, <1>2, <1>3, <1>4, <1>5, <1>6 DEF SpinNext, LockStep

\* No two threads are ever between a successful Lock or TryLock and their
\* Unlock at once.
THEOREM Exclusion == SpinSpec => []MutualExclusion
<1>1. SpinInit => SpinTypeOK /\ WordInv
  BY InitWord
<1>2. SpinTypeOK /\ WordInv /\ [SpinNext]_spinVars => SpinTypeOK' /\ WordInv'
  BY StepWord
<1>3. WordInv => MutualExclusion
  BY DEF WordInv
<1> QED BY <1>1, <1>2, <1>3, PTL DEF SpinSpec

-----------------------------------------------------------------------------
\* Every step acquires or releases the abstract lock, or leaves it alone.
LEMMA StepLock ==
  ASSUME SpinTypeOK, WordInv, WordInv', [SpinNext]_spinVars
  PROVE  [Abstract!Next]_Owner
<1> USE DEF WordInv, MutualExclusion, SpinTypeOK, Goto, Owner
<1>0. ASSUME NEW t \in Threads, NEW failed \in {"idle", "gosched"},
             pc[t] # "held", TryLock(t, failed)
      PROVE  Abstract!Acquire(t) \/ UNCHANGED Owner
  <2>1. CASE f = 0
    <3>1. \A u \in Threads : pc[u] # "held"
      BY <2>1
    <3>2. \A u \in Threads : pc'[u] = "held" <=> u = t
      BY <1>0, <2>1, <3>1 DEF TryLock
    <3> QED BY <3>1, <3>2 DEF Abstract!Acquire
  <2>2. CASE f # 0
    BY <1>0, <2>2 DEF TryLock
  <2> QED BY <2>1, <2>2
<1>1. ASSUME NEW t \in Threads, CallTryLock(t) \/ LockTry(t)
      PROVE  Abstract!Acquire(t) \/ UNCHANGED Owner
  BY <1>0, <1>1 DEF CallTryLock, LockTry
<1>2. ASSUME NEW t \in Threads, CallLock(t) \/ Gosched(t)
      PROVE  UNCHANGED Owner
  BY <1>2 DEF CallLock, Gosched
<1>3. ASSUME NEW t \in Threads, Unlock(t)
      PROVE  Abstract!Release(t)
  <2>1. Owner = {t}
    BY <1>3 DEF Unlock
  <2>2. Owner' = {}
    BY <1>3 DEF Unlock
  <2> QED BY <2>1, <2>2 DEF Abstract!Release
<1>4. CASE UNCHANGED spinVars
  BY <1>4 DEF spinVars
<1> QED BY <1>1, <1>2, <1>3, <1>4 DEF SpinNext, LockStep, Abstract!Next

\* The spin lock implements the abstract lock for any set of threads.
THEOREM ImplementsLock == SpinSpec => LockSpec
<1>1. SpinInit => Abstract!Init
  BY DEF SpinInit, Abstract!Init, Owner
<1>2. SpinTypeOK /\ WordInv /\ WordInv' /\ [SpinNext]_spinVars => [Abstract!Next]_Owner
  BY StepLock
<1>3. SpinSpec => [](SpinTypeOK /\ WordInv)
  <2>1. SpinTypeOK /\ WordInv /\ [SpinNext]_spinVars => SpinTypeOK' /\ WordInv'
    BY StepWord
  <2> QED BY InitWord, <2>1, PTL DEF SpinSpec
<1> QED BY <1>1, <1>2, <1>3, PTL DEF SpinSpec, LockSpec, Abstract!Spec

-----------------------------------------------------------------------------
(* allocPool: the pool keyed by buffer size.                               *)

\* NewAlloc makes a step of at least 16, whatever it is called with.
LEMMA StepType == step \in Nat /\ step >= 16
BY StepAssumption DEF step, ALLOC_BASE

\* No positive multiple of the step is below it.
LEMMA MultipleIsLarge ==
  ASSUME NEW s \in Nat, s > 0, NEW n \in Nat, n > 0, n % s = 0
  PROVE  n >= s
<1> SUFFICES ASSUME n < s PROVE n % s = n
  OBVIOUS
<1> QED OBVIOUS

\* A regular capacity is its own key, in Get and in Put.
LEMMA RegularKeys ==
  ASSUME NEW n \in Nat, Regular(n)
  PROVE  GetKey(n) = n /\ PutKey(n) = n
<1>1. n >= step
  BY StepType, MultipleIsLarge DEF Regular
<1> QED BY <1>1, StepType DEF Regular, GetKey, PutKey

\* Keys are natural numbers.
LEMMA KeysAreNat ==
  ASSUME NEW n \in Nat
  PROVE  GetKey(n) \in Nat /\ PutKey(n) \in Nat
<1>1. n % step \in Nat
  BY StepType
<1> QED BY <1>1, StepType DEF GetKey, PutKey

\* Get raises a negative size to zero.
LEMMA SizeIsNat == \A n \in Sizes : GetSize(n) \in Nat
BY SizesAssumption DEF GetSize

SafeInv == PallocTypeOK /\ RegularInv /\ RegularIsSafe

\* A new allocPool has the right types.
LEMMA InitType == PallocInit => PallocTypeOK
<1> SUFFICES ASSUME PallocInit PROVE PallocTypeOK
  OBVIOUS
<1>1. where \in [Bufs -> {"none", "out", "pool"}] /\ cap \in [Bufs -> Nat] /\ key \in [Bufs -> Nat]
  BY DEF PallocInit
<1>2. crash \in BOOLEAN /\ irregular \in BOOLEAN
  BY Zenon DEF PallocInit
<1> QED BY <1>1, <1>2 DEF PallocTypeOK

\* A new allocPool has no buffer.
LEMMA InitEmpty == PallocInit => crash = FALSE /\ \A b \in Bufs : where[b] = "none"
BY DEF PallocInit

\* A new allocPool satisfies SafeInv.
LEMMA InitSafe == PallocInit => SafeInv
BY InitType, InitEmpty DEF SafeInv, RegularInv, RegularIsSafe

\* Every Get and Put keeps SafeInv.
LEMMA StepSafe ==
  ASSUME SafeInv, [PallocNext]_pallocVars
  PROVE  SafeInv'
<1> USE DEF SafeInv, PallocTypeOK, RegularInv, RegularIsSafe
<1>1. ASSUME NEW b \in Bufs, NEW n \in Sizes, GetPooled(b, n)
      PROVE  SafeInv'
  <2>1. GetSize(n) \in Nat
    BY SizeIsNat
  <2>2. ~irregular' => GetKey(GetSize(n)) = GetSize(n)
    BY <1>1, <2>1, RegularKeys DEF GetPooled
  <2> QED BY <1>1, <2>1, <2>2 DEF GetPooled
<1>2. ASSUME NEW b \in Bufs, NEW n \in Sizes, GetNew(b, n)
      PROVE  SafeInv'
  <2>1. GetSize(n) \in Nat
    BY SizeIsNat
  <2>2. GetKey(GetSize(n)) \in Nat
    BY <2>1, KeysAreNat
  <2>3. ~irregular' => Regular(GetKey(GetSize(n)))
    BY <1>2, <2>1, RegularKeys DEF GetNew
  <2> QED BY <1>2, <2>2, <2>3 DEF GetNew
<1>3. ASSUME NEW b \in Bufs, Put(b)
      PROVE  SafeInv'
  <2>1. PutKey(cap[b]) \in Nat
    BY KeysAreNat
  <2>2. Regular(cap[b]) => PutKey(cap[b]) = cap[b]
    BY RegularKeys
  <2> QED BY <1>3, <2>1, <2>2 DEF Put
<1>4. ASSUME NEW b \in Bufs, NEW c \in Foreign, PutForeign(b, c)
      PROVE  SafeInv'
  <2>1. c \in Nat /\ PutKey(c) \in Nat
    BY SizesAssumption, KeysAreNat
  <2>2. Regular(c) => PutKey(c) = c
    BY <2>1, RegularKeys
  <2> QED BY <1>4, <2>1, <2>2 DEF PutForeign
<1>5. ASSUME NEW b \in Bufs, Drop(b)
      PROVE  SafeInv'
  BY <1>5 DEF Drop
<1>6. CASE UNCHANGED pallocVars
  BY <1>6 DEF pallocVars, Regular
<1> QED BY <1>1, <1>2, <1>3, <1>4, <1>5, <1>6 DEF PallocNext

\* As long as every size asked for and every capacity given back is a positive
\* multiple of the step, no buffer Get takes from a pool is too small.
THEOREM RegularCallersAreSafe == PallocSpec => []RegularIsSafe
<1>1. SafeInv => RegularIsSafe
  BY DEF SafeInv
<1>2. SafeInv /\ [PallocNext]_pallocVars => SafeInv'
  BY StepSafe
<1> QED BY InitSafe, <1>1, <1>2, PTL DEF PallocSpec

-----------------------------------------------------------------------------
\* What a key is, of a capacity beyond the step.
LEMMA KeyBounds ==
  ASSUME NEW c \in Nat, c > step
  PROVE  c <= PutKey(c) /\ PutKey(c) < c + step
BY StepType DEF PutKey

\* A buffer lies under a key less than one step above its capacity.
THEOREM KeysAreClose == PallocSpec => [](PallocTypeOK /\ KeyIsClose)
<1> DEFINE IInv == PallocTypeOK /\ KeyIsClose
<1>1. PallocInit => IInv
  BY InitType, InitEmpty DEF KeyIsClose
<1>2. ASSUME IInv, [PallocNext]_pallocVars
      PROVE  IInv'
  <2> USE DEF PallocTypeOK, KeyIsClose
  <2>0. ASSUME NEW c \in Nat
        PROVE  /\ PutKey(c) \in Nat
               /\ IF c <= step THEN PutKey(c) = step
                  ELSE c <= PutKey(c) /\ PutKey(c) < c + step
    <3>1. CASE c <= step
      BY <3>1, StepType DEF PutKey
    <3>2. CASE ~(c <= step)
      BY <3>2, StepType, KeysAreNat, KeyBounds
    <3> QED BY <3>1, <3>2
  <2>1. ASSUME NEW b \in Bufs, NEW n \in Sizes, GetPooled(b, n) \/ GetNew(b, n)
        PROVE  IInv'
    <3>1. GetSize(n) \in Nat /\ GetKey(GetSize(n)) \in Nat
      BY SizeIsNat, KeysAreNat
    <3>2. CASE GetPooled(b, n)
      BY <1>2, <3>1, <3>2 DEF GetPooled
    <3>3. CASE GetNew(b, n)
      BY <1>2, <3>1, <3>3 DEF GetNew
    <3> QED BY <2>1, <3>2, <3>3
  <2>2. ASSUME NEW b \in Bufs, Put(b)
        PROVE  IInv'
    BY <1>2, <2>0, <2>2 DEF Put
  <2>3. ASSUME NEW b \in Bufs, NEW c \in Foreign, PutForeign(b, c)
        PROVE  IInv'
    BY <1>2, <2>0, <2>3, SizesAssumption DEF PutForeign
  <2>4. CASE (\E b \in Bufs : Drop(b)) \/ UNCHANGED pallocVars
    BY <1>2, <2>4 DEF Drop, pallocVars
  <2> QED BY <1>2, <2>1, <2>2, <2>3, <2>4 DEF PallocNext
<1> QED BY <1>1, <1>2, PTL DEF PallocSpec

-----------------------------------------------------------------------------
(* LifoQ: the stack with an unlocked read.                                 *)

Slots == Nat \cup {Nil}

\* The slots up to last hold the stack, as long as Push appends at the top.
LifoInv ==
  /\ q \in Seq(Slots) /\ stack \in Seq(Slots) /\ mixed \in BOOLEAN
  /\ last \in Int /\ last >= -1 /\ last + 1 <= Len(q) /\ pushed \in Nat
  /\ Len(stack) = last + 1
  /\ ~mixed => \A i \in 1 .. last + 1 : q[i] = stack[i]
  /\ ptr \in Nat /\ (reading # {} => ptr + 1 <= Len(q))

\* A new queue satisfies LifoInv.
LEMMA LifoInitInv == LifoInit => LifoInv
<1> SUFFICES ASSUME LifoInit PROVE LifoInv
  OBVIOUS
<1>1. PICK n \in InitSizes : NewLifoQ(n)
  BY DEF LifoInit
<1> DEFINE k == IF n < 0 THEN 0 ELSE n
<1>2. k \in Nat
  BY InitSizesAssumption
<1>3. q = [i \in 1 .. k |-> Nil] /\ last = -1 /\ ptr = 0
  BY <1>1 DEF NewLifoQ
<1>4. q \in Seq(Slots) /\ Len(q) = k
  BY <1>2, <1>3 DEF Slots
<1>5. mixed = FALSE /\ stack = <<>> /\ reading = {} /\ pushed = 0
  BY DEF LifoInit
<1>6. stack \in Seq(Slots) /\ Len(stack) = 0
  BY <1>5
<1> HIDE DEF k
<1>7. last \in Int /\ last >= -1 /\ last + 1 = 0 /\ 0 <= Len(q) /\ ptr \in Nat
  BY <1>2, <1>3, <1>4
<1>8. pushed \in Nat /\ mixed \in BOOLEAN /\ reading = {}
  BY <1>5
<1>9. \A i \in 1 .. last + 1 : q[i] = stack[i]
  BY <1>7
<1> QED BY <1>4, <1>6, <1>7, <1>8, <1>9 DEF LifoInv

\* Push keeps LifoInv: of a queue that was a stack it appends at the top.
LEMMA PushKeeps ==
  ASSUME LifoInv, NEW p \in Users, Push(p)
  PROVE  LifoInv'
<1> USE DEF LifoInv
<1>1. /\ pushed' = pushed + 1 /\ last' = last + 1
      /\ q' = Append(q, pushed + 1) /\ stack' = Append(stack, pushed + 1)
      /\ mixed' = (mixed \/ last + 1 # Len(q)) /\ ptr' = ptr /\ reading' = reading
  BY DEF Push
<1>2. pushed + 1 \in Slots
  BY DEF Slots
<1>3. /\ q' \in Seq(Slots) /\ Len(q') = Len(q) + 1
      /\ stack' \in Seq(Slots) /\ Len(stack') = Len(stack) + 1
  BY <1>1, <1>2
<1>4. ASSUME ~mixed', NEW i \in 1 .. last' + 1
      PROVE  q'[i] = stack'[i]
  <2>1. last + 1 = Len(q) /\ ~mixed
    BY <1>1, <1>4
  <2>2. CASE i = Len(q) + 1
    BY <1>1, <1>2, <2>1, <2>2
  <2>3. CASE i # Len(q) + 1
    <3>1. i \in 1 .. last + 1 /\ i \in 1 .. Len(q) /\ i \in 1 .. Len(stack)
      BY <1>1, <2>1, <2>3
    <3> QED BY <1>1, <1>2, <2>1, <3>1
  <2> QED BY <2>2, <2>3
<1>5. mixed' \in BOOLEAN
  BY <1>1
<1> QED BY <1>1, <1>3, <1>4, <1>5

\* So do the other steps.
LEMMA OthersKeep ==
  ASSUME LifoInv, NEW p \in Users, Pop(p) \/ PopRead(p) \/ Compact(p)
  PROVE  LifoInv'
<1> USE DEF LifoInv
<1>1. CASE Pop(p)
  <2>1. /\ ptr' = last /\ last' = last - 1 /\ last >= 0 /\ q' = q
        /\ stack' = SubSeq(stack, 1, Len(stack) - 1) /\ mixed' = mixed /\ pushed' = pushed
    BY <1>1 DEF Pop
  <2>2. stack' \in Seq(Slots) /\ Len(stack') = last
    BY <2>1
  <2>3. \A i \in 1 .. last : stack'[i] = stack[i]
    BY <2>1
  <2> QED BY <2>1, <2>2, <2>3
<1>2. CASE PopRead(p)
  BY <1>2 DEF PopRead
<1>3. CASE Compact(p)
  <2>1. /\ q' = [i \in DOMAIN q |-> IF i > last + 1 THEN Nil ELSE q[i]]
        /\ last' = last /\ ptr' = ptr /\ reading' = reading /\ stack' = stack
        /\ mixed' = mixed /\ pushed' = pushed
    BY <1>3 DEF Compact
  <2>2. DOMAIN q = 1 .. Len(q) /\ Len(q) \in Nat
    OBVIOUS
  <2>3. \A i \in 1 .. Len(q) : q[i] \in Slots /\ Nil \in Slots
    BY DEF Slots
  <2>4. q' \in Seq(Slots) /\ Len(q') = Len(q)
    BY <2>1, <2>2, <2>3
  <2>5. \A i \in 1 .. last + 1 : q'[i] = q[i]
    BY <2>1, <2>2
  <2> QED BY <2>1, <2>4, <2>5
<1> QED BY <1>1, <1>2, <1>3

\* LifoInv is inductive.
LEMMA LifoStepInv == LifoInv /\ [LifoNext]_lifoVars => LifoInv'
<1>1. ASSUME LifoInv, UNCHANGED lifoVars
      PROVE  LifoInv'
  BY <1>1 DEF lifoVars, LifoInv
<1> QED BY <1>1, PushKeeps, OthersKeep DEF LifoNext

\* Whatever other goroutines push, pop and compact between the unlock of Pop and
\* its read of q.q[q.ptr], the index is one of the slice.
THEOREM ReadsStayInRange == LifoSpec => []ReadInRange
<1>1. LifoInv => ReadInRange
  BY DEF LifoInv, ReadInRange
<1> QED BY LifoInitInv, LifoStepInv, <1>1, PTL DEF LifoSpec

\* As long as no Push has followed a Pop, the slots up to last are the stack.
THEOREM PushPhase == LifoSpec => []PushPhaseIsLifo
<1>1. ASSUME LifoInv, ~mixed
      PROVE  SubSeq(q, 1, last + 1) = stack
  <2>1. /\ SubSeq(q, 1, last + 1) \in Seq(Slots) /\ Len(SubSeq(q, 1, last + 1)) = last + 1
        /\ \A i \in 1 .. last + 1 : SubSeq(q, 1, last + 1)[i] = q[i]
    BY <1>1 DEF LifoInv
  <2> QED BY <1>1, <2>1 DEF LifoInv
<1>2. LifoInv => PushPhaseIsLifo
  BY <1>1 DEF PushPhaseIsLifo
<1> QED BY LifoInitInv, LifoStepInv, <1>2, PTL DEF LifoSpec

-----------------------------------------------------------------------------
(* RotFile_t: the counters and limits of a rotating file.                  *)

RotInv ==
  /\ curSize \in Nat /\ curLine \in Nat /\ bytes \in Nat /\ lines \in Nat
  /\ Bounded

\* A new file satisfies RotInv.
LEMMA RotInitInv == RotInit => RotInv
BY LimitsAssumption DEF RotInit, RotInv, Bounded, CountersCover

\* What WriteFile puts into a file that is not full keeps it within the limits.
LEMMA WriteKeeps ==
  ASSUME RotInv, NEW p \in Writers, NEW n \in Lengths, NEW m \in 0 .. n,
         NEW due \in BOOLEAN, NEW ok \in BOOLEAN, WriteFile(p, n, m, due, ok)
  PROVE  RotInv'
<1> USE LimitsAssumption
<1>1. n \in Nat /\ m \in Nat /\ m <= n
  OBVIOUS
<1>2. curSize' = curSize + n /\ curLine' = curLine + 1 /\ bytes' = bytes + m
  BY DEF WriteFile
<1>3. lines' = lines \/ lines' = lines + 1
  BY DEF WriteFile
<1>4. bytes <= curSize /\ lines <= curLine
  BY DEF RotInv, Bounded, CountersCover
<1>5. ~Full
  BY DEF WriteFile, MustOpen
<1>6. Size > 0 => bytes' < Size + n
  BY <1>1, <1>2, <1>4, <1>5 DEF Full, RotInv
<1>7. Line > 0 => lines' <= Line
  BY <1>3, <1>4, <1>5 DEF Full, RotInv
<1>8. CountersCover'
  BY <1>1, <1>2, <1>3, <1>4 DEF CountersCover, RotInv
<1>9. Bounded'
  BY <1>6, <1>7, <1>8 DEF Bounded
<1> QED BY <1>1, <1>2, <1>3, <1>9 DEF RotInv

\* Every step keeps RotInv.
LEMMA RotStepInv ==
  ASSUME RotInv, [RotNext]_rotVars
  PROVE  RotInv'
<1>1. CASE UNCHANGED <<curSize, curLine, bytes, lines>>
  BY <1>1 DEF RotInv, Bounded, CountersCover
<1>2. ASSUME NEW p \in Writers, CloseReset(p)
      PROVE  RotInv'
  BY <1>2, LimitsAssumption DEF CloseReset, RotInv, Bounded, CountersCover
<1>3. CASE RetryTime \/ UNCHANGED rotVars
  BY <1>1, <1>3 DEF RetryTime, rotVars, rotFile
<1>4. ASSUME NEW p \in Writers, WriteDummy(p) \/ CloseDone(p) \/ \E due \in BOOLEAN : WriteReopen(p, due)
      PROVE  RotInv'
  BY <1>1, <1>4 DEF WriteDummy, CloseDone, WriteReopen, rotVars, rotFile
<1> QED BY <1>2, <1>3, <1>4, WriteKeeps DEF RotNext

\* However the writes and closes of any number of goroutines and the errors of
\* writes interleave, Write's counters cover what the file holds, and no file
\* goes beyond its limits by more than the rest of one message.
THEOREM FileStaysBounded == RotSpec => []Bounded
<1>1. RotInv => Bounded
  BY DEF RotInv
<1>2. RotInv /\ [RotNext]_rotVars => RotInv'
  BY RotStepInv
<1> QED BY RotInitInv, <1>1, <1>2, PTL DEF RotSpec

-----------------------------------------------------------------------------
(* keyaes: one padded block.                                               *)

\* A message in a buffer of the right size ends with the length of its padding.
KeyInv ==
  /\ sealed \in [text : Nat, pack : Int, last : Int, zero : BOOLEAN]
  /\ sealed # NoMessage /\ sealed.pack = PackSize(sealed.text) =>
       sealed.last = PaddingSize(sealed.text)
  /\ OpensOneBlock

\* A padding has a length.
LEMMA PaddingIsInt ==
  ASSUME NEW n \in Nat
  PROVE  PaddingSize(n) \in Int
BY KeyAssumption DEF PaddingSize

\* A new AES satisfies KeyInv.
LEMMA KeyInitInv == KeyInit => KeyInv
BY DEF KeyInit, KeyInv, NoMessage, OpensOneBlock

\* Encrypt keeps KeyInv: a buffer that is longer makes the message longer.
LEMMA EncryptKeeps ==
  ASSUME KeyInv, NEW n \in Texts, NEW more \in Spare,
         NEW junk \in {0, Block + Block - SumLen}, Encrypt(n, more, junk)
  PROVE  KeyInv'
<1>1. CASE opened' = "panic" /\ sealed' = NoMessage
  BY <1>1 DEF KeyInv, NoMessage, OpensOneBlock
<1>2. CASE opened' = "sealed"
  <2>1. n \in Nat /\ more \in Nat /\ junk \in Int /\ SumLen \in Int
    BY KeyAssumption
  <2>2. PaddingSize(n) \in Int
    BY <2>1, PaddingIsInt
  <2>3. PackSize(n) \in Int
    BY <2>1, <2>2 DEF PackSize
  <2>4. PICK zero \in BOOLEAN :
          sealed' = [text |-> n, pack |-> PackSize(n) + more, zero |-> zero,
                     last |-> IF more = 0 THEN PaddingSize(n) ELSE junk]
    BY <1>2 DEF Encrypt
  <2>5. sealed'.text = n /\ sealed'.pack = PackSize(n) + more
    BY <2>4
  <2>6. more = 0 => sealed'.last = PaddingSize(n)
    BY <2>4
  <2>7. sealed' \in [text : Nat, pack : Int, last : Int, zero : BOOLEAN]
    BY <2>1, <2>2, <2>3, <2>4
  <2>8. PackSize(n) + more = PackSize(n) => more = 0
    BY <2>1, <2>3
  <2>9. OpensOneBlock'
    BY <1>2 DEF OpensOneBlock
  <2> QED BY <2>5, <2>6, <2>7, <2>8, <2>9 DEF KeyInv
<1> QED BY <1>1, <1>2 DEF Encrypt

\* So does Decrypt, which finds the end of the text by the last byte.
LEMMA DecryptKeeps ==
  ASSUME KeyInv, Decrypt
  PROVE  KeyInv'
<1>1. sealed' = sealed /\ sealed # NoMessage
  BY DEF Decrypt
<1>2. /\ sealed.text \in Nat /\ sealed.pack \in Int /\ sealed.last \in Int
      /\ SumLen \in Nat /\ Block \in Nat
  BY KeyAssumption DEF KeyInv
<1>3. OpensOneBlock'
  <2> SUFFICES ASSUME opened' \in {"plain", "error"}, ~sealed.zero,
                      sealed.text + SumLen <= Block, sealed.pack = PackSize(sealed.text)
               PROVE  opened' = "plain"
    BY <1>1 DEF OpensOneBlock
  <2>1. opened' = DecryptUnPack(sealed)
    BY DEF Decrypt
  <2>2. sealed.last = PaddingSize(sealed.text)
    BY <1>1 DEF KeyInv
  <2>3. sealed.pack = SumLen + sealed.text + sealed.last
    BY <2>2 DEF PackSize
  <2>4. Offset(sealed) = SumLen + sealed.text
    BY <1>2, <2>3 DEF Offset
  <2>5. UnPads(sealed)
    BY <1>2, <2>4 DEF UnPads
  <2> QED BY <2>1, <2>4, <2>5 DEF DecryptUnPack
<1> QED BY <1>1, <1>3 DEF KeyInv

\* KeyInv is inductive; the nonces and Close leave the message alone.
LEMMA KeyStepInv == KeyInv /\ [KeyNext]_keyVars => KeyInv'
<1>1. ASSUME KeyInv, UNCHANGED <<sealed, opened>>
      PROVE  KeyInv'
  BY <1>1 DEF KeyInv, OpensOneBlock
<1>2. UuidGen \/ UuidGenEnd \/ CloseKey \/ UNCHANGED keyVars => UNCHANGED <<sealed, opened>>
  BY DEF UuidGen, UuidGenEnd, CloseKey, keyVars
<1> QED BY <1>1, <1>2, EncryptKeeps, DecryptKeeps DEF KeyNext

\* Whatever nonces, Close and other messages come between, Decrypt gives back
\* a text that fits in one block with its checksum.
THEOREM OneBlockOpens == KeySpec => []OpensOneBlock
<1>1. KeyInv => OpensOneBlock
  BY DEF KeyInv
<1> QED BY KeyInitInv, KeyStepInv, <1>1, PTL DEF KeySpec

-----------------------------------------------------------------------------
(* Messages: what UnMarshal makes of what Marshal wrote.                   *)

\* The texts of messages and errors as they were made, and as they arrived.
Made == {[of |-> n, len |-> n] : n \in MsgTexts \ {0}}
Arrived == [of : Int, len : 0 .. Limit]

\* What Marshal returns ends in a text: a message without one fails.
StreamOK ==
  /\ stream \in [code : Codes \cup {0}, id : Ids \cup {0}, elen : Nat,
                 body : [of : Int, len : Nat], len : Nat]
  /\ stream.body.len \in 1 .. Limit
  /\ stream.elen = stream.body.len /\ stream.len = MsgHdrLen + stream.elen

TxOK == tx \in [code : Codes \cup {0}, id : Ids \cup {0},
                msg : Made \cup {NoText}, err : Made \cup {NilErr}]
RxOK == rx \in [code : Codes \cup {0}, id : Ids \cup {0},
                msg : Arrived, err : Arrived \cup {NilErr}]

MsgInv == TxOK /\ RxOK /\ (stream = NoStream \/ StreamOK) /\ MsgArrives

LEMMA LeastIs ==
  ASSUME NEW a \in Nat, NEW b \in Nat
  PROVE  /\ Least(a, b) \in Nat /\ Least(a, b) <= a /\ Least(a, b) <= b
         /\ a <= b => Least(a, b) = a
         /\ b <= a => Least(a, b) = b
BY DEF Least

LEMMA CutIs ==
  ASSUME NEW text \in [of : Int, len : Nat], NEW n \in Nat
  PROVE  /\ Cut(text, n) \in [of : Int, len : Nat]
         /\ Cut(text, n).len = Least(text.len, n)
         /\ text.len > 0 /\ text.len <= n => Cut(text, n) = text
         /\ Cut(text, n) = NoText <=> Least(text.len, n) = 0
<1>1. Least(text.len, n) \in Nat
  BY LeastIs
<1>2. CASE Least(text.len, n) = 0
  <2>1. Cut(text, n) = NoText
    BY <1>2 DEF Cut
  <2>2. ~(text.len > 0 /\ text.len <= n)
    BY <1>2, LeastIs
  <2> QED BY <1>2, <2>1, <2>2 DEF NoText
<1>3. CASE Least(text.len, n) # 0
  <2>1. Cut(text, n) = [text EXCEPT !.len = Least(text.len, n)]
    BY <1>3 DEF Cut
  <2>2. Cut(text, n) \in [of : Int, len : Nat] /\ Cut(text, n).len = Least(text.len, n)
    BY <1>1, <2>1
  <2>3. text.len <= n => Cut(text, n) = text
    <3> SUFFICES ASSUME text.len <= n PROVE Cut(text, n) = text
      OBVIOUS
    <3>1. Least(text.len, n) = text.len
      BY LeastIs
    <3> QED BY <2>1, <3>1
  <2>4. Cut(text, n) # NoText
    BY <1>3, <2>2 DEF NoText
  <2> QED BY <1>3, <2>2, <2>3, <2>4
<1> QED BY <1>2, <1>3

LEMMA WithTextIs ==
  ASSUME TxOK
  PROVE  /\ WithText(tx) \in [code : Codes \cup {0}, id : Ids \cup {0},
                              msg : Made \cup {NoText}, err : Made \cup {NilErr}]
         /\ WithText(tx).msg \in [of : Int, len : Nat]
<1>1. CASE tx.msg = NoText /\ tx.err # NilErr
  <2>1. tx.err \in Made
    BY <1>1 DEF TxOK
  <2>2. WithText(tx) = [tx EXCEPT !.msg = tx.err]
    BY <1>1 DEF WithText
  <2>3. tx.err \in [of : Int, len : Nat]
    BY <2>1, MessagesAssumption DEF Made
  <2> QED BY <2>1, <2>2, <2>3 DEF TxOK
<1>2. CASE ~(tx.msg = NoText /\ tx.err # NilErr)
  <2>1. WithText(tx) = tx
    BY <1>2 DEF WithText
  <2>2. tx.msg \in [of : Int, len : Nat]
    BY MessagesAssumption DEF TxOK, Made, NoText
  <2> QED BY <2>1, <2>2 DEF TxOK
<1> QED BY <1>1, <1>2

\* Marshal fails without a text, so what it returns has one.
LEMMA MarshalledOK ==
  ASSUME TxOK, ~MarshalFails(tx), stream' = Marshalled(tx)
  PROVE  StreamOK'
<1> DEFINE text == WithText(tx).msg
           n == Least(text.len, Limit)
           body == Cut(text, Limit)
<1>1. text \in [of : Int, len : Nat] /\ Limit \in Nat /\ MsgHdrLen \in Nat /\ LenSize \in Nat
  BY WithTextIs, MessagesAssumption
<1>2. n \in Nat /\ n <= Limit
  BY <1>1, LeastIs
<1>3. n > 0
  <2>1. ~(((MsgHdrLen + n) - MsgHdrLen) + LenSize <= LenSize)
    BY DEF MarshalFails, MarshalSize, BrwWrite
  <2> QED BY <1>1, <1>2, <2>1
<1>4. body \in [of : Int, len : Nat] /\ body.len = n
  BY <1>1, CutIs
<1>5. stream' = [code |-> tx.code, id |-> tx.id, elen |-> body.len, body |-> body,
                 len |-> MsgHdrLen + n]
  BY DEF Marshalled, MarshalSize
<1>6. tx.code \in Codes \cup {0} /\ tx.id \in Ids \cup {0}
  BY DEF TxOK
<1> HIDE DEF body, n
<1> QED BY <1>1, <1>2, <1>3, <1>4, <1>5, <1>6 DEF StreamOK

\* A header and all of a text give the text, a part of it its beginning, at any
\* point and whatever the CMsg held before.
LEMMA UnMarshalKeeps ==
  ASSUME MsgInv, NEW n \in Nat, UnMarshal(n)
  PROVE  RxOK' /\ MsgArrives'
<1>1. StreamOK /\ n <= stream.len
  BY DEF MsgInv, UnMarshal
<1>2. stream' = stream
  BY DEF UnMarshal
<1>3. CASE n < MsgHdrLen
  <2>1. rx' = rx /\ msgOut' = [op |-> "too few", n |-> n]
    BY <1>3 DEF UnMarshal, Does
  <2> QED BY <2>1 DEF MsgInv, RxOK, MsgArrives
<1>4. CASE ~(n < MsgHdrLen)
  <2> DEFINE have == n - MsgHdrLen
             text == Cut(stream.body, have)
  <2>1. /\ have \in Nat /\ Limit \in Nat /\ stream.elen \in Nat /\ stream.elen <= Limit
        /\ stream.body \in [of : Int, len : Nat] /\ stream.elen = stream.body.len
        /\ stream.elen > 0
    BY <1>1, <1>4, MessagesAssumption DEF StreamOK
  <2>2. Cut(stream.body, TextLen(stream.elen, have)) = text
    <3>1. CASE stream.elen > have
      BY <3>1 DEF TextLen
    <3>2. CASE stream.elen <= have
      <4>1. TextLen(stream.elen, have) = stream.elen
        BY <2>1, <3>2, LeastIs DEF TextLen
      <4>2. \A k \in Nat : stream.elen <= k => Cut(stream.body, k) = stream.body
        BY <2>1, CutIs
      <4> QED BY <2>1, <3>2, <4>1, <4>2
    <3> QED BY <2>1, <3>1, <3>2
  <2>3. text \in Arrived
    <3>1. text \in [of : Int, len : Nat] /\ text.len = Least(stream.body.len, have)
      BY <2>1, CutIs
    <3>2. Least(stream.body.len, have) \in 0 .. Limit
      BY <2>1, LeastIs
    <3> HIDE DEF text
    <3> QED BY <3>1, <3>2 DEF Arrived
  <2> DEFINE filled == [rx EXCEPT !.code = stream.code, !.id = stream.id]
             err == IF text = NoText THEN NilErr ELSE text
  <2>4. rx' = [filled EXCEPT !.msg = text, !.err = err] /\ msgOut' = [op |-> "unmarshal", n |-> n]
    <3>1. rx' = UnMarshalled(rx, stream, n) /\ Does("unmarshal", n)
      BY <1>4 DEF UnMarshal
    <3> QED BY <2>2, <3>1 DEF UnMarshalled, Does
  <2>5. stream.code \in Codes \cup {0} /\ stream.id \in Ids \cup {0}
    BY <1>1 DEF StreamOK
  <2>6. n = stream.len => text # NoText
    <3> SUFFICES ASSUME n = stream.len PROVE text # NoText
      OBVIOUS
    <3>1. have = stream.body.len
      BY <1>1, <2>1, MessagesAssumption DEF StreamOK
    <3>2. Least(stream.body.len, have) = stream.body.len
      BY <2>1, <3>1, LeastIs
    <3>3. text = NoText <=> Least(stream.body.len, have) = 0
      BY <2>1, CutIs
    <3>4. Least(stream.body.len, have) # 0
      BY <2>1, <3>2
    <3> QED BY <3>3, <3>4
  <2> HIDE DEF text
  <2>7. /\ RxOK' /\ rx'.code = stream.code /\ rx'.id = stream.id /\ rx'.msg = text
        /\ rx'.err = (IF text = NoText THEN NilErr ELSE text)
    BY <2>3, <2>4, <2>5 DEF MsgInv, RxOK
  <2>8. msgOut'.n = n
    BY <2>4
  <2>9. MsgArrives'
    BY <1>2, <2>6, <2>7, <2>8 DEF MsgArrives, text
  <2> QED BY <2>7, <2>9
<1> QED BY <1>3, <1>4

LEMMA MsgInitInv == MsgInit => MsgInv
BY MessagesAssumption
   DEF MsgInit, MsgInv, TxOK, RxOK, Arrived, MsgArrives, NewMsg, NoText

LEMMA MsgStepInv == MsgInv /\ [MsgNext]_msgVars => MsgInv'
<1> SUFFICES ASSUME MsgInv, [MsgNext]_msgVars PROVE MsgInv'
  OBVIOUS
<1>1. ASSUME NEW op \in {"none", "make", "marshal", "marshal failed", "read", "differ", "panic",
                         "equal", "header", "deliver", "header too short", "invalid",
                         "unmarshal header"}, NEW n, Does(op, n)
      PROVE  MsgArrives'
  BY <1>1 DEF Does, MsgArrives
<1>2. CASE MakeMsg
  <2>1. rx' = rx /\ stream' = stream /\ MsgArrives'
    BY <1>1, <1>2 DEF MakeMsg
  <2>2. TxOK'
    <3>1. PICK c \in Codes, i \in Ids, n \in MsgTexts, text \in {"msg", "err"} :
            tx' = IF n = 0 THEN [NewMsg EXCEPT !.code = c, !.id = i]
                  ELSE [NewMsg EXCEPT !.code = c, !.id = i, ![text] = [of |-> n, len |-> n]]
      BY <1>2 DEF MakeMsg
    <3>2. n # 0 => [of |-> n, len |-> n] \in Made
      BY DEF Made
    <3>3. CASE n = 0
      BY <3>1, <3>3 DEF TxOK, NewMsg
    <3>4. CASE n # 0 /\ text = "msg"
      BY <3>1, <3>2, <3>4 DEF TxOK, NewMsg
    <3>5. CASE n # 0 /\ text = "err"
      BY <3>1, <3>2, <3>5 DEF TxOK, NewMsg
    <3> QED BY <3>3, <3>4, <3>5
  <2> QED BY <2>1, <2>2 DEF MsgInv, RxOK, StreamOK
<1>3. CASE Marshal
  <2>1. rx' = rx /\ tx' = WithText(tx) /\ MsgArrives'
    BY <1>1, <1>3 DEF Marshal
  <2>2. TxOK'
    BY <2>1, WithTextIs DEF MsgInv, TxOK
  <2>3. stream' = NoStream \/ StreamOK'
    <3>1. stream' = stream \/ (~MarshalFails(tx) /\ stream' = Marshalled(tx))
      BY <1>3 DEF Marshal
    <3> QED BY <3>1, MarshalledOK DEF MsgInv, StreamOK
  <2> QED BY <2>1, <2>2, <2>3 DEF MsgInv, RxOK
<1>4. ASSUME NEW n \in Nat, ReadMsg(n) PROVE MsgInv'
  <2>1. rx' = rx /\ stream' = stream /\ tx' = WithText(tx) /\ MsgArrives'
    BY <1>1, <1>4 DEF ReadMsg
  <2>2. TxOK'
    BY <2>1, WithTextIs DEF MsgInv, TxOK
  <2> QED BY <2>1, <2>2 DEF MsgInv, RxOK, StreamOK
<1>5. ASSUME NEW n \in Nat, UnMarshal(n) PROVE MsgInv'
  <2>1. tx' = tx /\ stream' = stream
    BY <1>5 DEF UnMarshal
  <2> QED BY <1>5, <2>1, UnMarshalKeeps DEF MsgInv, TxOK, StreamOK
<1>6. CASE EqualMsg \/ MarshalHeader \/ DeliverHeader \/ UnMarshalHeader
  <2>1. tx' = tx /\ rx' = rx /\ stream' = stream
    BY <1>6 DEF EqualMsg, MarshalHeader, DeliverHeader, UnMarshalHeader
  <2>2. MsgArrives'
    <3>1. CASE EqualMsg
      BY <1>1, <3>1 DEF EqualMsg
    <3>2. CASE MarshalHeader \/ DeliverHeader
      BY <1>1, <3>2 DEF MarshalHeader, DeliverHeader
    <3>3. CASE UnMarshalHeader
      BY <1>1, <3>3 DEF UnMarshalHeader
    <3> QED BY <1>6, <3>1, <3>2, <3>3
  <2> QED BY <2>1, <2>2 DEF MsgInv, TxOK, RxOK, StreamOK
<1>7. CASE UNCHANGED msgVars
  BY <1>7 DEF msgVars, MsgInv, TxOK, RxOK, StreamOK, MsgArrives
<1>8. 0 .. MsgHdrLen + Limit \subseteq Nat
  BY MessagesAssumption
<1> QED BY <1>2, <1>3, <1>4, <1>5, <1>6, <1>7, <1>8 DEF MsgNext

\* Used again and again, with streams cut anywhere, the receiving CMsg holds
\* after UnMarshal what was marshalled last, as far as it arrived.
THEOREM MessagesArrive == MsgSpec => []MsgArrives
<1>1. MsgInv => MsgArrives
  BY DEF MsgInv
<1> QED BY <1>1, MsgInitInv, MsgStepInv, PTL DEF MsgSpec

-----------------------------------------------------------------------------
(* TCPFilter: the stream, for pieces and addresses of any length, and the  *)
(* reader that waits for the dial.                                         *)

SocketEnds ==
  [state : {"UNSET", "RESET", "SENDHEADER", "SENDWAITIO", "SENDBODY"},
   rw : BOOLEAN, left : Nat]
Buffers ==
  [state : {"UNSET", "RESET", "FILLHEADER", "FILLINFO", "FMTINFO", "FILLTAIL", "FILLBODY"},
   len : Nat, ptr : Nat, rw : BOOLEAN]

Shapes ==
  /\ info \in [len : Nat, good : BOOLEAN] /\ in \in SocketEnds /\ out \in Buffers
  /\ ioready \in Nat /\ taken \in Nat /\ passed \in Nat
  /\ fclosed \in {"no", "closing", "done"}
  /\ aesOpen \in BOOLEAN /\ writing \in BOOLEAN /\ fpanic \in BOOLEAN

\* Until the address is complete the buffer is the stream, and nothing has
\* gone further.
Filling ==
  out.state \in {"RESET", "FILLHEADER", "FILLINFO"} =>
    out.len = taken /\ passed = 0 /\ ~out.rw /\ ~writing

\* A complete address ends where the body begins; only the Write that dials
\* has a connection.
Addressed ==
  out.state = "FMTINFO" =>
    /\ out.len = taken /\ passed = 0
    /\ out.ptr = Header /\ out.ptr <= out.len
    /\ (out.rw => writing) /\ (writing => out.rw)

\* After the dial the pointer says what has been passed of the buffer, and
\* when all of it has, bytes are passed as they come.
Dialed ==
  out.state \in {"FILLTAIL", "FILLBODY"} =>
    /\ out.rw /\ ~writing
    /\ out.state = "FILLTAIL" => taken = out.len /\ passed = out.ptr - Header
    /\ out.state = "FILLBODY" => out.ptr = out.len /\ passed = taken - Header

\* Close closes the AES first, and only Close unsets a state.
ClosesOnce ==
  /\ fclosed # "no" => ~aesOpen
  /\ out.state = "UNSET" \/ in.state = "UNSET" => fclosed = "done"

FilterInv ==
  /\ Shapes /\ ClosesOnce /\ ReaderWoken
  /\ fclosed # "done" => Filling /\ Addressed /\ Dialed

\* The invariant holds of a new filter.
LEMMA FilterInitInv == FilterInit => FilterInv
<1> SUFFICES ASSUME FilterInit PROVE FilterInv
  OBVIOUS
<1> USE FilterAssumption DEF FilterInit
<1>1. Shapes
  <2>1. PICK l \in InfoLens, g \in BOOLEAN : info = [len |-> l, good |-> g]
    OBVIOUS
  <2>2. l \in Nat /\ info.len = l /\ info \in [len : Nat, good : BOOLEAN]
    BY <2>1
  <2>3. PICK h \in Nat : h = PrefixLen + l
    BY <2>2
  <2>4. in \in SocketEnds
    <3>1. PICK k \in Nat, s \in {"RESET", "SENDHEADER"} : in = [state |-> s, rw |-> FALSE, left |-> k]
      <4>1. CASE in = [state |-> "RESET", rw |-> FALSE, left |-> 0]
        BY <4>1
      <4>2. CASE in = [state |-> "SENDHEADER", rw |-> FALSE, left |-> h]
        BY <4>2
      <4> QED BY <2>2, <2>3, <4>1, <4>2
    <3> QED BY <3>1 DEF SocketEnds
  <2>5. out \in Buffers
    BY DEF Buffers
  <2> QED BY <2>2, <2>4, <2>5 DEF Shapes
<1>2. ClosesOnce /\ ReaderWoken
  BY DEF ClosesOnce, ReaderWoken
<1>3. Filling /\ Addressed /\ Dialed
  BY DEF Filling, Addressed, Dialed
<1> QED BY <1>1, <1>2, <1>3 DEF FilterInv

\* FmtInfo of a buffer with a complete address keeps the invariant, whether
\* the address decrypts and the dial succeeds or not.
LEMMA FmtKeeps ==
  ASSUME FilterInv, ~writing, NEW o \in Buffers, FmtInfo(o),
         o.state \in {"FILLHEADER", "FILLINFO", "FMTINFO"}, ~o.rw,
         o.len = taken', o.ptr = Header, o.ptr <= o.len, taken' \in Nat,
         fclosed # "done", passed = 0,
         UNCHANGED <<info, ioready, fclosed, aesOpen, passed>>
  PROVE  FilterInv'
<1> USE DEF FilterInv
<1>0. Header' = Header /\ Header \in Nat
  BY FilterAssumption DEF Header, Shapes
<1>1. CASE ~aesOpen
  <2>1. out' = o /\ in' = in /\ writing' = writing /\ fpanic' = TRUE
    BY <1>1 DEF FmtInfo
  <2>2. Shapes'
    BY <1>1, <2>1 DEF Shapes
  <2>3. ClosesOnce' /\ ReaderWoken'
    BY <1>1, <2>1 DEF ClosesOnce, ReaderWoken
  <2>4. fclosed' # "done" => Filling' /\ Addressed' /\ Dialed'
    BY <1>0, <2>1 DEF Filling, Addressed, Dialed
  <2> QED BY <2>2, <2>3, <2>4
<1>2. ASSUME aesOpen, out' = [o EXCEPT !.state = "FMTINFO"],
             UNCHANGED <<in, writing, fpanic>>
      PROVE  FilterInv'
  <2>1. out' \in Buffers /\ out'.state = "FMTINFO" /\ out'.len = o.len /\ out'.ptr = o.ptr /\ out'.rw = o.rw
    BY <1>2 DEF Buffers
  <2>2. Shapes'
    BY <1>2, <2>1 DEF Shapes
  <2>3. ClosesOnce' /\ ReaderWoken'
    BY <1>2, <2>1 DEF ClosesOnce, ReaderWoken
  <2>4. fclosed' # "done" => Filling' /\ Addressed' /\ Dialed'
    BY <1>0, <1>2, <2>1 DEF Filling, Addressed, Dialed
  <2> QED BY <2>2, <2>3, <2>4
<1>3. ASSUME aesOpen, out' = [o EXCEPT !.state = "FMTINFO", !.rw = TRUE],
             in' = [in EXCEPT !.rw = TRUE], writing' = TRUE, UNCHANGED fpanic
      PROVE  FilterInv'
  <2>1. out' \in Buffers /\ out'.state = "FMTINFO" /\ out'.len = o.len /\ out'.ptr = o.ptr /\ out'.rw
    BY <1>3 DEF Buffers
  <2>2. in' \in SocketEnds /\ in'.state = in.state /\ in'.rw
    BY <1>3 DEF Shapes, SocketEnds
  <2>3. Shapes'
    BY <1>3, <2>1, <2>2 DEF Shapes
  <2>4. ClosesOnce' /\ ReaderWoken'
    BY <1>3, <2>1, <2>2 DEF ClosesOnce, ReaderWoken
  <2>5. fclosed' # "done" => Filling' /\ Addressed' /\ Dialed'
    BY <1>0, <1>3, <2>1 DEF Filling, Addressed, Dialed
  <2> QED BY <2>3, <2>4, <2>5
<1> QED BY <1>1, <1>2, <1>3 DEF FmtInfo, Shapes

\* The bytes of the prefix and of the address are kept in the buffer.
LEMMA HeaderKeeps ==
  ASSUME FilterInv, NEW n \in Pieces, WriteHeader(n)
  PROVE  FilterInv'
<1> USE FilterAssumption DEF FilterInv
<1> DEFINE o == [out EXCEPT !.state = IF @ = "RESET" THEN "FILLHEADER" ELSE @, !.len = @ + n]
<1> DEFINE p == [o EXCEPT !.ptr = InfoEnd]
<1>1. /\ ~writing /\ out.state \in {"RESET", "FILLHEADER", "FILLINFO"}
      /\ Take(n, o) /\ UNCHANGED <<info, ioready, fclosed, aesOpen, passed>>
      /\ n \in Nat /\ taken' = taken + n
  BY DEF WriteHeader, Writable, Take
<1>2. o \in Buffers /\ o.state \in {"FILLHEADER", "FILLINFO"} /\ o.len = out.len + n /\ o.rw = out.rw
  <2>1. out \in Buffers
    BY DEF Shapes
  <2>2. PICK s \in {"FILLHEADER", "FILLINFO"} : o = [out EXCEPT !.state = s, !.len = @ + n]
    <3>1. CASE out.state = "RESET"
      BY <3>1
    <3>2. CASE out.state \in {"FILLHEADER", "FILLINFO"}
      BY <3>2
    <3> QED BY <1>1, <3>1, <3>2
  <2>3. PICK l \in Nat : l = out.len + n
    BY <1>1, <2>1 DEF Buffers
  <2> HIDE DEF o
  <2>4. o = [out EXCEPT !.state = s, !.len = l]
    BY <2>2, <2>3
  <2>5. o \in Buffers /\ o.state = s /\ o.len = l /\ o.rw = out.rw
    BY <2>1, <2>4 DEF Buffers
  <2> QED BY <2>3, <2>5
<1>3. Header \in Nat
  BY DEF Shapes, Header
<1>4. p \in Buffers /\ p.state = o.state /\ p.len = o.len /\ p.rw = o.rw /\ p.ptr = Header
  BY <1>2, <1>3 DEF Buffers, InfoEnd
<1> HIDE DEF o, p
<1>5. ASSUME out' = o \/ out' = [p EXCEPT !.state = "FILLINFO"], UNCHANGED <<in, writing, fpanic>>
      PROVE  FilterInv'
  <2>1. /\ out' \in Buffers /\ out'.state \in {"FILLHEADER", "FILLINFO"}
        /\ out'.len = out.len + n /\ out'.rw = out.rw
    BY <1>2, <1>4, <1>5 DEF Buffers
  <2> QED BY <1>1, <1>5, <2>1 DEF Shapes, ClosesOnce, ReaderWoken, Filling, Addressed, Dialed
<1>6. ASSUME p.len >= p.ptr, FmtInfo(p)
      PROVE  FilterInv'
  <2>1. CASE fclosed # "done"
    <3>1. p.len = taken' /\ passed = 0 /\ ~p.rw /\ p.ptr <= p.len /\ taken' \in Nat
      BY <1>1, <1>2, <1>4, <1>6, <2>1 DEF Filling, Shapes
    <3> QED BY <1>1, <1>2, <1>4, <1>6, <2>1, <3>1, FmtKeeps
  <2>2. CASE fclosed = "done"
    <3>1. ~aesOpen
      BY <2>2 DEF ClosesOnce
    <3>2. out' = p /\ in' = in /\ writing' = writing /\ fpanic' = TRUE
      BY <1>6, <3>1 DEF FmtInfo
    <3> QED BY <1>1, <1>2, <1>4, <2>2, <3>1, <3>2 DEF Shapes, ClosesOnce, ReaderWoken
  <2> QED BY <2>1, <2>2
<1>7. \/ (out' = o \/ out' = [p EXCEPT !.state = "FILLINFO"]) /\ UNCHANGED <<in, writing, fpanic>>
      \/ ~(p.len < p.ptr) /\ FmtInfo(p)
  BY <1>1 DEF Take, o, p
<1>8. p.len \in Nat /\ p.ptr \in Nat
  BY <1>4 DEF Buffers
<1> QED BY <1>5, <1>6, <1>7, <1>8

\* The other steps of Write.
LEMMA FilterWriteKeeps ==
  ASSUME FilterInv, WriteAgain \/ WakeReader \/ WriteTail \/ WriteUnset
  PROVE  FilterInv'
<1> USE FilterAssumption DEF FilterInv
<1>0. Header \in Nat /\ out \in Buffers /\ in \in SocketEnds
  BY DEF Shapes, Header
<1>1. CASE WriteAgain
  <2>1. /\ ~writing /\ out.state = "FMTINFO" /\ FmtInfo(out)
        /\ UNCHANGED <<info, ioready, fclosed, aesOpen, taken, passed>>
    BY <1>1 DEF WriteAgain, Writable
  <2>2. CASE fclosed # "done"
    <3>1. out.len = taken' /\ out.ptr = Header /\ out.ptr <= out.len /\ passed = 0 /\ ~out.rw /\ taken' \in Nat
      BY <2>1, <2>2 DEF Addressed, Shapes
    <3> QED BY <1>0, <2>1, <2>2, <3>1, FmtKeeps
  <2>3. CASE fclosed = "done"
    <3>1. ~aesOpen
      BY <2>3 DEF ClosesOnce
    <3>2. out' = out /\ in' = in /\ writing' = writing /\ fpanic' = TRUE
      BY <2>1, <3>1 DEF FmtInfo
    <3> QED BY <2>1, <2>3, <3>1, <3>2 DEF Shapes, ClosesOnce, ReaderWoken
  <2> QED BY <2>2, <2>3
<1>2. CASE WakeReader
  <2>1. /\ writing /\ ioready' = ioready + 1 /\ writing' = FALSE
        /\ UNCHANGED <<info, fclosed, aesOpen, taken, passed, fpanic>>
    BY <1>2 DEF WakeReader
  <2>2. PICK now \in {"SENDWAITIO"} \cup ({in.state} \cap {"SENDHEADER"}) : in' = [in EXCEPT !.state = now]
    BY <1>2 DEF WakeReader
  <2>3. in' \in SocketEnds /\ in'.state \in {"SENDWAITIO", "SENDHEADER"} /\ in'.rw = in.rw
    BY <1>0, <2>2 DEF SocketEnds
  <2>4. out' = [out EXCEPT !.state = IF out.len = out.ptr THEN "FILLBODY" ELSE "FILLTAIL"]
    BY <1>2 DEF WakeReader
  <2>5. /\ out' \in Buffers /\ out'.len = out.len /\ out'.ptr = out.ptr /\ out'.rw = out.rw
        /\ out'.state = IF out.len = out.ptr THEN "FILLBODY" ELSE "FILLTAIL"
    BY <1>0, <2>4 DEF Buffers
  <2>6. Shapes' /\ ClosesOnce' /\ ReaderWoken'
    <3>1. out'.state # "UNSET" /\ in'.state # "UNSET"
      BY <2>3, <2>5
    <3>2. Shapes'
      <4>1. in' \in SocketEnds /\ out' \in Buffers /\ ioready' \in Nat
        BY <2>1, <2>3, <2>5 DEF Shapes
      <4> QED BY <2>1, <4>1 DEF Shapes
    <3>3. ClosesOnce'
      BY <2>1, <3>1 DEF ClosesOnce
    <3>4. ReaderWoken'
      BY <2>1, <2>3 DEF ReaderWoken, Shapes
    <3> QED BY <3>2, <3>3, <3>4
  <2>7. ASSUME fclosed # "done" PROVE Filling' /\ Addressed' /\ Dialed'
    <3>1. out.state = "FMTINFO"
      BY <1>0, <2>1, <2>7 DEF Filling, Dialed, ClosesOnce, Buffers, Shapes
    <3> QED BY <1>0, <2>1, <2>5, <2>7, <3>1 DEF Filling, Addressed, Dialed, Header, Shapes, Buffers
  <2> QED BY <2>1, <2>6, <2>7
<1>3. CASE WriteTail
  <2>1. /\ out.state = "FILLTAIL"
        /\ UNCHANGED <<info, in, ioready, fclosed, aesOpen, writing, taken>>
    BY <1>3 DEF WriteTail
  <2>2. CASE ~out.rw
    <3>1. out' = out /\ passed' = passed /\ fpanic' = TRUE
      BY <1>3, <2>2 DEF WriteTail
    <3> QED BY <2>1, <2>2, <3>1 DEF Shapes, ClosesOnce, ReaderWoken, Filling, Addressed, Dialed
  <2>3. CASE out.rw
    <3>1. PICK nw \in 0 .. out.len - out.ptr :
            /\ passed' = passed + nw
            /\ out' = [out EXCEPT !.ptr = @ + nw,
                                  !.state = IF out.ptr + nw = out.len THEN "FILLBODY" ELSE @]
            /\ UNCHANGED fpanic
      BY <1>3, <2>3 DEF WriteTail
    <3>2. nw \in Nat /\ passed' \in Nat
      BY <1>0, <3>1 DEF Buffers, Shapes
    <3>3. /\ out' \in Buffers /\ out'.len = out.len /\ out'.ptr = out.ptr + nw /\ out'.rw = out.rw
          /\ out'.state = IF out.ptr + nw = out.len THEN "FILLBODY" ELSE "FILLTAIL"
      <4>1. PICK k \in Nat : k = out.ptr + nw
        BY <1>0, <3>2 DEF Buffers
      <4>2. PICK s \in {"FILLTAIL", "FILLBODY"} :
              /\ s = IF out.ptr + nw = out.len THEN "FILLBODY" ELSE "FILLTAIL"
              /\ out' = [out EXCEPT !.ptr = k, !.state = s]
        BY <2>1, <3>1, <4>1
      <4>3. out' \in Buffers /\ out'.len = out.len /\ out'.ptr = k /\ out'.rw = out.rw /\ out'.state = s
        BY <1>0, <4>2 DEF Buffers
      <4> QED BY <4>1, <4>2, <4>3
    <3>4. Shapes' /\ ClosesOnce' /\ ReaderWoken'
      BY <2>1, <3>1, <3>2, <3>3 DEF Shapes, ClosesOnce, ReaderWoken
    <3>5. ASSUME fclosed # "done" PROVE Filling' /\ Addressed' /\ Dialed'
      BY <1>0, <2>1, <2>3, <3>1, <3>2, <3>3, <3>5 DEF Filling, Addressed, Dialed, Header, Shapes, Buffers
    <3> QED BY <2>1, <3>4, <3>5
  <2> QED BY <1>0, <2>2, <2>3 DEF Buffers
<1>4. CASE WriteUnset
  BY <1>4 DEF WriteUnset, Shapes, ClosesOnce, ReaderWoken, Filling, Addressed, Dialed
<1> QED BY <1>1, <1>2, <1>3, <1>4

\* The body goes on as it comes.
LEMMA BodyKeeps ==
  ASSUME FilterInv, NEW n \in Pieces, WriteBody(n)
  PROVE  FilterInv'
<1> USE FilterAssumption DEF FilterInv
<1>1. /\ out.state = "FILLBODY"
      /\ UNCHANGED <<info, out, in, ioready, fclosed, aesOpen, writing>>
  BY DEF WriteBody
<1>2. CASE ~out.rw
  BY <1>1, <1>2 DEF WriteBody, Shapes, ClosesOnce, ReaderWoken, Filling, Addressed, Dialed
<1>3. CASE out.rw
  <2>1. PICK nw \in 0 .. n : passed' = passed + nw /\ taken' = taken + nw /\ UNCHANGED fpanic
    BY <1>3 DEF WriteBody
  <2>2. nw \in Nat /\ n \in Nat /\ Header \in Nat
    BY <2>1 DEF Shapes, Header
  <2> QED BY <1>1, <2>1, <2>2 DEF Shapes, ClosesOnce, ReaderWoken, Filling, Addressed, Dialed, Header
<1> QED BY <1>2, <1>3 DEF Shapes, Buffers

\* The steps of Read.
LEMMA ReadKeeps ==
  ASSUME FilterInv, ReadReset \/ (\E n \in Pieces : ReadHeader(n)) \/ ReadWait \/ ReadBroken
  PROVE  FilterInv'
<1> USE FilterAssumption DEF FilterInv
<1>0. in \in SocketEnds
  BY DEF Shapes
<1> SUFFICES /\ UNCHANGED <<info, out, fclosed, aesOpen, writing, taken, passed>>
             /\ ioready' \in Nat /\ in' \in SocketEnds /\ fpanic' \in BOOLEAN
             /\ ReaderWoken' /\ (in'.state = "UNSET" => in.state = "UNSET")
  BY DEF Shapes, ClosesOnce, Filling, Addressed, Dialed, Header
<1>1. CASE ReadReset
  <2>1. /\ in' \in SocketEnds /\ in'.rw = in.rw
        /\ in'.state = IF in.rw THEN "SENDHEADER" ELSE "SENDWAITIO"
    BY <1>0, <1>1 DEF ReadReset, SocketEnds
  <2> QED BY <1>1, <2>1 DEF ReadReset, Shapes, ReaderWoken
<1>2. CASE \E n \in Pieces : ReadHeader(n)
  <2>1. PICK n \in Pieces : ReadHeader(n)
    BY <1>2
  <2>2. n \in Nat /\ in.state = "SENDHEADER" /\ in.left \in Nat
    BY <1>0, <2>1 DEF ReadHeader, SocketEnds
  <2>3. /\ UNCHANGED <<info, out, ioready, fclosed, aesOpen, writing, taken, passed, fpanic>>
        /\ in' = [in EXCEPT !.left = IF n < @ THEN @ - n ELSE 0,
                            !.state = IF n < in.left THEN @ ELSE HeaderRead]
    BY <2>1 DEF ReadHeader
  <2>4. PICK k \in Nat, s \in {"SENDHEADER", HeaderRead} : in' = [in EXCEPT !.left = k, !.state = s]
    <3>1. CASE n < in.left
      <4>1. in.left - n \in Nat /\ in' = [in EXCEPT !.left = in.left - n, !.state = "SENDHEADER"]
        BY <2>2, <2>3, <3>1
      <4> QED BY <4>1
    <3>2. CASE ~(n < in.left)
      <4>1. in' = [in EXCEPT !.left = 0, !.state = HeaderRead]
        BY <2>3, <3>2
      <4> QED BY <4>1
    <3> QED BY <3>1, <3>2
  <2>5. s \in {"SENDHEADER", "SENDBODY", "SENDWAITIO"} /\ (s = "SENDBODY" => in.rw) /\ (s = "SENDWAITIO" => ~in.rw)
    BY DEF HeaderRead
  <2>6. in' \in SocketEnds /\ in'.rw = in.rw /\ in'.state = s
    BY <1>0, <2>4, <2>5 DEF SocketEnds
  <2> QED BY <2>3, <2>5, <2>6 DEF Shapes, ReaderWoken
<1>3. CASE ReadWait
  <2>1. /\ in' \in SocketEnds /\ in'.rw = in.rw
        /\ in'.state = IF in.rw THEN "SENDBODY" ELSE "SENDWAITIO"
    BY <1>0, <1>3 DEF ReadWait, SocketEnds
  <2> QED BY <1>3, <2>1 DEF ReadWait, Shapes, ReaderWoken
<1>4. CASE ReadBroken
  BY <1>0, <1>4 DEF ReadBroken, Shapes, ClosesOnce, ReaderWoken
<1> QED BY <1>1, <1>2, <1>3, <1>4

\* The steps of Close.
LEMMA CloseKeeps ==
  ASSUME FilterInv, CloseFilter \/ CloseStreams \/ CloseSibling
  PROVE  FilterInv'
<1> USE DEF FilterInv
<1>1. CASE CloseFilter
  BY <1>1 DEF CloseFilter, Shapes, ClosesOnce, ReaderWoken, Filling, Addressed, Dialed, Header
<1>2. CASE CloseStreams
  BY <1>2 DEF CloseStreams, Shapes, SocketEnds, Buffers, ClosesOnce, ReaderWoken
<1>3. CASE CloseSibling
  BY <1>3 DEF CloseSibling, Shapes, ClosesOnce, ReaderWoken, Filling, Addressed, Dialed, Header
<1> QED BY <1>1, <1>2, <1>3

\* The invariant is inductive.
LEMMA FilterStepInv == FilterInv /\ [FilterNext]_filterVars => FilterInv'
<1>1. ASSUME FilterInv, UNCHANGED filterVars
      PROVE  FilterInv'
  BY <1>1 DEF filterVars, FilterInv, Shapes, ClosesOnce, ReaderWoken, Filling, Addressed, Dialed, Header
<1> QED BY <1>1, HeaderKeeps, FilterWriteKeeps, BodyKeeps, ReadKeeps, CloseKeeps DEF FilterNext

\* However a stream of any length is cut into Writes, and however often
\* decrypting, dialing and writing fail in between, the bytes accepted beyond
\* the address are those the connection got and those still in the buffer.
THEOREM StreamIsWhole == FilterSpec => []BodyIsWhole
<1>1. FilterInv => BodyIsWhole
  <2> SUFFICES ASSUME FilterInv, fclosed # "done", ~writing,
                      out.state \in {"FMTINFO", "FILLTAIL", "FILLBODY"}
               PROVE  taken - Header = passed + IF out.rw THEN out.len - out.ptr ELSE out.len - Header
    BY DEF BodyIsWhole
  <2>1. Header \in Nat /\ out.len \in Nat /\ out.ptr \in Nat /\ taken \in Nat /\ passed \in Nat
    BY FilterAssumption DEF FilterInv, Shapes, Buffers, Header
  <2> QED BY <2>1 DEF FilterInv, Addressed, Dialed
<1> QED BY FilterInitInv, FilterStepInv, <1>1, PTL DEF FilterSpec

\* At whatever point of Read the dial of Write comes, a reader that waits for it
\* has a token, none reads before it, and nobody panics unless a filter of
\* the template was closed.
THEOREM DialWakesReader == FilterSpec => []ReaderWoken
<1>1. FilterInv => ReaderWoken
  BY DEF FilterInv
<1> QED BY FilterInitInv, FilterStepInv, <1>1, PTL DEF FilterSpec

-----------------------------------------------------------------------------
(* The connection counter of the server, for every set of connections,     *)
(* limit, channel and mode.                                                *)

Places == Ended \cup {"read", "spin", "refuse", "respond", "raw", "next", "close"}

\* What a handler may have left to send: its last word only when it is gone.
Todos(at) ==
  CASE at = "none" -> {<<>>}
    [] at = "gone" -> {<<>>, <<"destroyed">>}
    [] OTHER -> {<<>>, <<"request">>, <<"request", "keepalive">>, <<"keepalive">>, <<"response">>}

HandlersOK ==
  /\ arrived \subseteq Conns /\ IsFiniteSet(arrived)
  /\ qpc \in [Conns -> Places] /\ busy \in [Conns -> BOOLEAN]
  /\ todo \in [Conns -> UNION {Todos(p) : p \in Places}]
  /\ \A c \in Conns : todo[c] \in Todos(qpc[c])
  /\ \A c \in Conns \ arrived : qpc[c] = "none"
CounterOK ==
  /\ acceptor \in {"accept", "add", "check", "quit"}
  /\ events \in Seq(Counted) /\ status \in [Counted -> Nat]
  /\ conns \in Int /\ closing \in BOOLEAN


\* The handlers that owe the counter a "destroyed", and those that serve.
Owing == {c \in Conns : qpc[c] \notin {"none", "gone"} \/ todo[c] # <<>>}
Serving == {c \in Conns : qpc[c] \notin {"none", "gone"} /\ ~busy[c]}

SlotsInv == HandlersOK /\ CounterOK /\ SlotsAgree

Count(s, e) == Cardinality({i \in DOMAIN s : s[i] = e})

-----------------------------------------------------------------------------
(* How often an event is in a sequence, when one is added or taken off.    *)

LEMMA CountFinite ==
  ASSUME NEW s \in Seq(Counted), NEW e
  PROVE  IsFiniteSet({i \in DOMAIN s : s[i] = e}) /\ Count(s, e) \in Nat
<1> DEFINE P == {i \in DOMAIN s : s[i] = e}
<1>1. IsFiniteSet(1 .. Len(s)) /\ DOMAIN s = 1 .. Len(s)
  BY FS_Interval
<1>2. IsFiniteSet(P)
  <2>1. P \in SUBSET (1 .. Len(s))
    BY <1>1
  <2> QED BY <2>1, <1>1, FS_Subset
<1>3. Cardinality(P) \in Nat
  BY <1>2, FS_CardinalityType
<1> QED BY <1>2, <1>3 DEF Count

LEMMA CountAppend ==
  ASSUME NEW s \in Seq(Counted), NEW x \in Counted, NEW e
  PROVE  Count(Append(s, x), e) = Count(s, e) + One(x = e)
<1> DEFINE t == Append(s, x)
           P == {i \in DOMAIN s : s[i] = e}
           Q == {i \in DOMAIN t : t[i] = e}
           n == Len(s) + 1
<1>1. /\ DOMAIN s = 1 .. Len(s) /\ DOMAIN t = 1 .. n /\ Len(s) \in Nat
      /\ t[n] = x /\ \A i \in 1 .. Len(s) : t[i] = s[i]
  OBVIOUS
<1>2. IsFiniteSet(P) /\ Cardinality(P) \in Nat
  BY CountFinite DEF Count
<1>3. n \notin P
  BY <1>1
<1>4. CASE x = e
  <2>1. Q = P \cup {n}
    BY <1>1, <1>4
  <2>2. Cardinality(P \cup {n}) = Cardinality(P) + 1
    BY <1>2, <1>3, FS_AddElement
  <2> QED BY <2>1, <2>2, <1>4 DEF Count, One
<1>5. CASE x # e
  <2>1. Q = P
    BY <1>1, <1>5
  <2>2. Count(t, e) = Cardinality(Q) /\ Count(s, e) = Cardinality(P)
    BY DEF Count
  <2> HIDE DEF P, Q
  <2> QED BY <2>1, <2>2, <1>2, <1>5 DEF One
<1> QED BY <1>4, <1>5

LEMMA CountTail ==
  ASSUME NEW s \in Seq(Counted), s # <<>>, NEW e
  PROVE  Count(Tail(s), e) = Count(s, e) - One(Head(s) = e)
<1> DEFINE t == Tail(s)
           P == {i \in DOMAIN s : s[i] = e}
           Q == {i \in DOMAIN t : t[i] = e}
           R == P \ {1}
           up == [i \in Q |-> i + 1]
<1>1. /\ DOMAIN s = 1 .. Len(s) /\ Len(s) \in Nat \ {0} /\ Head(s) = s[1]
      /\ t \in Seq(Counted) /\ DOMAIN t = 1 .. Len(s) - 1
      /\ \A i \in 1 .. Len(s) - 1 : t[i] = s[i + 1]
  OBVIOUS
<1>2. IsFiniteSet(P) /\ Cardinality(P) \in Nat
  BY CountFinite DEF Count
<1>3. IsFiniteSet(Q) /\ Cardinality(Q) \in Nat
  BY <1>1, CountFinite DEF Count
<1>4. up \in Bijection(Q, R)
  <2>1. \A i \in Q : i \in 1 .. Len(s) - 1 /\ s[i + 1] = e
    BY <1>1
  <2>2. \A i \in Q : up[i] \in R
    BY <1>1, <2>1
  <2>3. \A a, b \in Q : up[a] = up[b] => a = b
    BY <2>1
  <2>4. \A j \in R : \E i \in Q : up[i] = j
    <3> SUFFICES ASSUME NEW j \in R PROVE \E i \in Q : up[i] = j
      OBVIOUS
    <3>1. j \in 2 .. Len(s) /\ s[j] = e
      BY <1>1
    <3>2. j - 1 \in 1 .. Len(s) - 1 /\ t[j - 1] = e
      BY <1>1, <3>1
    <3>3. j - 1 \in Q
      BY <1>1, <3>2
    <3> QED BY <3>1, <3>3
  <2>5. up \in [Q -> R]
    BY <2>2
  <2> QED BY <2>5, <2>3, <2>4, Fun_IsBij
<1>5. Cardinality(R) = Cardinality(Q)
  BY <1>3, <1>4, FS_Bijection, Fun_ExistsBij
<1>6. Cardinality(R) = IF 1 \in P THEN Cardinality(P) - 1 ELSE Cardinality(P)
  BY <1>2, FS_RemoveElement
<1>7. 1 \in P <=> Head(s) = e
  BY <1>1
<1>8. CASE Head(s) = e
  <2>1. One(Head(s) = e) = 1
    BY <1>8 DEF One
  <2> QED BY <2>1, <1>2, <1>5, <1>6, <1>7, <1>8 DEF Count
<1>9. CASE Head(s) # e
  <2>2. Count(t, e) = Cardinality(Q) /\ Count(s, e) = Cardinality(P)
    BY DEF Count
  <2>3. Cardinality(R) = Cardinality(P)
    BY <1>6, <1>7, <1>9
  <2> HIDE DEF P, Q, R
  <2> QED BY <2>2, <2>3, <1>2, <1>5, <1>9 DEF One
<1> QED BY <1>8, <1>9

-----------------------------------------------------------------------------
(* What the invariant says in these terms.                                 *)

Adding == One(acceptor = "add")
Checking == One(acceptor = "check")
ClosingOne == One(closing)

SlotsParts ==
  /\ conns = Cardinality(Owing) + Checking + Count(events, "destroyed")
  /\ conns = (status["init"] + Count(events, "init")) - (status["closed"] + Count(events, "closed"))
             - ClosingOne - Adding
  /\ Cardinality(Serving) <= MaxConn

LEMMA SlotsMeans == SlotsAgree <=> SlotsParts
<1>1. InChannel("destroyed") = Count(events, "destroyed")
  BY DEF InChannel, Count
<1>2. Sent("init") = status["init"] + Count(events, "init")
  BY DEF Sent, InChannel, Count
<1>3. Sent("closed") = status["closed"] + Count(events, "closed")
  BY DEF Sent, InChannel, Count
<1>4. /\ Owing = {c \in Conns : qpc[c] \notin {"none", "gone"} \/ todo[c] # <<>>}
      /\ Serving = {c \in Conns : qpc[c] \notin {"none", "gone"} /\ ~busy[c]}
  BY DEF Owing, Serving
<1> QED BY <1>1, <1>2, <1>3, <1>4 DEF SlotsAgree, SlotsParts, Adding, Checking, ClosingOne

LEMMA SameClosing ==
  /\ closing' = closing => ClosingOne' = ClosingOne
  /\ ClosingOne \in {0, 1}
<1>1. closing' = closing => ClosingOne' = ClosingOne
  BY Zenon DEF ClosingOne
<1>2. ClosingOne \in {0, 1}
  BY DEF ClosingOne, One
<1> QED BY <1>1, <1>2

LEMMA OwingFinite ==
  ASSUME HandlersOK
  PROVE  /\ IsFiniteSet(Owing) /\ Cardinality(Owing) \in Nat
         /\ IsFiniteSet(Serving) /\ Cardinality(Serving) \in Nat
         /\ Cardinality(Serving) <= Cardinality(Owing)
<1>1. Owing \in SUBSET arrived
  <2> SUFFICES ASSUME NEW c \in Conns \ arrived PROVE c \notin Owing
    BY DEF Owing
  <2>1. qpc[c] = "none" /\ todo[c] = <<>>
    BY DEF HandlersOK, Todos
  <2> QED BY <2>1 DEF Owing
<1>2. Serving \in SUBSET Owing
  BY DEF Serving, Owing
<1>3. IsFiniteSet(Owing) /\ Cardinality(Owing) \in Nat
  BY <1>1, FS_Subset, FS_CardinalityType DEF HandlersOK
<1>4. IsFiniteSet(Serving) /\ Cardinality(Serving) \in Nat
  BY <1>2, <1>3, FS_Subset, FS_CardinalityType
<1>5. Cardinality(Serving) <= Cardinality(Owing)
  BY <1>2, <1>3, FS_Subset
<1> QED BY <1>3, <1>4, <1>5

LEMMA Numbers ==
  ASSUME HandlersOK, CounterOK
  PROVE  /\ conns \in Int /\ status["init"] \in Nat /\ status["closed"] \in Nat
         /\ Count(events, "init") \in Nat /\ Count(events, "closed") \in Nat
         /\ Count(events, "destroyed") \in Nat
         /\ Cardinality(Owing) \in Nat /\ Cardinality(Serving) \in Nat
         /\ Cardinality(Serving) <= Cardinality(Owing)
         /\ Adding \in {0, 1} /\ Checking \in {0, 1} /\ ClosingOne \in {0, 1}
         /\ MaxConn \in Nat
<1>1. conns \in Int /\ status["init"] \in Nat /\ status["closed"] \in Nat
  BY DEF CounterOK, Counted
<1>2. \A e \in Counted : Count(events, e) \in Nat
  BY CountFinite DEF CounterOK
<1>3. Adding \in {0, 1} /\ Checking \in {0, 1}
  BY DEF Adding, Checking, One
<1> QED BY <1>1, <1>2, <1>3, SameClosing, OwingFinite, QpsAssumption DEF Counted

LEMMA SlotsInit == QpsInit => SlotsInv
<1> SUFFICES ASSUME QpsInit PROVE SlotsInv
  OBVIOUS
<1>1. IsFiniteSet({}) /\ Cardinality({}) = 0
  BY FS_EmptySet
<1>2. HandlersOK
  BY <1>1 DEF QpsInit, HandlersOK, Places, Ended, Todos
<1>3. CounterOK
  <2>1. status \in [Counted -> Nat]
    <3>1. status = [e \in Counted |-> 0]
      BY DEF QpsInit
    <3> QED BY <3>1
  <2>2. events \in Seq(Counted)
    <3>1. events = <<>>
      BY DEF QpsInit
    <3> QED BY <3>1
  <2>3. acceptor = "accept" /\ conns = 0
    BY DEF QpsInit
  <2>4. closing \in BOOLEAN
    BY DEF QpsInit
  <2>5. conns \in Int /\ acceptor \in {"accept", "add", "check", "quit"}
    BY <2>3
  <2> QED BY Zenon, <2>1, <2>2, <2>4, <2>5 DEF CounterOK
<1>4. Owing = {} /\ Serving = {}
  BY DEF QpsInit, Owing, Serving
<1>5. Count(events, "init") = 0 /\ Count(events, "closed") = 0 /\ Count(events, "destroyed") = 0
  BY <1>1 DEF QpsInit, Count
<1>6. SlotsParts
  <2>1. status["init"] = 0 /\ status["closed"] = 0 /\ closing = FALSE /\ acceptor = "accept" /\ conns = 0
    BY DEF QpsInit, Counted
  <2>2. Adding = 0 /\ Checking = 0 /\ ClosingOne = 0
    BY <2>1 DEF Adding, Checking, ClosingOne, One
  <2> QED BY <2>1, <2>2, <1>1, <1>4, <1>5, QpsAssumption DEF SlotsParts
<1> QED BY <1>2, <1>3, <1>6, SlotsMeans DEF SlotsInv

-----------------------------------------------------------------------------
(* One lemma for each step that changes a part of the sum.                 *)

\* What keeps the handlers and the owing connections as they are.
LEMMA SameHandlers ==
  ASSUME HandlersOK, UNCHANGED handler, arrived' = arrived
  PROVE  HandlersOK' /\ Owing' = Owing /\ Serving' = Serving
BY DEF HandlersOK, handler, Owing, Serving

LEMMA AcceptStep ==
  ASSUME SlotsInv, NEW c \in Conns, Accept(c) PROVE SlotsInv'
<1>1. HandlersOK /\ CounterOK /\ SlotsParts
  BY SlotsMeans DEF SlotsInv
<1>2. HandlersOK' /\ Owing' = Owing /\ Serving' = Serving
  <2>1. UNCHANGED handler /\ arrived' = arrived \cup {c}
    BY DEF Accept
  <2>2. IsFiniteSet(arrived \cup {c})
    BY <1>1, FS_AddElement DEF HandlersOK
  <2> QED BY <1>1, <2>1, <2>2 DEF HandlersOK, handler, Owing, Serving
<1>3. /\ events' = Append(events, "init") /\ acceptor = "accept" /\ acceptor' = "add"
      /\ conns' = conns /\ status' = status /\ closing' = closing
  BY DEF Accept
<1>4. CounterOK'
  BY <1>1, <1>3 DEF CounterOK, Counted
<1>5. \A e \in Counted : Count(events', e) = Count(events, e) + One("init" = e)
  BY <1>1, <1>3, CountAppend DEF CounterOK, Counted
<1>6. /\ Count(events', "init") = Count(events, "init") + 1
      /\ Count(events', "closed") = Count(events, "closed")
      /\ Count(events', "destroyed") = Count(events, "destroyed")
  BY <1>1, <1>5, Numbers DEF One, Counted
<1>7. /\ Adding' = 1 /\ Adding = 0 /\ Checking' = 0 /\ Checking = 0 /\ ClosingOne' = ClosingOne
      /\ Cardinality(Owing)' = Cardinality(Owing) /\ Cardinality(Serving)' = Cardinality(Serving)
  BY <1>2, <1>3, SameClosing DEF Adding, Checking, One
<1>8. SlotsParts'
  <2>1. conns' = conns /\ status' = status
    BY <1>3
  <2> QED BY <1>1, <1>6, <1>7, <2>1, Numbers DEF SlotsParts
<1> QED BY <1>2, <1>4, <1>8, SlotsMeans, PTL DEF SlotsInv

LEMMA AddStep ==
  ASSUME SlotsInv, AddConn PROVE SlotsInv'
<1>1. HandlersOK /\ CounterOK /\ SlotsParts
  BY SlotsMeans DEF SlotsInv
<1>2. HandlersOK' /\ Owing' = Owing /\ Serving' = Serving
  BY <1>1, SameHandlers DEF AddConn
<1>3. /\ acceptor = "add" /\ acceptor' = "check" /\ conns' = conns + 1
      /\ events' = events /\ status' = status /\ closing' = closing
  BY DEF AddConn
<1>4. CounterOK'
  BY <1>1, <1>3 DEF CounterOK
<1>5. /\ Adding = 1 /\ Adding' = 0 /\ Checking = 0 /\ Checking' = 1 /\ ClosingOne' = ClosingOne
      /\ Cardinality(Owing)' = Cardinality(Owing) /\ Cardinality(Serving)' = Cardinality(Serving)
  BY <1>2, <1>3, SameClosing DEF Adding, Checking, One
<1>6. SlotsParts'
  <2>1. conns' = conns + 1 /\ status' = status /\ events' = events
    BY <1>3
  <2> QED BY <1>1, <1>5, <2>1, Numbers DEF SlotsParts
<1> QED BY <1>2, <1>4, <1>6, SlotsMeans, PTL DEF SlotsInv

LEMMA ErrorStep ==
  ASSUME SlotsInv, AcceptError PROVE SlotsInv'
<1>1. HandlersOK /\ CounterOK /\ SlotsParts
  BY SlotsMeans DEF SlotsInv
<1>2. HandlersOK' /\ Owing' = Owing /\ Serving' = Serving
  BY <1>1, SameHandlers DEF AcceptError
<1>3. /\ acceptor = "accept" /\ acceptor' = "quit" /\ conns' = conns
      /\ events' = events /\ status' = status /\ closing' = closing
  BY DEF AcceptError
<1>4. CounterOK'
  BY <1>1, <1>3 DEF CounterOK
<1>5. /\ Adding = 0 /\ Adding' = 0 /\ Checking = 0 /\ Checking' = 0 /\ ClosingOne' = ClosingOne
      /\ Cardinality(Owing)' = Cardinality(Owing) /\ Cardinality(Serving)' = Cardinality(Serving)
  BY <1>2, <1>3, SameClosing DEF Adding, Checking, One
<1>6. SlotsParts'
  <2>1. conns' = conns /\ status' = status /\ events' = events
    BY <1>3
  <2> QED BY <1>1, <1>5, <2>1, Numbers DEF SlotsParts
<1> QED BY <1>2, <1>4, <1>6, SlotsMeans, PTL DEF SlotsInv

\* The handler of c serves only if the counter, which counts c as well as all
\* that serve already, is within the limit now.
LEMMA CheckStep ==
  ASSUME SlotsInv, NEW c \in Conns, CheckConn(c) PROVE SlotsInv'
<1>1. HandlersOK /\ CounterOK /\ SlotsParts
  BY SlotsMeans DEF SlotsInv
<1>2. /\ acceptor = "check" /\ acceptor' = "accept" /\ c \in arrived /\ qpc[c] = "none"
      /\ busy' = [busy EXCEPT ![c] = AtMax] /\ qpc' = [qpc EXCEPT ![c] = "read"]
      /\ arrived' = arrived /\ todo' = todo /\ events' = events /\ conns' = conns
      /\ status' = status /\ closing' = closing
  BY DEF CheckConn
<1>3. todo[c] = <<>> /\ c \notin Owing /\ c \notin Serving
  BY <1>1, <1>2 DEF HandlersOK, Todos, Owing, Serving
<1>4. HandlersOK'
  <2>1. qpc' \in [Conns -> Places] /\ busy' \in [Conns -> BOOLEAN]
    BY <1>1, <1>2 DEF HandlersOK, AtMax, Places
  <2>2. \A b \in Conns : todo[b] \in Todos(qpc'[b])
    <3> SUFFICES ASSUME NEW b \in Conns PROVE todo[b] \in Todos(qpc'[b])
      OBVIOUS
    <3>1. CASE b = c
      BY <1>1, <1>2, <1>3, <3>1 DEF HandlersOK, Todos
    <3>2. CASE b # c
      BY <1>1, <1>2, <3>2 DEF HandlersOK
    <3> QED BY <3>1, <3>2
  <2>3. \A b \in Conns \ arrived : qpc'[b] = "none"
    BY <1>1, <1>2 DEF HandlersOK
  <2> QED BY <1>1, <1>2, <2>1, <2>2, <2>3 DEF HandlersOK
<1>5. CounterOK'
  BY <1>1, <1>2 DEF CounterOK
<1>6. Owing' = Owing \cup {c}
  BY <1>1, <1>2 DEF HandlersOK, Owing
<1>7. Cardinality(Owing)' = Cardinality(Owing) + 1
  BY <1>1, <1>3, <1>6, OwingFinite, FS_AddElement
<1>8. Adding = 0 /\ Adding' = 0 /\ Checking = 1 /\ Checking' = 0 /\ ClosingOne' = ClosingOne
  BY <1>2, SameClosing DEF Adding, Checking, One
<1>9. Cardinality(Serving)' <= MaxConn
  <2>1. CASE AtMax
    <3>1. busy'[c] /\ Serving' = Serving
      BY <1>1, <1>2, <2>1 DEF HandlersOK, Serving
    <3> QED BY <1>1, <3>1 DEF SlotsParts
  <2>2. CASE ~AtMax
    <3>1. Serving' = Serving \cup {c}
      BY <1>1, <1>2, <2>2 DEF HandlersOK, Serving
    <3>2. Cardinality(Serving)' = Cardinality(Serving) + 1
      BY <1>1, <1>3, <3>1, OwingFinite, FS_AddElement
    <3>3. conns <= MaxConn
      BY <1>1, <2>2, Numbers DEF AtMax
    <3> QED BY <1>1, <1>8, <3>2, <3>3, Numbers DEF SlotsParts
  <2> QED BY <2>1, <2>2
<1>10. SlotsParts'
  <2>1. conns' = conns /\ status' = status /\ events' = events
    BY <1>2
  <2> QED BY <1>1, <1>7, <1>8, <1>9, <2>1, Numbers DEF SlotsParts
<1> QED BY <1>4, <1>5, <1>10, SlotsMeans, PTL DEF SlotsInv

LEMMA TodosAre ==
  ASSUME NEW p
  PROVE  /\ Todos("none") = {<<>>} /\ Todos("gone") = {<<>>, <<"destroyed">>}
         /\ p \notin {"none", "gone"} =>
              Todos(p) = {<<>>, <<"request">>, <<"request", "keepalive">>, <<"keepalive">>,
                          <<"response">>}
BY DEF Todos

\* The last word of a handler that is gone goes from what it owes to the channel.
LEMMA SendStep ==
  ASSUME SlotsInv, NEW c \in Conns, Send(c) PROVE SlotsInv'
<1> DEFINE x == Head(todo[c])
<1>1. HandlersOK /\ CounterOK /\ SlotsParts
  BY SlotsMeans DEF SlotsInv
<1>2. /\ todo[c] # <<>> /\ events' = Append(events, x) /\ todo' = [todo EXCEPT ![c] = Tail(@)]
      /\ acceptor' = acceptor /\ arrived' = arrived /\ qpc' = qpc /\ busy' = busy
      /\ conns' = conns /\ status' = status /\ closing' = closing
  BY DEF Send
<1>3. \/ /\ qpc[c] = "gone" /\ x = "destroyed" /\ Tail(todo[c]) = <<>>
      \/ /\ qpc[c] \notin {"none", "gone"} /\ x \in {"request", "keepalive", "response"}
         /\ Tail(todo[c]) \in {<<>>, <<"keepalive">>}
  <2>1. todo[c] \in Todos(qpc[c]) /\ qpc[c] # "none"
    BY <1>1, <1>2 DEF HandlersOK, Todos
  <2>2. CASE qpc[c] = "gone"
    <3>1. todo[c] = <<"destroyed">>
      BY <1>2, <2>1, <2>2, TodosAre
    <3> QED BY <2>2, <3>1
  <2>3. CASE qpc[c] # "gone"
    <3>1. \/ todo[c] = <<"request">> \/ todo[c] = <<"request", "keepalive">>
          \/ todo[c] = <<"keepalive">> \/ todo[c] = <<"response">>
      BY <1>2, <2>1, <2>3, TodosAre
    <3>2. /\ Tail(<<"request">>) = <<>> /\ Tail(<<"request", "keepalive">>) = <<"keepalive">>
          /\ Tail(<<"keepalive">>) = <<>> /\ Tail(<<"response">>) = <<>>
      OBVIOUS
    <3>3. x \in {"request", "keepalive", "response"}
      BY <3>1
    <3>4. Tail(todo[c]) \in {<<>>, <<"keepalive">>}
      BY <3>1, <3>2
    <3> QED BY <2>1, <2>3, <3>3, <3>4
  <2> QED BY <2>2, <2>3
<1>4. x \in Counted /\ Tail(todo[c]) \in Todos(qpc[c])
  BY <1>3 DEF Counted, Todos
<1>5. HandlersOK'
  <2>1. qpc[c] \in Places
    BY <1>1 DEF HandlersOK
  <2>2. todo' \in [Conns -> UNION {Todos(p) : p \in Places}]
    BY <1>1, <1>2, <1>4, <2>1 DEF HandlersOK
  <2>3. \A b \in Conns : todo'[b] \in Todos(qpc[b])
    BY <1>1, <1>2, <1>4 DEF HandlersOK
  <2> QED BY <1>1, <1>2, <2>2, <2>3 DEF HandlersOK
<1>6. CounterOK'
  BY <1>1, <1>2, <1>4 DEF CounterOK
<1>7. \A e \in Counted : Count(events', e) = Count(events, e) + One(x = e)
  BY <1>1, <1>2, <1>4, CountAppend DEF CounterOK
<1>8. Count(events', "init") = Count(events, "init") /\ Count(events', "closed") = Count(events, "closed")
  <2>1. x # "init" /\ x # "closed"
    BY <1>3
  <2> QED BY <1>1, <1>7, <2>1, Numbers DEF One, Counted
<1>9. /\ Cardinality(Owing)' + Count(events', "destroyed")
           = Cardinality(Owing) + Count(events, "destroyed")
      /\ Cardinality(Owing)' \in Int /\ Count(events', "destroyed") \in Int
  <2>1. CASE qpc[c] = "gone"
    <3>1. x = "destroyed" /\ todo'[c] = <<>> /\ \A b \in Conns \ {c} : todo'[b] = todo[b]
      BY <1>1, <1>2, <1>3, <2>1 DEF HandlersOK
    <3>2. c \in Owing /\ Owing' = Owing \ {c}
      BY <1>1, <1>2, <2>1, <3>1 DEF HandlersOK, Owing
    <3>3. Cardinality(Owing)' = Cardinality(Owing) - 1
      BY <1>1, <3>2, OwingFinite, FS_RemoveElement
    <3>4. Count(events', "destroyed") = Count(events, "destroyed") + 1
      BY <1>7, <3>1 DEF One, Counted
    <3> QED BY <1>1, <3>3, <3>4, Numbers
  <2>2. CASE qpc[c] # "gone"
    <3>1. x # "destroyed" /\ qpc[c] \notin {"none", "gone"}
      BY <1>3, <2>2
    <3>2. Owing' = Owing
      BY <1>1, <1>2, <3>1 DEF HandlersOK, Owing
    <3>3. Count(events', "destroyed") = Count(events, "destroyed")
      BY <1>1, <1>7, <3>1, Numbers DEF One, Counted
    <3> QED BY <1>1, <3>2, <3>3, Numbers
  <2> QED BY <2>1, <2>2
<1>10. /\ Adding' = Adding /\ Checking' = Checking /\ ClosingOne' = ClosingOne
       /\ Cardinality(Serving)' = Cardinality(Serving)
  BY <1>2, SameClosing DEF Adding, Checking, Serving
<1>11. SlotsParts'
  <2>1. conns' = conns /\ status' = status
    BY <1>2
  <2>2. conns = (Cardinality(Owing)' + Checking) + Count(events', "destroyed")
    BY <1>1, <1>9, Numbers DEF SlotsParts
  <2> QED BY <1>1, <1>8, <1>9, <1>10, <2>1, <2>2, Numbers DEF SlotsParts
<1> QED BY <1>5, <1>6, <1>11, SlotsMeans, PTL DEF SlotsInv

\* Whatever a handler that runs does besides, it goes on running, or it is gone
\* with its last word to send.
LEMMA Handling ==
  ASSUME SlotsInv, NEW c \in Conns, qpc[c] \notin {"none", "gone"},
         NEW to \in Places \ {"none"}, NEW es \in Todos(to), to = "gone" => es # <<>>,
         qpc' = [qpc EXCEPT ![c] = to], todo' = [todo EXCEPT ![c] = es], busy' = busy,
         arrived' = arrived, acceptor' = acceptor, events' = events, conns' = conns,
         status' = status, closing' = closing
  PROVE  SlotsInv'
<1>1. HandlersOK /\ CounterOK /\ SlotsParts
  BY SlotsMeans DEF SlotsInv
<1>2. /\ qpc'[c] = to /\ todo'[c] = es
      /\ \A b \in Conns \ {c} : qpc'[b] = qpc[b] /\ todo'[b] = todo[b]
  BY <1>1 DEF HandlersOK
<1>3. HandlersOK'
  <2>1. qpc' \in [Conns -> Places]
    BY <1>1 DEF HandlersOK
  <2>2. todo' \in [Conns -> UNION {Todos(p) : p \in Places}]
    BY <1>1 DEF HandlersOK
  <2>3. \A b \in Conns : todo'[b] \in Todos(qpc'[b])
    <3> SUFFICES ASSUME NEW b \in Conns PROVE todo'[b] \in Todos(qpc'[b])
      OBVIOUS
    <3>1. CASE b = c
      BY <1>2, <3>1
    <3>2. CASE b # c
      BY <1>1, <1>2, <3>2 DEF HandlersOK
    <3> QED BY <3>1, <3>2
  <2>4. \A b \in Conns \ arrived : qpc'[b] = "none"
    BY <1>1, <1>2 DEF HandlersOK
  <2> QED BY <1>1, <2>1, <2>2, <2>3, <2>4 DEF HandlersOK
<1>4. CounterOK'
  BY <1>1 DEF CounterOK
<1>5. Owing' = Owing
  <2>1. qpc'[c] \notin {"none", "gone"} \/ todo'[c] # <<>>
    BY <1>2
  <2> QED BY <1>2, <2>1 DEF Owing
<1>6. Cardinality(Serving)' <= Cardinality(Serving) /\ Cardinality(Serving)' \in Nat
  <2>1. Serving' \in SUBSET Serving
    BY <1>2 DEF Serving
  <2> QED BY <1>1, <2>1, OwingFinite, FS_Subset, FS_CardinalityType
<1>7. Adding' = Adding /\ Checking' = Checking /\ ClosingOne' = ClosingOne
  BY SameClosing DEF Adding, Checking
<1>8. SlotsParts'
  <2>1. conns' = conns /\ status' = status /\ events' = events /\ Cardinality(Owing)' = Cardinality(Owing)
    BY <1>5
  <2> QED BY <1>1, <1>6, <1>7, <2>1, Numbers DEF SlotsParts
<1> QED BY <1>3, <1>4, <1>8, SlotsMeans, PTL DEF SlotsInv

-----------------------------------------------------------------------------
(* The handler.                                                            *)

\* The parts of the state that no action of a handler but Send changes.
Elsewhere ==
  /\ busy' = busy /\ arrived' = arrived /\ acceptor' = acceptor /\ events' = events
  /\ conns' = conns /\ status' = status /\ closing' = closing

LEMMA ReadStep ==
  ASSUME SlotsInv, NEW c \in Conns, ReadRequest(c) PROVE SlotsInv'
<1>1. qpc[c] = "read" /\ todo[c] = <<>> /\ Elsewhere
  BY DEF ReadRequest, At, Elsewhere
<1>2. todo \in [Conns -> UNION {Todos(p) : p \in Places}]
  BY DEF SlotsInv, HandlersOK
<1>3. \E to \in Places \ {"none", "gone"}, es \in {<<>>, <<"request">>, <<"request", "keepalive">>} :
        GoOn(c, to) /\ Notify(c, es)
  <2>1. PICK chunk \in RawStream, few \in {req[c].few, FALSE} :
          LET r == [Counts(req[c]) EXCEPT !.few = few]
          IN  IF GivesUp(c, r, chunk)
              THEN GoOn(c, "close") /\ UNCHANGED todo
              ELSE \E found \in Found(r, chunk) : Parsed(c, r, chunk, found)
    BY DEF ReadRequest
  <2> DEFINE r == [Counts(req[c]) EXCEPT !.few = few]
  <2>2. CASE GivesUp(c, r, chunk)
    <3>1. GoOn(c, "close") /\ todo' = todo
      BY <2>1, <2>2
    <3>2. Notify(c, <<>>)
      BY <1>1, <1>2, <3>1 DEF Notify
    <3> QED BY <3>1, <3>2 DEF Places
  <2>3. CASE ~GivesUp(c, r, chunk)
    <3>1. PICK found \in Found(r, chunk) : Parsed(c, r, chunk, found)
      BY <2>1, <2>3
    <3>2. RequestEvents(c) \in {<<"request">>, <<"request", "keepalive">>}
      BY DEF RequestEvents
    <3>3. CASE found = "bad"
      BY <3>1, <3>3 DEF Parsed, Places
    <3>4. CASE found = "endless"
      BY <3>1, <3>4 DEF Parsed, Places
    <3>5. CASE found = "whole"
      BY <3>1, <3>2, <3>5 DEF Parsed, Places
    <3>6. CASE found \notin {"bad", "endless", "whole"}
      BY <3>1, <3>6 DEF Parsed, Places
    <3> QED BY <3>3, <3>4, <3>5, <3>6
  <2> QED BY <2>2, <2>3
<1>4. PICK to \in Places \ {"none", "gone"}, es \in {<<>>, <<"request">>, <<"request", "keepalive">>} :
        GoOn(c, to) /\ Notify(c, es)
  BY <1>3
<1>5. es \in Todos(to)
  BY DEF Todos
<1> QED BY <1>1, <1>4, <1>5, Handling DEF GoOn, Notify, Elsewhere

LEMMA RespondStep ==
  ASSUME SlotsInv, NEW c \in Conns, NEW at \in {"respond", "refuse"}, NEW refused \in BOOLEAN,
         Respond(c, at, refused)
  PROVE  SlotsInv'
<1>1. qpc[c] \notin {"none", "gone"} /\ Elsewhere
  BY DEF Respond, At, Elsewhere
<1>2. PICK to \in {"next", "close"}, es \in {<<>>, <<"response">>} : GoOn(c, to) /\ Notify(c, es)
  BY DEF Respond
<1>3. es \in Todos(to) /\ to \in Places \ {"none"} /\ to # "gone"
  BY <1>2 DEF Todos, Places
<1> QED BY <1>1, <1>2, <1>3, Handling DEF GoOn, Notify, Elsewhere

\* The steps that leave what there is to send, which is nothing.
LEMMA QuietStep ==
  ASSUME SlotsInv, NEW c \in Conns, NextRequest(c) \/ ReadOnly(c) PROVE SlotsInv'
<1>1. qpc[c] \notin {"none", "gone"} /\ todo[c] = <<>> /\ Elsewhere /\ todo' = todo
  BY DEF NextRequest, ReadOnly, At, Elsewhere
<1>2. PICK to \in {"read", "raw", "leaked"} : GoOn(c, to)
  BY DEF NextRequest, ReadOnly
<1>3. todo' = [todo EXCEPT ![c] = <<>>]
  BY <1>1 DEF SlotsInv, HandlersOK
<1>4. <<>> \in Todos(to) /\ to \in Places \ {"none"} /\ to # "gone"
  BY <1>2 DEF Todos, Places, Ended
<1> QED BY <1>1, <1>2, <1>3, <1>4, Handling DEF GoOn, Elsewhere

LEMMA CloseStep ==
  ASSUME SlotsInv, NEW c \in Conns, CloseConn(c) PROVE SlotsInv'
<1>1. qpc[c] \notin {"none", "gone"} /\ Elsewhere
  BY DEF CloseConn, At, Elsewhere
<1>2. GoOn(c, "gone") /\ Notify(c, <<"destroyed">>)
  BY DEF CloseConn
<1>3. <<"destroyed">> \in Todos("gone") /\ "gone" \in Places \ {"none"} /\ <<"destroyed">> # <<>>
  BY DEF Todos, Places, Ended
<1> QED BY <1>1, <1>2, <1>3, Handling DEF GoOn, Notify, Elsewhere

-----------------------------------------------------------------------------
(* The counting goroutine.                                                 *)

LEMMA CountStep ==
  ASSUME SlotsInv, CountEvent PROVE SlotsInv'
<1> DEFINE x == Head(events)
<1>1. HandlersOK /\ CounterOK /\ SlotsParts
  BY SlotsMeans DEF SlotsInv
<1>2. HandlersOK' /\ Owing' = Owing /\ Serving' = Serving
  BY <1>1, SameHandlers DEF CountEvent
<1>3. /\ ~closing /\ events # <<>> /\ events' = Tail(events) /\ acceptor' = acceptor
      /\ events \in Seq(Counted) /\ x \in Counted
  BY <1>1 DEF CountEvent, CounterOK
<1>4. /\ x = "destroyed" => closing' /\ conns' = conns - 1 /\ status' = status
      /\ x # "destroyed" => ~closing' /\ conns' = conns /\ status' = [status EXCEPT ![x] = @ + 1]
  <2>1. closing' <=> x = "destroyed"
    BY DEF CountEvent, Ends
  <2>2. /\ closing' => conns' = conns - 1 /\ status' = status
        /\ ~closing' => conns' = conns - 0 /\ status' = [status EXCEPT ![x] = @ + 1]
    BY DEF CountEvent, One
  <2>3. conns \in Int
    BY <1>1, Numbers
  <2> QED BY <2>1, <2>2, <2>3
<1>5. CounterOK'
  <2>1. closing' \in BOOLEAN
    BY DEF CountEvent, Ends
  <2>2. status' \in [Counted -> Nat]
    BY <1>1, <1>3, <1>4 DEF CounterOK
  <2>3. events' \in Seq(Counted) /\ conns' \in Int
    BY <1>1, <1>3, <1>4, Numbers
  <2>4. acceptor' \in {"accept", "add", "check", "quit"}
    BY <1>1, <1>3 DEF CounterOK
  <2> QED BY Zenon, <2>1, <2>2, <2>3, <2>4 DEF CounterOK
<1>6. \A e \in Counted : Count(events', e) = Count(events, e) - One(x = e)
  BY <1>3, CountTail
<1>7. /\ Adding' = Adding /\ Checking' = Checking /\ ClosingOne = 0
      /\ Cardinality(Owing)' = Cardinality(Owing) /\ Cardinality(Serving)' = Cardinality(Serving)
  BY <1>2, <1>3 DEF Adding, Checking, ClosingOne, One
<1>8. CASE x = "destroyed"
  <2>1. /\ Count(events', "destroyed") = Count(events, "destroyed") - 1
        /\ Count(events', "init") = Count(events, "init")
        /\ Count(events', "closed") = Count(events, "closed")
    BY <1>1, <1>6, <1>8, Numbers DEF One, Counted
  <2>2. ClosingOne' = 1 /\ conns' = conns - 1 /\ status' = status
    BY <1>4, <1>8 DEF ClosingOne, One
  <2>3. SlotsParts'
    BY <1>1, <1>7, <2>1, <2>2, Numbers DEF SlotsParts
  <2> QED BY <1>2, <1>5, <2>3, SlotsMeans, PTL DEF SlotsInv
<1>9. CASE x # "destroyed"
  <2>1. /\ Count(events', "destroyed") = Count(events, "destroyed")
        /\ Count(events', "init") = Count(events, "init") - One(x = "init")
        /\ Count(events', "closed") = Count(events, "closed") - One(x = "closed")
    BY <1>1, <1>6, <1>9, Numbers DEF One, Counted
  <2>2. /\ status'["init"] = status["init"] + One(x = "init")
        /\ status'["closed"] = status["closed"] + One(x = "closed")
    BY <1>1, <1>3, <1>4, <1>9, Numbers DEF One, CounterOK, Counted
  <2>3. /\ status'["init"] + Count(events', "init") = status["init"] + Count(events, "init")
        /\ status'["closed"] + Count(events', "closed") = status["closed"] + Count(events, "closed")
    <3>1. \A b \in BOOLEAN : One(b) \in Int
      BY DEF One
    <3> QED BY <1>1, <2>1, <2>2, Numbers DEF One
  <2>4. ClosingOne' = 0 /\ conns' = conns
    BY <1>4, <1>9 DEF ClosingOne, One
  <2>5. SlotsParts'
    <3>1. conns' = Cardinality(Owing)' + Checking' + Count(events', "destroyed")
      BY <1>1, <1>7, <2>1, <2>4 DEF SlotsParts
    <3>2. conns' = (status'["init"] + Count(events', "init"))
                   - (status'["closed"] + Count(events', "closed")) - ClosingOne' - Adding'
      BY <1>1, <1>7, <2>3, <2>4 DEF SlotsParts
    <3>3. Cardinality(Serving)' <= MaxConn
      BY <1>1, <1>7 DEF SlotsParts
    <3> QED BY <3>1, <3>2, <3>3 DEF SlotsParts
  <2> QED BY <1>2, <1>5, <2>5, SlotsMeans, PTL DEF SlotsInv
<1> QED BY <1>8, <1>9

LEMMA ClosedStep ==
  ASSUME SlotsInv, CountClosed PROVE SlotsInv'
<1>1. HandlersOK /\ CounterOK /\ SlotsParts
  BY SlotsMeans DEF SlotsInv
<1>2. HandlersOK' /\ Owing' = Owing /\ Serving' = Serving
  BY <1>1, SameHandlers DEF CountClosed
<1>3. /\ closing /\ ~closing' /\ events' = Append(events, "closed") /\ acceptor' = acceptor
      /\ conns' = conns /\ status' = [status EXCEPT !["destroyed"] = @ + 1]
  BY DEF CountClosed
<1>4. CounterOK'
  <2>1. closing' \in BOOLEAN
    BY DEF CountClosed
  <2>2. status' \in [Counted -> Nat] /\ events' \in Seq(Counted)
    BY <1>1, <1>3 DEF CounterOK, Counted
  <2>3. conns' \in Int /\ acceptor' \in {"accept", "add", "check", "quit"}
    BY <1>1, <1>3 DEF CounterOK
  <2> QED BY Zenon, <2>1, <2>2, <2>3 DEF CounterOK
<1>5. \A e \in Counted : Count(events', e) = Count(events, e) + One("closed" = e)
  BY <1>1, <1>3, CountAppend DEF CounterOK, Counted
<1>6. /\ Count(events', "init") = Count(events, "init")
      /\ Count(events', "closed") = Count(events, "closed") + 1
      /\ Count(events', "destroyed") = Count(events, "destroyed")
  BY <1>1, <1>5, Numbers DEF One, Counted
<1>7. status'["init"] = status["init"] /\ status'["closed"] = status["closed"]
  BY <1>1, <1>3 DEF CounterOK, Counted
<1>8. /\ Adding' = Adding /\ Checking' = Checking /\ ClosingOne = 1 /\ ClosingOne' = 0
      /\ Cardinality(Owing)' = Cardinality(Owing) /\ Cardinality(Serving)' = Cardinality(Serving)
  BY <1>2, <1>3 DEF Adding, Checking, ClosingOne, One
<1>9. SlotsParts'
  <2>1. conns' = conns
    BY <1>3
  <2> QED BY <1>1, <1>6, <1>7, <1>8, <2>1, Numbers DEF SlotsParts
<1> QED BY <1>2, <1>4, <1>9, SlotsMeans, PTL DEF SlotsInv

-----------------------------------------------------------------------------
LEMMA SlotsStep == SlotsInv /\ [QpsNext]_qpsVars => SlotsInv'
<1> SUFFICES ASSUME SlotsInv, [QpsNext]_qpsVars PROVE SlotsInv'
  OBVIOUS
<1>1. CASE \E c \in Conns : Accept(c) \/ CheckConn(c)
  BY <1>1, AcceptStep, CheckStep
<1>2. CASE AcceptError \/ AddConn
  BY <1>2, ErrorStep, AddStep
<1>3. CASE \E c \in Conns : Handler(c)
  <2>1. PICK c \in Conns : Handler(c)
    BY <1>3
  <2>2. CASE SendResponse(c) \/ Refuse(c)
    BY <2>2, RespondStep DEF SendResponse, Refuse
  <2> QED BY <2>1, <2>2, SendStep, ReadStep, QuietStep, CloseStep DEF Handler
<1>4. CASE Counter
  BY <1>4, CountStep, ClosedStep DEF Counter
<1>5. CASE UNCHANGED qpsVars
  BY <1>5 DEF qpsVars, handler, SlotsInv, HandlersOK, CounterOK, SlotsAgree, Sent, InChannel
<1> QED BY <1>1, <1>2, <1>3, <1>4, <1>5 DEF QpsNext

\* srv_cfg_var_conn_counter is the number of connections that somebody still
\* has to take off it, the events sent and counted say the same, and no more
\* than MaxConn connections are served.
THEOREM SlotsAreCounted == QpsSpec => []SlotsAgree
<1>1. SlotsInv => SlotsAgree
  BY DEF SlotsInv
<1> QED BY <1>1, SlotsInit, SlotsStep, PTL DEF QpsSpec
=============================================================================
