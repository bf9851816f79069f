--------------------------- MODULE CounterProofs ----------------------------
(***************************************************************************)
(* The counters of bigcounter, for every base, width, size and order of    *)
(* calls: ptr of an Any255Base is at the leading digit, and Plus and       *)
(* AddUint64 count, in both representations. The lemmas say what the       *)
(* recursive functions of BigCounter compute.                              *)
(***************************************************************************)
EXTENDS BigCounter, DataInduction, TLAPS

-----------------------------------------------------------------------------
(* Digits and what they stand for.                                         *)

\* Value reads the digits one by one.
LEMMA ValueRun ==
  ASSUME NEW n \in Nat, NEW s, \A i \in 1 .. n : s[i] \in Nat
  PROVE  \E v \in [0 .. n -> Nat] :
           /\ v[0] = 0 /\ \A i \in 1 .. n : v[i] = v[i - 1] * Base + s[i]
           /\ Value(s, n) = v[n]
<1> DEFINE step == [i \in 1 .. n |-> [x \in Nat |-> x * Base + s[i]]]
           value[i \in 0 .. n] == IF i = 0 THEN 0 ELSE value[i - 1] * Base + s[i]
<1>1. \A i \in 1 .. n, x \in Nat : step[i][x] = x * Base + s[i] /\ step[i][x] \in Nat
  BY BaseAssumption
<1>2. PICK v \in [0 .. n -> Nat] : Iterates(v, n, 0, step)
  <2>1. Steps(step, n, Nat)
    BY <1>1 DEF Steps
  <2> HIDE DEF step
  <2> QED BY <2>1, Recursion
<1>3. v = [i \in 0 .. n |-> IF i = 0 THEN 0 ELSE v[i - 1] * Base + s[i]]
  <2>1. \A i \in 0 .. n : v[i] = IF i = 0 THEN 0 ELSE v[i - 1] * Base + s[i]
    <3> SUFFICES ASSUME NEW i \in 0 .. n
                 PROVE  v[i] = IF i = 0 THEN 0 ELSE v[i - 1] * Base + s[i]
      OBVIOUS
    <3>1. CASE i = 0
      BY <1>2, <3>1 DEF Iterates
    <3>2. CASE i # 0
      <4>1. i \in 1 .. n /\ v[i - 1] \in Nat
        BY <3>2
      <4> HIDE DEF step
      <4> QED BY <1>1, <1>2, <3>2, <4>1 DEF Iterates
    <3> QED BY <3>1, <3>2
  <2> QED BY <2>1
<1>4. value = [i \in 0 .. n |-> IF i = 0 THEN 0 ELSE value[i - 1] * Base + s[i]]
  <2> HIDE DEF step
  <2> QED BY <1>3
<1>5. Value(s, n) = value[n]
  BY DEF Value
<1> HIDE DEF value, step
<1>6. value \in [0 .. n -> Nat]
  <2> DEFINE S == {i \in 0 .. n : value[i] \in Nat}
  <2>1. 0 \in S
    BY <1>4
  <2>2. ASSUME NEW i \in 0 .. n - 1, i \in S
        PROVE  i + 1 \in S
    <3>1. i + 1 \in 1 .. n /\ i + 1 # 0 /\ (i + 1) - 1 = i /\ i + 1 \in 0 .. n
      OBVIOUS
    <3>2. value[i + 1] = value[i] * Base + s[i + 1]
      BY <1>4, <3>1
    <3>3. value[i] \in Nat /\ s[i + 1] \in Nat
      BY <2>2, <3>1
    <3>4. value[i + 1] \in Nat
      <4>1. \A x, y \in Nat : x * Base + y \in Nat
        BY BaseAssumption
      <4> QED BY <3>2, <3>3, <4>1
    <3> QED BY <3>1, <3>4
  <2> HIDE DEF S
  <2>3. \A i \in 0 .. n : i \in S
    BY <2>1, <2>2, UpTo
  <2> QED BY <1>4, <2>3 DEF S
<1>7. value[0] = 0 /\ \A i \in 1 .. n : value[i] = value[i - 1] * Base + s[i]
  BY <1>4
<1> QED BY <1>5, <1>6, <1>7

\* What the first n digits stand for, from what the ones before stand for.
LEMMA ValueIs ==
  ASSUME NEW n \in Nat, NEW s, \A i \in 1 .. n : s[i] \in Nat
  PROVE  /\ Value(s, n) \in Nat /\ Value(s, 0) = 0
         /\ n # 0 => Value(s, n) = Value(s, n - 1) * Base + s[n]
<1>1. PICK v \in [0 .. n -> Nat] :
        /\ v[0] = 0 /\ \A i \in 1 .. n : v[i] = v[i - 1] * Base + s[i]
        /\ Value(s, n) = v[n]
  BY ValueRun
<1>2. Value(s, 0) = 0
  <2>1. 0 \in Nat /\ \A i \in 1 .. 0 : s[i] \in Nat
    OBVIOUS
  <2> QED BY <2>1, ValueRun
<1>3. CASE n # 0
  <2>1. n - 1 \in Nat /\ \A i \in 1 .. n - 1 : s[i] \in Nat
    BY <1>3
  <2>2. PICK w \in [0 .. n - 1 -> Nat] :
          /\ w[0] = 0 /\ \A i \in 1 .. n - 1 : w[i] = w[i - 1] * Base + s[i]
          /\ Value(s, n - 1) = w[n - 1]
    BY <2>1, ValueRun
  <2> DEFINE S == {i \in 0 .. n - 1 : w[i] = v[i]}
  <2>3. 0 \in S
    BY <1>1, <2>1, <2>2
  <2>4. ASSUME NEW i \in 0 .. (n - 1) - 1, i \in S
        PROVE  i + 1 \in S
    <3>1. i + 1 \in 1 .. n /\ i + 1 \in 1 .. n - 1 /\ (i + 1) - 1 = i /\ i + 1 \in 0 .. n - 1
      BY <2>1
    <3>2. w[i + 1] = w[i] * Base + s[i + 1] /\ v[i + 1] = v[i] * Base + s[i + 1]
      BY <1>1, <2>2, <3>1
    <3> QED BY <2>4, <3>1, <3>2
  <2> HIDE DEF S
  <2>5. \A i \in 0 .. n - 1 : i \in S
    BY <2>1, <2>3, <2>4, UpTo
  <2>6. w[n - 1] = v[n - 1]
    BY <2>1, <2>5 DEF S
  <2>7. v[n] = v[n - 1] * Base + s[n]
    BY <1>1, <1>3
  <2> QED BY <1>1, <1>2, <2>2, <2>6, <2>7
<1> QED BY <1>1, <1>2, <1>3

\* Equal digits stand for the same.
LEMMA SameValue ==
  ASSUME NEW n \in Nat, NEW s, NEW t, \A i \in 1 .. n : s[i] \in Nat /\ s[i] = t[i]
  PROVE  \A k \in 0 .. n : Value(s, k) = Value(t, k)
<1> DEFINE S == {k \in 0 .. n : Value(s, k) = Value(t, k)}
<1>1. 0 \in S
  BY ValueIs
<1>2. ASSUME NEW k \in 0 .. n - 1, k \in S
      PROVE  k + 1 \in S
  <2>1. k + 1 \in Nat /\ k + 1 # 0 /\ (k + 1) - 1 = k /\ k + 1 \in 1 .. n
    OBVIOUS
  <2>2. \A i \in 1 .. k + 1 : s[i] \in Nat /\ t[i] \in Nat
    BY <2>1
  <2>3. /\ Value(s, k + 1) = Value(s, k) * Base + s[k + 1]
        /\ Value(t, k + 1) = Value(t, k) * Base + t[k + 1]
    BY <2>1, <2>2, ValueIs
  <2> QED BY <1>2, <2>1, <2>3
<1> HIDE DEF S
<1>3. \A k \in 0 .. n : k \in S
  BY <1>1, <1>2, UpTo
<1> QED BY <1>3 DEF S

\* Two numbers whose digits differ first at k are ordered by their digit k,
\* as far as one reads.
LEMMA LessValue ==
  ASSUME NEW n \in Nat, NEW s, NEW t, NEW k \in 1 .. n,
         \A i \in 1 .. n : s[i] \in Digits /\ t[i] \in Digits,
         \A i \in 1 .. k - 1 : s[i] = t[i], s[k] < t[k]
  PROVE  Value(s, n) < Value(t, n)
<1>1. \A i \in 1 .. n : s[i] \in Nat /\ t[i] \in Nat /\ s[i] <= Base - 1
  BY BaseAssumption DEF Digits
<1>2. \A j \in 0 .. n : Value(s, j) \in Nat /\ Value(t, j) \in Nat
  <2> SUFFICES ASSUME NEW j \in 0 .. n
               PROVE  Value(s, j) \in Nat /\ Value(t, j) \in Nat
    OBVIOUS
  <2>1. j \in Nat /\ \A i \in 1 .. j : s[i] \in Nat /\ t[i] \in Nat
    BY <1>1
  <2> QED BY <2>1, ValueIs
<1>3. \A j \in 1 .. n : /\ Value(s, j) = Value(s, j - 1) * Base + s[j]
                        /\ Value(t, j) = Value(t, j - 1) * Base + t[j]
  <2> SUFFICES ASSUME NEW j \in 1 .. n
               PROVE  /\ Value(s, j) = Value(s, j - 1) * Base + s[j]
                      /\ Value(t, j) = Value(t, j - 1) * Base + t[j]
    OBVIOUS
  <2>1. j \in Nat /\ j # 0 /\ \A i \in 1 .. j : s[i] \in Nat /\ t[i] \in Nat
    BY <1>1
  <2> QED BY <2>1, ValueIs
<1>4. Value(s, k - 1) = Value(t, k - 1)
  <2>1. k - 1 \in Nat /\ \A i \in 1 .. k - 1 : s[i] \in Nat /\ s[i] = t[i]
    BY <1>1
  <2>2. \A j \in 0 .. k - 1 : Value(s, j) = Value(t, j)
    BY <2>1, SameValue
  <2> QED BY <2>1, <2>2
<1> DEFINE S == {j \in 0 .. n - k : Value(s, k + j) + 1 <= Value(t, k + j)}
<1>5. 0 \in S
  <2>1. k - 1 \in 0 .. n /\ s[k] \in Nat /\ t[k] \in Nat /\ k + 0 = k
    BY <1>1
  <2>2. Value(s, k) = Value(s, k - 1) * Base + s[k] /\ Value(t, k) = Value(s, k - 1) * Base + t[k]
    BY <1>3, <1>4
  <2>3. Value(s, k - 1) * Base \in Nat
    BY <1>2, <2>1, BaseAssumption
  <2>4. Value(s, k) + 1 <= Value(t, k)
    BY <2>1, <2>2, <2>3
  <2> QED BY <2>1, <2>4
<1>6. ASSUME NEW j \in 0 .. (n - k) - 1, j \in S
      PROVE  j + 1 \in S
  <2> DEFINE a == Value(s, k + j)
             b == Value(t, k + j)
  <2>1. k + j \in 0 .. n /\ k + (j + 1) \in 1 .. n /\ (k + (j + 1)) - 1 = k + j /\ j + 1 \in 0 .. n - k
    OBVIOUS
  <2>2. a \in Nat /\ b \in Nat /\ a + 1 <= b
    BY <1>2, <1>6, <2>1
  <2>3. Value(s, k + (j + 1)) = a * Base + s[k + (j + 1)] /\ Value(t, k + (j + 1)) = b * Base + t[k + (j + 1)]
    BY <1>3, <2>1
  <2>4. /\ s[k + (j + 1)] \in Nat /\ t[k + (j + 1)] \in Nat
        /\ s[k + (j + 1)] <= Base - 1
    BY <1>1, <2>1
  <2> HIDE DEF a, b
  <2>5. a * Base \in Nat /\ b * Base \in Nat /\ a * Base + Base <= b * Base
    <3>1. (a + 1) * Base <= b * Base
      BY <2>2, BaseAssumption
    <3> QED BY <2>2, <3>1, BaseAssumption
  <2>6. Value(s, k + (j + 1)) + 1 <= Value(t, k + (j + 1))
    BY <2>3, <2>4, <2>5, BaseAssumption
  <2> QED BY <2>1, <2>6
<1>7. n - k \in Nat
  OBVIOUS
<1> HIDE DEF S
<1>8. \A j \in 0 .. n - k : j \in S
  BY <1>5, <1>6, <1>7, UpTo
<1>9. n - k \in S
  BY <1>7, <1>8
<1>10. Value(s, n) + 1 <= Value(t, n)
  <2>1. k + (n - k) = n
    OBVIOUS
  <2> QED BY <1>9, <2>1 DEF S
<1> QED BY <1>2, <1>10
\* No digits stand for more than the largest ones, and no other for as much.
LEMMA LargestIs ==
  ASSUME NEW n \in Nat, NEW s, \A i \in 1 .. n : s[i] \in Digits
  PROVE  /\ Largest(n) \in Nat /\ Value(s, n) \in Nat /\ Value(s, n) <= Largest(n)
         /\ (\E i \in 1 .. n : s[i] # Base - 1) => Value(s, n) < Largest(n)
         /\ (\A i \in 1 .. n : s[i] = Base - 1) => Value(s, n) = Largest(n)
<1> DEFINE t == Fill(n, Base - 1)
<1>1. \A i \in 1 .. n : s[i] \in Nat /\ t[i] = Base - 1 /\ t[i] \in Nat /\ t[i] \in Digits /\ s[i] <= t[i]
  BY BaseAssumption DEF Digits, Fill
<1>2. Largest(n) = Value(t, n)
  BY DEF Largest
<1> HIDE DEF t
<1>3. Value(s, n) \in Nat /\ Value(t, n) \in Nat
  BY <1>1, ValueIs
<1>4. CASE \A i \in 1 .. n : s[i] = Base - 1
  <2>1. \A i \in 1 .. n : s[i] \in Nat /\ s[i] = t[i]
    BY <1>1, <1>4
  <2>2. \A k \in 0 .. n : Value(s, k) = Value(t, k)
    BY <2>1, SameValue
  <2> QED BY <1>2, <1>3, <1>4, <2>2
<1>5. CASE \E i \in 1 .. n : s[i] # Base - 1
  <2> DEFINE T == {i \in 1 .. n : s[i] # Base - 1}
  <2>1. T \subseteq Nat /\ T # {}
    BY <1>5
  <2>2. PICK k \in T : \A i \in T : k <= i
    BY <2>1, HasLeast
  <2>3. k \in 1 .. n /\ s[k] # Base - 1 /\ \A i \in 1 .. k - 1 : s[i] = Base - 1
    BY <2>2
  <2>4. s[k] < t[k] /\ \A i \in 1 .. k - 1 : s[i] = t[i]
    BY <1>1, <2>3, BaseAssumption
  <2>5. Value(s, n) < Value(t, n)
    BY <1>1, <2>3, <2>4, LessValue
  <2> QED BY <1>2, <1>3, <1>5, <2>5
<1> QED BY <1>4, <1>5

\* Zeros in front stand for nothing, and a digit behind them for something.
LEMMA ZeroValue ==
  ASSUME NEW n \in Nat, NEW s, \A i \in 1 .. n : s[i] \in Digits
  PROVE  /\ (\A i \in 1 .. n : s[i] = 0) => Value(s, n) = 0
         /\ (\E i \in 1 .. n : s[i] # 0) => Value(s, n) > 0
<1> DEFINE t == Fill(n, 0)
<1>1. \A i \in 1 .. n : s[i] \in Nat /\ t[i] = 0 /\ t[i] \in Nat /\ t[i] \in Digits
  BY BaseAssumption DEF Digits, Fill
<1> HIDE DEF t
<1>2. Value(t, n) = 0
  <2> DEFINE S == {k \in 0 .. n : Value(t, k) = 0}
  <2>1. 0 \in S
    BY <1>1, ValueIs
  <2>2. ASSUME NEW k \in 0 .. n - 1, k \in S
        PROVE  k + 1 \in S
    <3>1. k + 1 \in Nat /\ k + 1 # 0 /\ (k + 1) - 1 = k /\ k + 1 \in 0 .. n /\ t[k + 1] = 0
      BY <1>1
    <3>2. \A i \in 1 .. k + 1 : t[i] \in Nat
      BY <1>1
    <3>3. Value(t, k + 1) = Value(t, k) * Base + t[k + 1]
      BY <3>1, <3>2, ValueIs
    <3> QED BY <2>2, <3>1, <3>3, BaseAssumption
  <2> HIDE DEF S
  <2>3. \A k \in 0 .. n : k \in S
    BY <2>1, <2>2, UpTo
  <2> QED BY <2>3 DEF S
<1>3. CASE \A i \in 1 .. n : s[i] = 0
  <2>1. \A i \in 1 .. n : s[i] \in Nat /\ s[i] = t[i]
    BY <1>1, <1>3
  <2>2. \A k \in 0 .. n : Value(s, k) = Value(t, k)
    BY <2>1, SameValue
  <2> QED BY <1>2, <1>3, <2>2
<1>4. CASE \E i \in 1 .. n : s[i] # 0
  <2> DEFINE T == {i \in 1 .. n : s[i] # 0}
  <2>1. T \subseteq Nat /\ T # {}
    BY <1>4
  <2>2. PICK k \in T : \A i \in T : k <= i
    BY <2>1, HasLeast
  <2>3. k \in 1 .. n /\ s[k] # 0 /\ \A i \in 1 .. k - 1 : s[i] = 0
    BY <2>2
  <2>4. t[k] < s[k] /\ \A i \in 1 .. k - 1 : t[i] = s[i]
    BY <1>1, <2>3
  <2>5. Value(t, n) < Value(s, n)
    BY <1>1, <2>3, <2>4, LessValue
  <2> QED BY <1>2, <1>4, <2>5
<1> QED BY <1>3, <1>4

\* The digits of a number that has no more of them stand for it.
LEMMA DigitsIs ==
  ASSUME NEW n \in Nat, NEW len \in Nat, n <= Largest(len)
  PROVE  /\ ToDigits(n, len) \in [1 .. len -> Digits]
         /\ Value(ToDigits(n, len), len) = n
<1> DEFINE step == [i \in 1 .. len |-> [x \in Nat |-> x \div Base]]
           rest[i \in 0 .. len] == IF i = 0 THEN n ELSE rest[i - 1] \div Base
           t == Fill(len, Base - 1)
           s == ToDigits(n, len)
<1>1. \A i \in 1 .. len, x \in Nat : step[i][x] = x \div Base /\ step[i][x] \in Nat
  BY BaseAssumption
<1>2. PICK v \in [0 .. len -> Nat] : Iterates(v, len, n, step)
  <2>1. Steps(step, len, Nat)
    BY <1>1 DEF Steps
  <2> HIDE DEF step
  <2> QED BY <2>1, Recursion
<1>3. v = [i \in 0 .. len |-> IF i = 0 THEN n ELSE v[i - 1] \div Base]
  <2>1. \A i \in 0 .. len : v[i] = IF i = 0 THEN n ELSE v[i - 1] \div Base
    <3> SUFFICES ASSUME NEW i \in 0 .. len
                 PROVE  v[i] = IF i = 0 THEN n ELSE v[i - 1] \div Base
      OBVIOUS
    <3>1. CASE i = 0
      BY <1>2, <3>1 DEF Iterates
    <3>2. CASE i # 0
      <4>1. i \in 1 .. len /\ v[i - 1] \in Nat
        BY <3>2
      <4> HIDE DEF step
      <4> QED BY <1>1, <1>2, <3>2, <4>1 DEF Iterates
    <3> QED BY <3>1, <3>2
  <2> QED BY <2>1
<1>4. rest = [i \in 0 .. len |-> IF i = 0 THEN n ELSE rest[i - 1] \div Base]
  <2> HIDE DEF step, t, s
  <2> QED BY <1>3
<1>5. s = [i \in 1 .. len |-> rest[len - i] % Base]
  BY DEF ToDigits
<1> HIDE DEF rest, step, s
<1>6. \A i \in 0 .. len : rest[i] \in Nat
  <2> DEFINE S == {i \in 0 .. len : rest[i] \in Nat}
  <2>1. 0 \in S
    BY <1>4
  <2>2. ASSUME NEW i \in 0 .. len - 1, i \in S
        PROVE  i + 1 \in S
    <3>1. i + 1 \in 1 .. len /\ i + 1 # 0 /\ (i + 1) - 1 = i /\ i + 1 \in 0 .. len
      OBVIOUS
    <3>2. rest[i + 1] = rest[i] \div Base
      BY <1>4, <3>1
    <3>3. \A x \in Nat : x \div Base \in Nat
      BY BaseAssumption
    <3> QED BY <2>2, <3>1, <3>2, <3>3
  <2> HIDE DEF S
  <2>3. \A i \in 0 .. len : i \in S
    BY <2>1, <2>2, UpTo
  <2> QED BY <2>3 DEF S
<1>7. \A i \in 0 .. len - 1 : rest[i] = rest[i + 1] * Base + (rest[i] % Base) /\ rest[i] % Base \in Digits
  <2> SUFFICES ASSUME NEW i \in 0 .. len - 1
               PROVE  rest[i] = rest[i + 1] * Base + (rest[i] % Base) /\ rest[i] % Base \in Digits
    OBVIOUS
  <2>1. i + 1 \in 1 .. len /\ i + 1 # 0 /\ (i + 1) - 1 = i /\ i + 1 \in 0 .. len /\ i \in 0 .. len
    OBVIOUS
  <2>2. rest[i + 1] = rest[i] \div Base
    BY <1>4, <2>1
  <2>3. \A x \in Nat : x = (x \div Base) * Base + (x % Base) /\ x % Base \in 0 .. Base - 1
    BY BaseAssumption
  <2> QED BY <1>6, <2>1, <2>2, <2>3 DEF Digits
<1>8. \A i \in 1 .. len : s[i] = rest[len - i] % Base /\ s[i] \in Digits /\ s[i] \in Nat
  <2> SUFFICES ASSUME NEW i \in 1 .. len
               PROVE  s[i] = rest[len - i] % Base /\ s[i] \in Digits /\ s[i] \in Nat
    OBVIOUS
  <2>1. len - i \in 0 .. len - 1
    OBVIOUS
  <2> QED BY <1>5, <1>7, <2>1, BaseAssumption DEF Digits
<1>9. s \in [1 .. len -> Digits]
  BY <1>5, <1>8
<1>10. \A i \in 1 .. len : t[i] = Base - 1 /\ t[i] \in Nat
  BY BaseAssumption DEF Fill
<1>11. Largest(len) = Value(t, len)
  BY DEF Largest
<1> HIDE DEF t
<1>12. \A i \in 0 .. len : rest[i] <= Value(t, len - i)
  <2> DEFINE S == {i \in 0 .. len : rest[i] <= Value(t, len - i)}
  <2>1. 0 \in S
    <3>1. rest[0] = n
      BY <1>4
    <3> QED BY <1>11, <3>1
  <2>2. ASSUME NEW i \in 0 .. len - 1, i \in S
        PROVE  i + 1 \in S
    <3> DEFINE k == len - i
    <3>1. /\ k \in 1 .. len /\ k \in Nat /\ k # 0 /\ k - 1 = len - (i + 1) /\ k - 1 \in Nat
          /\ i + 1 \in 0 .. len /\ i \in 0 .. len
      OBVIOUS
    <3> HIDE DEF k
    <3>2. (\A j \in 1 .. k : t[j] \in Nat) /\ (\A j \in 1 .. k - 1 : t[j] \in Nat) /\ t[k] = Base - 1
      BY <1>10, <3>1
    <3>3. Value(t, k) = Value(t, k - 1) * Base + t[k]
      BY <3>1, <3>2, ValueIs
    <3>4. Value(t, k - 1) \in Nat
      BY <3>1, <3>2, ValueIs
    <3>5. rest[i] <= Value(t, k - 1) * Base + (Base - 1)
      BY <2>2, <3>2, <3>3 DEF k
    <3>6. rest[i + 1] * Base <= rest[i] /\ rest[i] \in Nat /\ rest[i + 1] \in Nat
      <4> DEFINE p == rest[i + 1] * Base
                 r == rest[i] % Base
      <4>1. rest[i] = p + r /\ r \in Nat
        BY <1>7, BaseAssumption DEF Digits
      <4>2. rest[i + 1] \in Nat /\ p \in Int /\ rest[i] \in Nat
        BY <1>6, <3>1, BaseAssumption
      <4> HIDE DEF p, r
      <4>3. p <= rest[i]
        BY <4>1, <4>2
      <4> QED BY <4>2, <4>3 DEF p
    <3>7. rest[i + 1] <= Value(t, k - 1)
      <4>1. \A x, y \in Nat : x * Base <= y * Base + (Base - 1) => x <= y
        <5> SUFFICES ASSUME NEW x \in Nat, NEW y \in Nat, x >= y + 1
                     PROVE  ~(x * Base <= y * Base + (Base - 1))
          OBVIOUS
        <5>1. x * Base >= (y + 1) * Base
          BY BaseAssumption
        <5> QED BY <5>1, BaseAssumption
      <4>2. rest[i + 1] * Base <= Value(t, k - 1) * Base + (Base - 1)
        <5>1. rest[i + 1] * Base \in Int /\ Value(t, k - 1) * Base + (Base - 1) \in Int
          BY <3>4, <3>6, BaseAssumption
        <5> QED BY <3>5, <3>6, <5>1
      <4> QED BY <3>4, <3>6, <4>1, <4>2
    <3> QED BY <3>1, <3>7
  <2> HIDE DEF S
  <2>3. \A i \in 0 .. len : i \in S
    BY <2>1, <2>2, UpTo
  <2> QED BY <2>3 DEF S
<1>13. rest[len] = 0
  <2>1. len \in 0 .. len /\ len - len = 0
    OBVIOUS
  <2>2. Value(t, 0) = 0
    BY <1>10, ValueIs
  <2>3. rest[len] <= 0 /\ rest[len] \in Nat
    BY <1>6, <1>12, <2>1, <2>2
  <2> QED BY <2>3
<1>14. \A i \in 0 .. len : Value(s, i) = rest[len - i]
  <2> DEFINE S == {i \in 0 .. len : Value(s, i) = rest[len - i]}
  <2>1. 0 \in S
    <3>1. Value(s, 0) = 0
      BY <1>8, ValueIs
    <3> QED BY <1>13, <3>1
  <2>2. ASSUME NEW i \in 0 .. len - 1, i \in S
        PROVE  i + 1 \in S
    <3> DEFINE k == i + 1
    <3>1. k \in 1 .. len /\ k \in Nat /\ k # 0 /\ k - 1 = i /\ k \in 0 .. len
          /\ len - k \in 0 .. len - 1 /\ (len - k) + 1 = len - i
      OBVIOUS
    <3> HIDE DEF k
    <3>2. \A j \in 1 .. k : s[j] \in Nat
      BY <1>8, <3>1
    <3>3. Value(s, k) = Value(s, k - 1) * Base + s[k]
      BY <3>1, <3>2, ValueIs
    <3>4. rest[len - k] = rest[len - i] * Base + (rest[len - k] % Base)
      BY <1>7, <3>1
    <3>5. s[k] = rest[len - k] % Base
      BY <1>8, <3>1
    <3>6. Value(s, k - 1) = rest[len - i]
      BY <2>2, <3>1
    <3>7. Value(s, k) = rest[len - k]
      BY <3>3, <3>4, <3>5, <3>6
    <3> QED BY <3>1, <3>7 DEF k
  <2> HIDE DEF S
  <2>3. \A i \in 0 .. len : i \in S
    BY <2>1, <2>2, UpTo
  <2> QED BY <2>3 DEF S
<1>15. Value(s, len) = n
  <2>1. len \in 0 .. len /\ len - len = 0 /\ rest[0] = n
    BY <1>4
  <2> QED BY <1>14, <2>1
<1> QED BY <1>9, <1>15 DEF s
-----------------------------------------------------------------------------
(* The digits a call looks for.                                            *)

\* The least of some naturals, and the greatest of some up to n.
LEMMA LeastIs ==
  ASSUME NEW S, S \subseteq Nat, S # {}
  PROVE  Min(S) \in S /\ \A y \in S : Min(S) <= y
<1>1. \E x \in S : \A y \in S : x =< y
  BY HasLeast
<1> QED BY <1>1 DEF Min

LEMMA GreatestIs ==
  ASSUME NEW n \in Nat, NEW S, S \subseteq 0 .. n, S # {}
  PROVE  Max(S) \in S /\ \A y \in S : y <= Max(S)
<1> DEFINE T == {z \in 0 .. n : n - z \in S}
<1>1. T \subseteq Nat /\ T # {}
  <2>1. PICK y \in S : TRUE
    OBVIOUS
  <2>2. n - y \in T
    <3>1. y \in 0 .. n
      OBVIOUS
    <3>2. n - y \in 0 .. n /\ n - (n - y) = y
      BY <3>1
    <3> QED BY <3>2
  <2>3. T \subseteq Nat
    OBVIOUS
  <2> HIDE DEF T
  <2> QED BY <2>2, <2>3
<1>2. PICK z \in T : \A y \in T : z <= y
  BY <1>1, HasLeast
<1>3. \A y \in S : n - z >= y
  <2> SUFFICES ASSUME NEW y \in S PROVE n - z >= y
    OBVIOUS
  <2>1. n - y \in 0 .. n /\ n - (n - y) = y /\ y \in 0 .. n
    OBVIOUS
  <2>2. z <= n - y
    BY <1>2, <2>1
  <2> QED BY <2>1, <2>2
<1>4. n - z \in S
  BY <1>2
<1>5. \E x \in S : \A y \in S : x >= y
  BY <1>3, <1>4
<1> HIDE DEF T
<1>6. Max(S) \in S /\ \A y \in S : Max(S) >= y
  BY <1>5 DEF Max
<1> QED BY <1>6

\* The last digit that differs, if one does.
LEMMA LastOtherIs ==
  ASSUME NEW c, NEW limit, NEW n \in Nat
  PROVE  /\ LastOther(c, limit, n) \in 0 .. n
         /\ \A i \in LastOther(c, limit, n) + 1 .. n : c.count[i] = limit[i]
         /\ LastOther(c, limit, n) # 0 =>
              c.count[LastOther(c, limit, n)] # limit[LastOther(c, limit, n)]
<1> DEFINE S == {i \in 1 .. n : c.count[i] # limit[i]} \cup {0}
           p == Max(S)
<1>1. p \in S /\ \A y \in S : y <= p
  <2>1. S \subseteq 0 .. n /\ S # {}
    OBVIOUS
  <2> HIDE DEF S
  <2> QED BY <2>1, GreatestIs
<1>2. LastOther(c, limit, n) = p
  BY DEF LastOther
<1> HIDE DEF p
<1>3. \A i \in p + 1 .. n : c.count[i] = limit[i]
  <2> SUFFICES ASSUME NEW i \in p + 1 .. n, c.count[i] # limit[i] PROVE FALSE
    OBVIOUS
  <2>1. p \in 0 .. n
    BY <1>1
  <2>2. i \in 1 .. n /\ i > p
    BY <2>1
  <2>3. i \in S
    BY <2>2
  <2> QED BY <1>1, <2>1, <2>2, <2>3
<1>4. p \in 0 .. n /\ (p # 0 => c.count[p] # limit[p])
  BY <1>1
<1> QED BY <1>2, <1>3, <1>4

\* The leading digit is not zero, unless it is the last, and follows zeros;
\* and there is one such digit.
LEMMA LeadOf ==
  ASSUME NEW c, c.size \in Nat \ {0}
  PROVE  /\ Lead(c) \in 1 .. c.size
         /\ \A i \in 1 .. Lead(c) - 1 : c.count[i] = 0
         /\ Lead(c) # c.size => c.count[Lead(c)] # 0
<1> DEFINE S == {i \in 1 .. c.size : c.count[i] # 0} \cup {c.size}
           k == Min(S)
<1>1. k \in S /\ \A y \in S : k <= y
  <2>1. S \subseteq Nat /\ S # {}
    OBVIOUS
  <2> HIDE DEF S
  <2> QED BY <2>1, LeastIs
<1>2. Lead(c) = k
  BY DEF Lead
<1> HIDE DEF k
<1>3. \A i \in 1 .. k - 1 : c.count[i] = 0
  <2> SUFFICES ASSUME NEW i \in 1 .. k - 1, c.count[i] # 0 PROVE FALSE
    OBVIOUS
  <2>1. k \in 1 .. c.size
    BY <1>1
  <2>2. i \in S /\ i < k
    BY <2>1
  <2> QED BY <1>1, <2>1, <2>2
<1>4. k \in 1 .. c.size /\ (k # c.size => c.count[k] # 0)
  BY <1>1
<1> QED BY <1>2, <1>3, <1>4

LEMMA LeadIs ==
  ASSUME NEW c, c.size \in Nat \ {0}, NEW k \in 1 .. c.size,
         \A i \in 1 .. k - 1 : c.count[i] = 0, k # c.size => c.count[k] # 0
  PROVE  Lead(c) = k
<1> DEFINE l == Lead(c)
<1>1. /\ l \in 1 .. c.size /\ \A i \in 1 .. l - 1 : c.count[i] = 0
      /\ l # c.size => c.count[l] # 0
  BY LeadOf
<1> HIDE DEF l
<1>2. CASE l < k
  <2>1. l \in 1 .. k - 1 /\ l # c.size
    BY <1>1, <1>2
  <2> QED BY <1>1, <2>1
<1>3. CASE k < l
  <2>1. k \in 1 .. l - 1 /\ k # c.size
    BY <1>1, <1>3
  <2> QED BY <1>1, <2>1
<1>4. CASE l = k
  BY <1>4 DEF l
<1> QED BY <1>1, <1>2, <1>3, <1>4

-----------------------------------------------------------------------------
(* The counters of the limits they were made with.                         *)

\* Those of Any255Base with ptr at the leading digit.
Plain255s(size) == Turns(NewAny255Base(size))
Leading(c) == c.ptr = Lead(c)

\* What they have in common.
LEMMA PlainFields ==
  ASSUME NEW size \in Nat \ {0}, NEW c \in Plain255s(size)
  PROVE  /\ c.any = TRUE /\ c.size = size /\ c.ptr \in 0 .. size
         /\ c.count \in [1 .. size -> Digits]
         /\ c.init = Fill(size, 0) /\ c.max = Fill(size, Base - 1)
         /\ \A i \in 1 .. size : c.init[i] = 0 /\ c.max[i] = Base - 1 /\ c.count[i] \in Digits
         /\ Turns(c) = Plain255s(size)
<1>1. /\ c.any = TRUE /\ c.size = size /\ c.ptr \in 0 .. size
      /\ c.count \in [1 .. size -> Digits]
      /\ c.init = Fill(size, 0) /\ c.max = Fill(size, Base - 1)
  BY DEF Plain255s, Turns, NewAny255Base
<1>2. \A i \in 1 .. size : c.init[i] = 0 /\ c.max[i] = Base - 1 /\ c.count[i] \in Digits
  BY <1>1 DEF Fill
<1>3. Turns(c) = Plain255s(size)
  BY <1>1 DEF Plain255s, Turns, NewAny255Base
<1> QED BY <1>1, <1>2, <1>3

\* A change of the digits and of ptr.
Turned(c, s, k) == [c EXCEPT !.count = s, !.ptr = k]

LEMMA PlainTurn ==
  ASSUME NEW size \in Nat \ {0}, NEW c \in Plain255s(size),
         NEW s \in [1 .. size -> Digits], NEW k \in 0 .. size
  PROVE  /\ Turned(c, s, k) \in Plain255s(size)
         /\ Turned(c, s, k).count = s /\ Turned(c, s, k).ptr = k
BY DEF Plain255s, Turns, NewAny255Base, Turned

\* The new one is zero.
LEMMA ZeroNew ==
  ASSUME NEW size \in Nat \ {0}
  PROVE  NewAny255Base(size) \in Plain255s(size) /\ Leading(NewAny255Base(size))
<1> DEFINE c == NewAny255Base(size)
<1>1. /\ c.size = size /\ c.ptr = size /\ c.any = TRUE /\ c.init = Fill(size, 0)
      /\ c.max = Fill(size, Base - 1) /\ c.count = Fill(size, 0)
  BY DEF NewAny255Base
<1>2. Fill(size, 0) \in [1 .. size -> Digits] /\ \A i \in 1 .. size : Fill(size, 0)[i] = 0
  BY BaseAssumption DEF Fill, Digits
<1>3. c \in Plain255s(size)
  BY <1>2 DEF Plain255s, Turns, NewAny255Base
<1> HIDE DEF c
<1>4. Lead(c) = size
  <2>1. c.size \in Nat \ {0} /\ size \in 1 .. c.size /\ \A i \in 1 .. size - 1 : c.count[i] = 0
    BY <1>1, <1>2
  <2> QED BY <1>1, <2>1, LeadIs
<1> QED BY <1>1, <1>3, <1>4 DEF Leading, c

\* Reset makes a counter its least or its greatest number.
LEMMA PlainReset ==
  ASSUME NEW size \in Nat \ {0}, NEW c \in Plain255s(size), NEW over \in BOOLEAN
  PROVE  /\ Reset(c, over) \in Plain255s(size) /\ Leading(Reset(c, over))
         /\ over => Value(Reset(c, over).count, size) = 0
<1> DEFINE s == Fill(size, IF over THEN 0 ELSE Base - 1)
           k == IF over THEN size ELSE 1
           d == Turned(c, s, k)
<1>1. s \in [1 .. size -> Digits] /\ k \in 1 .. size
  BY BaseAssumption DEF Fill, Digits
<1>2. Reset(c, over) = d
  BY PlainFields DEF Reset, Turned
<1>3. \A i \in 1 .. size : s[i] = IF over THEN 0 ELSE Base - 1
  BY DEF Fill
<1> HIDE DEF s
<1>4. d \in Plain255s(size) /\ d.count = s /\ d.ptr = k
  <2>1. k \in 0 .. size
    BY <1>1
  <2> HIDE DEF k
  <2> QED BY <1>1, <2>1, PlainTurn
<1> HIDE DEF d
<1>5. Lead(d) = k
  <2>1. d.size = size
    BY <1>4, PlainFields
  <2>2. \A i \in 1 .. k - 1 : d.count[i] = 0
    BY <1>3, <1>4
  <2>3. k # d.size => d.count[k] # 0
    BY <1>1, <1>3, <1>4, <2>1, BaseAssumption
  <2> QED BY <1>1, <2>1, <2>2, <2>3, LeadIs
<1>6. over => Value(s, size) = 0
  BY <1>1, <1>3, ZeroValue
<1> QED BY <1>2, <1>4, <1>5, <1>6 DEF Leading
\* The counter after Plus, and what it reports.
Counted(size, n, r) ==
  /\ r.to \in Plain255s(size) /\ Leading(r.to)
  /\ IF n <= Largest(size) THEN r.err = "ok" /\ Value(r.to.count, size) = n
     ELSE r.err = "over" /\ Value(r.to.count, size) = 0

\* Plus turns the digits that are at their limit to zero, and the one before
\* them up.
LEMMA PlainPlus ==
  ASSUME NEW size \in Nat \ {0}, NEW c \in Plain255s(size), Leading(c)
  PROVE  Counted(size, Value(c.count, size) + 1, AnyPlus(c))
<1> DEFINE p == LastOther(c, c.max, c.size)
           s == [i \in 1 .. size |-> CASE i < p -> c.count[i] [] i = p -> (c.count[i] + 1) % Base
                                       [] OTHER -> c.init[i]]
           k == Raised(c.ptr, p)
           d == Turned(c, s, k)
           n == Value(c.count, size)
<1>1. /\ c.any = TRUE /\ c.size = size /\ c.ptr \in 0 .. size
      /\ c.count \in [1 .. size -> Digits]
      /\ \A i \in 1 .. size : c.init[i] = 0 /\ c.max[i] = Base - 1 /\ c.count[i] \in Digits
  BY PlainFields
<1>2. /\ Lead(c) \in 1 .. size /\ \A i \in 1 .. Lead(c) - 1 : c.count[i] = 0
      /\ Lead(c) # size => c.count[Lead(c)] # 0
      /\ c.ptr = Lead(c)
  BY <1>1, LeadOf DEF Leading
<1>3. /\ p \in 0 .. size /\ \A i \in p + 1 .. size : c.count[i] = Base - 1
      /\ p # 0 => c.count[p] # Base - 1
  <2>1. /\ p \in 0 .. c.size /\ \A i \in p + 1 .. c.size : c.count[i] = c.max[i]
        /\ p # 0 => c.count[p] # c.max[p]
    BY <1>1, LastOtherIs
  <2> HIDE DEF p
  <2> QED BY <1>1, <2>1
<1>4. n \in Nat /\ n <= Largest(size) /\ Largest(size) \in Nat
  BY <1>1, LargestIs
<1>5. CASE p = 0
  <2>1. AnyPlus(c) = [to |-> Reset(c, TRUE), err |-> "over"]
    BY <1>5 DEF AnyPlus
  <2>2. /\ Reset(c, TRUE) \in Plain255s(size) /\ Leading(Reset(c, TRUE))
        /\ Value(Reset(c, TRUE).count, size) = 0
    BY PlainReset
  <2>3. n = Largest(size)
    <3>1. \A i \in 1 .. size : c.count[i] = Base - 1
      BY <1>3, <1>5
    <3> QED BY <1>1, <3>1, LargestIs
  <2> HIDE DEF n, p
  <2>4. Counted(size, n + 1, AnyPlus(c))
    <3>1. ~(n + 1 <= Largest(size))
      BY <1>4, <2>3
    <3>2. AnyPlus(c).to = Reset(c, TRUE) /\ AnyPlus(c).err = "over"
      BY <2>1
    <3> QED BY <2>2, <3>1, <3>2 DEF Counted
  <2> QED BY <2>4 DEF n
<1>6. CASE p # 0
  <2>1. AnyPlus(c) = [to |-> d, err |-> "ok"]
    BY <1>1, <1>6 DEF AnyPlus, Turned
  <2> HIDE DEF p
  <2>2. p \in 1 .. size /\ c.count[p] \in 0 .. Base - 2 /\ (c.count[p] + 1) % Base = c.count[p] + 1
    <3>1. p \in 1 .. size /\ c.count[p] \in 0 .. Base - 2
      BY <1>1, <1>3, <1>6, BaseAssumption DEF Digits
    <3>2. \A x \in 0 .. Base - 1 : x % Base = x
      BY BaseAssumption
    <3>3. c.count[p] + 1 \in 0 .. Base - 1
      BY <3>1, BaseAssumption
    <3> QED BY <3>1, <3>2, <3>3
  <2>3. \A i \in 1 .. size : s[i] = IF i < p THEN c.count[i]
                                    ELSE IF i = p THEN c.count[p] + 1 ELSE 0
    BY <1>1, <2>2
  <2>4. s \in [1 .. size -> Digits]
    <3>1. 0 \in Digits /\ c.count[p] + 1 \in Digits
      BY <2>2, BaseAssumption DEF Digits
    <3>2. \A i \in 1 .. size : s[i] \in Digits
      <4> HIDE DEF s
      <4> QED BY <1>1, <2>3, <3>1
    <3> QED BY <3>2
  <2>5. k \in 1 .. size /\ k = IF c.ptr <= p THEN c.ptr ELSE p
    <3>1. {c.ptr, p} \subseteq Nat /\ {c.ptr, p} # {} /\ c.ptr \in 1 .. size
      BY <1>1, <1>2, <2>2
    <3>2. k \in {c.ptr, p} /\ \A y \in {c.ptr, p} : k <= y
      BY <3>1, LeastIs DEF Raised
    <3> HIDE DEF k
    <3> QED BY <2>2, <3>1, <3>2
  <2> HIDE DEF s, k
  <2>6. d \in Plain255s(size) /\ d.count = s /\ d.ptr = k /\ d.size = size
    <3>1. k \in 0 .. size
      BY <2>5
    <3>2. d \in Plain255s(size) /\ d.count = s /\ d.ptr = k
      BY <2>4, <3>1, PlainTurn
    <3> QED BY <3>2, PlainFields
  <2> HIDE DEF d
  <2>7. Lead(d) = k
    <3>1. \A i \in 1 .. k - 1 : d.count[i] = 0
      BY <1>2, <2>3, <2>5, <2>6
    <3>2. k # d.size => d.count[k] # 0
      <4>1. CASE k = p
        BY <2>2, <2>3, <2>6, <4>1
      <4>2. CASE k # p
        <5>1. k = c.ptr /\ k < p
          BY <1>1, <2>2, <2>5, <4>2
        <5> QED BY <1>2, <2>2, <2>3, <2>5, <2>6, <5>1
      <4> QED BY <4>1, <4>2
    <3> QED BY <2>5, <2>6, <3>1, <3>2, LeadIs
  <2>8. Value(s, size) = n + 1
    <3> DEFINE S == {j \in 0 .. size - p : Value(s, p + j) = Value(c.count, p + j) + 1}
    <3>1. \A i \in 1 .. size : s[i] \in Nat /\ c.count[i] \in Nat
      BY <1>1, <2>4 DEF Digits
    <3>2. \A j \in 1 .. size : /\ Value(s, j) = Value(s, j - 1) * Base + s[j]
                               /\ Value(c.count, j) = Value(c.count, j - 1) * Base + c.count[j]
                               /\ Value(s, j) \in Nat /\ Value(c.count, j) \in Nat
      <4> SUFFICES ASSUME NEW j \in 1 .. size
                   PROVE  /\ Value(s, j) = Value(s, j - 1) * Base + s[j]
                          /\ Value(c.count, j) = Value(c.count, j - 1) * Base + c.count[j]
                          /\ Value(s, j) \in Nat /\ Value(c.count, j) \in Nat
        OBVIOUS
      <4>1. j \in Nat /\ j # 0 /\ \A i \in 1 .. j : s[i] \in Nat /\ c.count[i] \in Nat
        BY <3>1
      <4> QED BY <4>1, ValueIs
    <3>3. Value(s, p - 1) = Value(c.count, p - 1) /\ Value(s, p - 1) \in Nat
      <4>1. p - 1 \in Nat /\ \A i \in 1 .. p - 1 : s[i] \in Nat /\ s[i] = c.count[i]
        BY <2>2, <2>3, <3>1
      <4>2. \A j \in 0 .. p - 1 : Value(s, j) = Value(c.count, j)
        BY <4>1, SameValue
      <4>3. Value(s, p - 1) \in Nat
        BY <4>1, ValueIs
      <4> QED BY <4>1, <4>2, <4>3
    <3>4. 0 \in S
      <4>1. Value(s, p) = Value(c.count, p) + 1
        <5> DEFINE v == Value(s, p - 1)
        <5>1. Value(s, p) = v * Base + (c.count[p] + 1) /\ Value(c.count, p) = v * Base + c.count[p]
          BY <2>2, <2>3, <3>2, <3>3
        <5>2. v * Base \in Nat
          BY <3>3, BaseAssumption
        <5> HIDE DEF v
        <5> QED BY <2>2, <5>1, <5>2
      <4> QED BY <2>2, <4>1
    <3>5. ASSUME NEW j \in 0 .. (size - p) - 1, j \in S
          PROVE  j + 1 \in S
      <4> DEFINE q == p + (j + 1)
                 v == Value(c.count, q - 1)
      <4>1. q \in p + 1 .. size /\ q \in 1 .. size /\ q - 1 = p + j /\ q - 1 \in 1 .. size /\ j + 1 \in 0 .. size - p
        BY <2>2
      <4> HIDE DEF q
      <4>2. s[q] = 0 /\ c.count[q] = Base - 1
        BY <1>3, <2>2, <2>3, <4>1
      <4>3. Value(s, q) = Value(s, q - 1) * Base + 0 /\ Value(c.count, q) = v * Base + (Base - 1)
        BY <3>2, <4>1, <4>2
      <4>4. Value(s, q - 1) = v + 1 /\ v \in Nat
        BY <3>2, <3>5, <4>1
      <4> HIDE DEF v
      <4>5. (v + 1) * Base = v * Base + Base /\ v * Base \in Nat
        BY <4>4, BaseAssumption
      <4>6. Value(s, q) = Value(c.count, q) + 1
        BY <4>3, <4>4, <4>5, BaseAssumption
      <4> QED BY <4>1, <4>6 DEF q
    <3>6. size - p \in Nat
      BY <2>2
    <3> HIDE DEF S
    <3>7. \A j \in 0 .. size - p : j \in S
      BY <3>4, <3>5, <3>6, UpTo
    <3>8. size - p \in S
      BY <3>6, <3>7
    <3>9. p + (size - p) = size
      BY <2>2
    <3> QED BY <3>8, <3>9 DEF S
  <2>9. n + 1 <= Largest(size)
    <3>1. \A i \in 1 .. size : s[i] \in Digits
      BY <2>4
    <3>2. Value(s, size) <= Largest(size)
      BY <3>1, LargestIs
    <3> QED BY <2>8, <3>2
  <2> HIDE DEF n
  <2>10. Counted(size, n + 1, AnyPlus(c))
    BY <2>1, <2>6, <2>7, <2>8, <2>9 DEF Counted, Leading
  <2> QED BY <2>10 DEF n
<1> QED BY <1>5, <1>6
\* AddUint64 adds one at a time, and stops when that goes over.
LEMMA PlainAdd ==
  ASSUME NEW size \in Nat \ {0}, NEW c \in Plain255s(size), Leading(c), NEW m \in Nat
  PROVE  Counted(size, Value(c.count, size) + m, AnyAdd(c, m))
<1> DEFINE S == {r \in [to : Plain255s(size), err : {"ok", "over"}] : Leading(r.to)}
           first == [to |-> c, err |-> "ok"]
           next(r) == IF r.err = "over" THEN r ELSE AnyPlus(r.to)
           step == [i \in 1 .. m |-> [r \in S |-> next(r)]]
           add[i \in 0 .. m] ==
             IF i = 0 THEN first
             ELSE LET r == add[i - 1] IN IF r.err = "over" THEN r ELSE AnyPlus(r.to)
           v == Value(c.count, size)
<1>1. first \in S
  OBVIOUS
<1>2. ASSUME NEW r \in S
      PROVE  next(r) \in S
  <2>1. r.to \in Plain255s(size) /\ Leading(r.to)
    OBVIOUS
  <2>2. Counted(size, Value(r.to.count, size) + 1, AnyPlus(r.to))
    BY <2>1, PlainPlus
  <2>3. /\ AnyPlus(r.to).to \in Plain255s(size) /\ Leading(AnyPlus(r.to).to)
        /\ AnyPlus(r.to).err \in {"ok", "over"}
    BY <2>2 DEF Counted
  <2>4. AnyPlus(r.to) = [to |-> AnyPlus(r.to).to, err |-> AnyPlus(r.to).err]
    BY DEF AnyPlus
  <2> QED BY <2>3, <2>4
<1>3. \A i \in 1 .. m, r \in S : step[i][r] = next(r) /\ step[i][r] \in S
  BY <1>2
<1>4. AnyAdd(c, m) = add[m]
  BY DEF AnyAdd
<1>5. PICK g \in [0 .. m -> S] : Iterates(g, m, first, step)
  <2>1. Steps(step, m, S)
    BY <1>3 DEF Steps
  <2> HIDE DEF step, S, first
  <2> QED BY <1>1, <2>1, Recursion
<1>6. add = [i \in 0 .. m |-> IF i = 0 THEN first ELSE next(add[i - 1])]
  <2>1. \A i \in 0 .. m : g[i] = IF i = 0 THEN first ELSE next(g[i - 1])
    <3> SUFFICES ASSUME NEW i \in 0 .. m
                 PROVE  g[i] = IF i = 0 THEN first ELSE next(g[i - 1])
      OBVIOUS
    <3>1. CASE i = 0
      BY <1>5, <3>1 DEF Iterates
    <3>2. CASE i # 0
      <4>1. i \in 1 .. m /\ g[i - 1] \in S
        BY <3>2
      <4> HIDE DEF step, next, S
      <4> QED BY <1>3, <1>5, <3>2, <4>1 DEF Iterates
    <3> QED BY <3>1, <3>2
  <2>2. g = [i \in 0 .. m |-> IF i = 0 THEN first ELSE next(g[i - 1])]
    BY <2>1
  <2> HIDE DEF step, first, S
  <2> QED BY <2>2
<1> HIDE DEF add, step
<1> DEFINE T == {i \in 0 .. m : add[i] \in S /\ Counted(size, v + i, add[i])}
<1>7. v \in Nat /\ v <= Largest(size) /\ Largest(size) \in Nat
  <2>1. \A i \in 1 .. size : c.count[i] \in Digits
    BY PlainFields
  <2> QED BY <2>1, LargestIs
<1>8. 0 \in T
  <2>1. add[0] = first /\ v + 0 = v
    BY <1>6, <1>7
  <2>2. first.to = c /\ first.err = "ok"
    OBVIOUS
  <2>3. Counted(size, v, first)
    BY <1>7, <2>2 DEF Counted
  <2> QED BY <1>1, <2>1, <2>3
<1>9. ASSUME NEW i \in 0 .. m - 1, i \in T
      PROVE  i + 1 \in T
  <2> DEFINE r == add[i]
             n == v + i
  <2>1. i + 1 \in 0 .. m /\ i + 1 # 0 /\ (i + 1) - 1 = i /\ n \in Nat /\ n + 1 = v + (i + 1)
    BY <1>7
  <2>2. add[i + 1] = next(r)
    BY <1>6, <2>1
  <2>3. r \in S /\ Counted(size, n, r)
    BY <1>9
  <2> HIDE DEF r, n
  <2>4. next(r) \in S
    BY <1>2, <2>3
  <2>5. r.to \in Plain255s(size) /\ Leading(r.to)
    BY <2>3
  <2>6. Counted(size, n + 1, next(r))
    <3>1. CASE n <= Largest(size)
      <4>1. r.err = "ok" /\ Value(r.to.count, size) = n
        BY <2>3, <3>1 DEF Counted
      <4>2. next(r) = AnyPlus(r.to)
        BY <4>1
      <4> QED BY <2>5, <4>1, <4>2, PlainPlus
    <3>2. CASE ~(n <= Largest(size))
      <4>1. r.err = "over" /\ Value(r.to.count, size) = 0
        BY <2>3, <3>2 DEF Counted
      <4>2. next(r) = r /\ ~(n + 1 <= Largest(size))
        BY <1>7, <2>1, <3>2, <4>1
      <4> QED BY <2>5, <4>1, <4>2 DEF Counted
    <3> QED BY <3>1, <3>2
  <2> HIDE DEF next, S, v
  <2> QED BY <2>1, <2>2, <2>4, <2>6
<1> HIDE DEF T
<1>10. \A i \in 0 .. m : i \in T
  BY <1>8, <1>9, UpTo
<1> QED BY <1>4, <1>10 DEF T

\* Mul leaves a zero, and makes everything else zero by going over.
LEMMA PlainMul ==
  ASSUME NEW size \in Nat \ {0}, NEW c \in Plain255s(size), Leading(c), NEW m \in Nat
  PROVE  AnyMul(c, m).to \in Plain255s(size) /\ Leading(AnyMul(c, m).to)
<1>1. Reset(c, TRUE) \in Plain255s(size) /\ Leading(Reset(c, TRUE))
  BY PlainReset
<1> QED BY <1>1 DEF AnyMul

\* A borrow takes one off the last digit that is not zero, and leaves digits
\* that are not zero behind it.
LEMMA PlainBorrow ==
  ASSUME NEW size \in Nat \ {0}, NEW c \in Plain255s(size), NEW n \in 1 .. size - 1,
         c.count[n] # 0
  PROVE  /\ Borrow(c, n) \in Plain255s(size) /\ Borrow(c, n).count[size] = Base - 1
         /\ Leading(c) => Leading(Borrow(c, n))
<1> DEFINE s == [i \in 1 .. size |->
                  CASE i = size -> c.max[i]
                    [] i = n /\ n < size -> (c.count[i] - 1) % Base
                    [] n < i /\ i < size -> (c.max[i] - 1) % Base
                    [] OTHER -> c.count[i]]
           k == IF s[n] = c.init[n] /\ c.ptr = n THEN c.ptr + 1 ELSE c.ptr
           d == Turned(c, s, k)
<1>1. /\ c.any = TRUE /\ c.size = size /\ c.ptr \in 0 .. size
      /\ c.count \in [1 .. size -> Digits]
      /\ \A i \in 1 .. size : c.init[i] = 0 /\ c.max[i] = Base - 1 /\ c.count[i] \in Digits
  BY PlainFields
<1>2. Borrow(c, n) = d
  BY <1>1 DEF Borrow, Turned
<1>3. n \in 1 .. size /\ n < size /\ c.count[n] \in 1 .. Base - 1
  BY <1>1, BaseAssumption DEF Digits
<1>4. /\ (c.count[n] - 1) % Base = c.count[n] - 1
      /\ ((Base - 1) - 1) % Base = Base - 2
  <2>1. \A x \in 0 .. Base - 1 : x % Base = x
    BY BaseAssumption
  <2>2. c.count[n] - 1 \in 0 .. Base - 1 /\ (Base - 1) - 1 \in 0 .. Base - 1
    BY <1>3, BaseAssumption
  <2> QED BY <2>1, <2>2, BaseAssumption
<1>5. \A i \in 1 .. size : s[i] = IF i = size THEN Base - 1
                                  ELSE IF i = n THEN c.count[n] - 1
                                  ELSE IF n < i THEN Base - 2 ELSE c.count[i]
  <2> SUFFICES ASSUME NEW i \in 1 .. size
               PROVE  s[i] = IF i = size THEN Base - 1
                             ELSE IF i = n THEN c.count[n] - 1
                             ELSE IF n < i THEN Base - 2 ELSE c.count[i]
    OBVIOUS
  <2>1. c.max[i] = Base - 1
    BY <1>1
  <2> QED BY <1>3, <1>4, <2>1
<1>6. s \in [1 .. size -> Digits]
  <2>1. Base - 1 \in Digits /\ c.count[n] - 1 \in Digits /\ Base - 2 \in Digits
    BY <1>3, BaseAssumption DEF Digits
  <2>2. \A i \in 1 .. size : s[i] \in Digits
    <3> HIDE DEF s
    <3> QED BY <1>1, <1>5, <2>1
  <2> QED BY <2>2
<1> HIDE DEF s
<1>7. k \in 0 .. size
  BY <1>1, <1>3
<1>8. s[n] = c.count[n] - 1 /\ s[size] = Base - 1 /\ c.init[n] = 0
  BY <1>1, <1>3, <1>5
<1>9. k = IF s[n] = 0 /\ c.ptr = n THEN n + 1 ELSE c.ptr
  BY <1>8
<1> HIDE DEF k
<1>10. d \in Plain255s(size) /\ d.count = s /\ d.ptr = k /\ d.size = size
  <2>1. d \in Plain255s(size) /\ d.count = s /\ d.ptr = k
    BY <1>6, <1>7, PlainTurn
  <2> QED BY <2>1, PlainFields
<1> HIDE DEF d
<1>11. ASSUME Leading(c)
       PROVE  Lead(d) = k
  <2>1. /\ c.ptr \in 1 .. size /\ \A i \in 1 .. c.ptr - 1 : c.count[i] = 0
        /\ c.ptr # size => c.count[c.ptr] # 0
    BY <1>1, <1>11, LeadOf DEF Leading
  <2>2. c.ptr <= n
    <3> SUFFICES ASSUME c.ptr > n PROVE FALSE
      BY <1>3, <2>1
    <3>1. n \in 1 .. c.ptr - 1
      BY <2>1
    <3> QED BY <1>3, <2>1, <3>1
  <2>3. k \in 1 .. size
    BY <1>3, <1>9, <2>1
  <2>4. \A i \in 1 .. k - 1 : s[i] = 0
    <3> SUFFICES ASSUME NEW i \in 1 .. k - 1 PROVE s[i] = 0
      OBVIOUS
    <3>1. i \in 1 .. size /\ i # size
      BY <2>3
    <3>2. CASE i = n
      <4>1. s[n] = 0
        BY <1>3, <1>9, <2>1, <2>2, <3>2
      <4> QED BY <3>2, <4>1
    <3>3. CASE i # n
      <4>1. i \in 1 .. c.ptr - 1 /\ i < n
        BY <1>3, <1>9, <2>1, <2>2, <2>3, <3>3
      <4> QED BY <1>5, <2>1, <3>1, <4>1
    <3> QED BY <3>2, <3>3
  <2>5. ASSUME k # size
        PROVE  s[k] # 0
    <3>1. CASE k = n + 1
      <4>1. s[k] = Base - 2
        BY <1>3, <1>5, <2>3, <2>5, <3>1
      <4> QED BY <4>1, BaseAssumption
    <3>2. CASE k = n
      BY <1>3, <1>9, <2>1, <2>2, <3>2
    <3>3. CASE k < n
      <4>1. k = c.ptr /\ k # size /\ c.count[k] # 0
        BY <1>3, <1>9, <2>1, <3>3
      <4> QED BY <1>3, <1>5, <2>3, <3>3, <4>1
    <3> QED BY <1>3, <1>9, <2>1, <2>2, <2>3, <3>1, <3>2, <3>3
  <2> QED BY <1>10, <2>3, <2>4, <2>5, LeadIs
<1> QED BY <1>2, <1>8, <1>10, <1>11 DEF Leading
\* Mimus needs one borrow at most, and always finds the digit to borrow from.
LEMMA PlainMimus ==
  ASSUME NEW size \in Nat \ {0}, NEW c \in Plain255s(size), Leading(c)
  PROVE  /\ AnyMimus(c).to \in Plain255s(size) /\ Leading(AnyMimus(c).to)
         /\ AnyMimus(c).err # "panic"
<1> DEFINE D == Plain255s(size)
           other(d) == LastOther(d, d.init, d.size - 1)
           some(d) == d.count[d.size] # d.init[d.size]
           less(d) == [to |-> [d EXCEPT !.count[d.size] = (@ - 1) % Base], err |-> "ok"]
           mimus[d \in Turns(c)] ==
             LET n == LastOther(d, d.init, d.size - 1)
             IN CASE d.count[d.size] # d.init[d.size] ->
                       [to |-> [d EXCEPT !.count[d.size] = (@ - 1) % Base], err |-> "ok"]
                  [] d.count[d.size] = d.init[d.size] /\ d.ptr = d.size ->
                       [to |-> Reset(d, FALSE), err |-> "over"]
                  [] d.count[d.size] = d.init[d.size] /\ d.ptr # d.size /\ n = 0 ->
                       [to |-> d, err |-> "panic"]
                  [] OTHER -> mimus[Borrow(d, n)]
           last(d) == IF d.ptr = d.size THEN [to |-> Reset(d, FALSE), err |-> "over"]
                      ELSE [to |-> d, err |-> "panic"]
           ends(d) == some(d) \/ d.ptr = d.size \/ other(d) = 0
           end(d) == IF some(d) THEN less(d) ELSE last(d)
           next(d) == Borrow(d, other(d))
           f == [d \in D |-> IF ends(d) THEN end(d) ELSE less(next(d))]
<1>1. Turns(c) = D
  BY PlainFields
<1>2. ASSUME NEW d \in D
      PROVE  /\ d.size = size /\ d.init[size] = 0 /\ d.count[size] \in Digits /\ d.ptr \in 0 .. size
             /\ other(d) \in 0 .. size - 1 /\ \A i \in other(d) + 1 .. size - 1 : d.count[i] = 0
             /\ other(d) # 0 => d.count[other(d)] # 0
  <2> HIDE DEF mimus, f
  <2>1. /\ d.size = size /\ d.ptr \in 0 .. size
        /\ \A i \in 1 .. size : d.init[i] = 0 /\ d.count[i] \in Digits
    <3>1. d \in Plain255s(size)
      OBVIOUS
    <3>2. /\ d.size = size /\ d.ptr \in 0 .. size
          /\ \A i \in 1 .. size : d.init[i] = 0 /\ d.max[i] = Base - 1 /\ d.count[i] \in Digits
      BY <3>1, PlainFields
    <3> QED BY <3>2
  <2> DEFINE n == other(d)
  <2>2. /\ n \in 0 .. size - 1 /\ \A i \in n + 1 .. size - 1 : d.count[i] = d.init[i]
        /\ n # 0 => d.count[n] # d.init[n]
    <3>1. size - 1 \in Nat
      OBVIOUS
    <3> QED BY <2>1, <3>1, LastOtherIs
  <2> HIDE DEF n
  <2>3. /\ n \in 0 .. size - 1 /\ \A i \in n + 1 .. size - 1 : d.count[i] = 0
        /\ n # 0 => d.count[n] # 0
    BY <2>1, <2>2
  <2> QED BY <2>1, <2>3 DEF n
<1>3. ASSUME NEW d \in D, ~ends(d)
      PROVE  next(d) \in D /\ some(next(d)) /\ (Leading(d) => Leading(next(d)))
  <2> DEFINE n == other(d)
             e == Borrow(d, n)
  <2>1. n \in 1 .. size - 1 /\ d.count[n] # 0
    BY <1>2, <1>3
  <2> HIDE DEF n
  <2>2. e \in D /\ e.count[size] = Base - 1 /\ (Leading(d) => Leading(e))
    BY <2>1, PlainBorrow
  <2> HIDE DEF e
  <2>3. e.size = size /\ e.init[size] = 0
    BY <1>2, <2>2
  <2> HIDE DEF D
  <2>4. some(e)
    BY <2>2, <2>3, BaseAssumption
  <2> QED BY <2>2, <2>4 DEF e, n
<1>4. mimus = [d \in D |-> IF ends(d) THEN end(d) ELSE mimus[next(d)]]
  <2>1. \A d \in D : f[d] = IF ends(d) THEN end(d) ELSE f[next(d)]
    <3> SUFFICES ASSUME NEW d \in D
                 PROVE  f[d] = IF ends(d) THEN end(d) ELSE f[next(d)]
      OBVIOUS
    <3>1. CASE ends(d)
      BY <3>1
    <3>2. CASE ~ends(d)
      <4>1. next(d) \in D /\ some(next(d))
        BY <1>3, <3>2
      <4>2. f[next(d)] = less(next(d))
        <5> HIDE DEF D, some, less, next
        <5> QED BY <4>1
      <4> HIDE DEF ends, end, less, next
      <4> QED BY <3>2, <4>2
    <3> QED BY <3>1, <3>2
  <2>2. f = [d \in D |-> IF ends(d) THEN end(d) ELSE f[next(d)]]
    <3> HIDE DEF ends, end, next, D, less
    <3> QED BY <2>1
  <2> HIDE DEF f
  <2>3. f = [d \in Turns(c) |->
                LET n == LastOther(d, d.init, d.size - 1)
                IN CASE d.count[d.size] # d.init[d.size] ->
                          [to |-> [d EXCEPT !.count[d.size] = (@ - 1) % Base], err |-> "ok"]
                     [] d.count[d.size] = d.init[d.size] /\ d.ptr = d.size ->
                          [to |-> Reset(d, FALSE), err |-> "over"]
                     [] d.count[d.size] = d.init[d.size] /\ d.ptr # d.size /\ n = 0 ->
                          [to |-> d, err |-> "panic"]
                     [] OTHER -> f[Borrow(d, n)]]
    <3> HIDE DEF D
    <3> QED BY <1>1, <2>2
  <2>4. mimus = [d \in Turns(c) |->
                LET n == LastOther(d, d.init, d.size - 1)
                IN CASE d.count[d.size] # d.init[d.size] ->
                          [to |-> [d EXCEPT !.count[d.size] = (@ - 1) % Base], err |-> "ok"]
                     [] d.count[d.size] = d.init[d.size] /\ d.ptr = d.size ->
                          [to |-> Reset(d, FALSE), err |-> "over"]
                     [] d.count[d.size] = d.init[d.size] /\ d.ptr # d.size /\ n = 0 ->
                          [to |-> d, err |-> "panic"]
                     [] OTHER -> mimus[Borrow(d, n)]]
    <3> HIDE DEF D, ends, end, next, some, less, last, other
    <3> QED BY <2>3
  <2> HIDE DEF mimus, D
  <2> QED BY <1>1, <2>4
<1>5. AnyMimus(c) = mimus[c]
  BY DEF AnyMimus
<1> HIDE DEF mimus, f
<1>6. AnyMimus(c) = IF ends(c) THEN end(c) ELSE less(next(c))
  <2>1. mimus[c] = IF ends(c) THEN end(c) ELSE mimus[next(c)]
    <3> HIDE DEF ends, end, next, D
    <3>1. c \in D
      BY DEF D
    <3> QED BY <1>4, <3>1
  <2>2. ASSUME ~ends(c)
        PROVE  mimus[next(c)] = less(next(c))
    <3>1. next(c) \in D /\ some(next(c))
      BY <1>3, <2>2
    <3> DEFINE e == next(c)
    <3> HIDE DEF e
    <3>2. mimus[e] = IF ends(e) THEN end(e) ELSE mimus[next(e)]
      <4> HIDE DEF ends, end, next, D
      <4> QED BY <1>4, <3>1 DEF e
    <3>3. ends(e) /\ end(e) = less(e)
      <4>1. some(e)
        BY <3>1 DEF e
      <4> HIDE DEF some, less, last, other
      <4> QED BY <4>1
    <3> HIDE DEF ends, end, less
    <3> QED BY <3>2, <3>3 DEF e
  <2> HIDE DEF ends, end, less, next
  <2> QED BY <1>5, <2>1, <2>2
<1>7. ASSUME NEW d \in D, Leading(d), some(d)
      PROVE  less(d).to \in D /\ Leading(less(d).to)
  <2> DEFINE s == [i \in 1 .. size |-> IF i = size THEN (d.count[size] - 1) % Base ELSE d.count[i]]
             e == Turned(d, s, d.ptr)
  <2>1. /\ d.size = size /\ d.init[size] = 0 /\ d.count \in [1 .. size -> Digits] /\ d.ptr \in 0 .. size
        /\ d.count[size] # 0
    BY <1>2, <1>7, PlainFields
  <2>2. less(d).to = e
    <3>1. [d.count EXCEPT ![size] = (@ - 1) % Base] = s
      BY <2>1
    <3>2. DOMAIN d = {"any", "size", "ptr", "init", "count", "max"}
      BY DEF Plain255s, Turns
    <3> HIDE DEF s
    <3> QED BY <2>1, <3>1, <3>2 DEF Turned
  <2>3. s \in [1 .. size -> Digits]
    <3>1. \A x \in Digits : (x - 1) % Base \in Digits
      BY BaseAssumption DEF Digits
    <3>2. d.count[size] \in Digits
      BY <2>1
    <3> QED BY <2>1, <3>1, <3>2
  <2>4. \A i \in 1 .. size - 1 : s[i] = d.count[i]
    OBVIOUS
  <2> HIDE DEF s
  <2>5. e \in D /\ e.count = s /\ e.ptr = d.ptr /\ e.size = size
    <3>1. e \in D /\ e.count = s /\ e.ptr = d.ptr
      BY <2>1, <2>3, PlainTurn
    <3> QED BY <1>2, <3>1
  <2> HIDE DEF e
  <2>6. /\ d.ptr \in 1 .. size /\ \A i \in 1 .. d.ptr - 1 : d.count[i] = 0
        /\ d.ptr # size => d.count[d.ptr] # 0
    BY <1>7, <2>1, LeadOf DEF Leading
  <2>7. Lead(e) = d.ptr
    <3>1. \A i \in 1 .. d.ptr - 1 : e.count[i] = 0
      BY <2>4, <2>5, <2>6
    <3>2. d.ptr # e.size => e.count[d.ptr] # 0
      BY <2>4, <2>5, <2>6
    <3> QED BY <2>5, <2>6, <3>1, <3>2, LeadIs
  <2> HIDE DEF less, D
  <2> QED BY <2>2, <2>5, <2>7 DEF Leading
<1>8. CASE some(c)
  <2>1. AnyMimus(c) = less(c) /\ AnyMimus(c).err = "ok"
    BY <1>6, <1>8
  <2> HIDE DEF less
  <2> QED BY <1>7, <1>8, <2>1
<1>9. CASE ~some(c) /\ c.ptr = size
  <2>1. AnyMimus(c) = [to |-> Reset(c, FALSE), err |-> "over"]
    BY <1>2, <1>6, <1>9
  <2>2. Reset(c, FALSE) \in Plain255s(size) /\ Leading(Reset(c, FALSE))
    BY PlainReset
  <2>3. AnyMimus(c).to = Reset(c, FALSE) /\ AnyMimus(c).err = "over"
    BY <2>1
  <2> QED BY <2>2, <2>3
<1>10. CASE ~some(c) /\ c.ptr # size
  <2>1. /\ c.ptr \in 1 .. size /\ c.count[c.ptr] # 0 /\ c.size = size
    BY <1>2, <1>10, LeadOf DEF Leading
  <2>2. other(c) # 0
    <3> SUFFICES ASSUME other(c) = 0 PROVE FALSE
      OBVIOUS
    <3> DEFINE n == other(c)
    <3>1. \A i \in n + 1 .. size - 1 : c.count[i] = 0
      BY <1>2
    <3> HIDE DEF n
    <3>2. c.ptr \in n + 1 .. size - 1
      BY <1>10, <2>1 DEF n
    <3> QED BY <2>1, <3>1, <3>2
  <2>3. ~ends(c)
    BY <1>10, <2>1, <2>2
  <2> DEFINE e == next(c)
  <2>4. e \in D /\ some(e) /\ Leading(e)
    BY <1>3, <2>3
  <2>5. AnyMimus(c) = less(e)
    BY <1>6, <2>3
  <2> HIDE DEF e
  <2>6. less(e).to \in D /\ Leading(less(e).to) /\ less(e).err = "ok"
    BY <1>7, <2>4
  <2> HIDE DEF less
  <2> QED BY <2>5, <2>6
<1> QED BY <1>8, <1>9, <1>10
-----------------------------------------------------------------------------
(* fix64base, with the limits it was made with.                            *)

\* More digits stand for more, and one at least for two.
LEMMA LargestGrows ==
  ASSUME NEW m \in Nat \ {0}, NEW n \in 1 .. m
  PROVE  Largest(n) \in Nat /\ Largest(m) \in Nat /\ 2 <= Largest(n) /\ Largest(n) <= Largest(m)
<1>1. \A k \in Nat : Largest(k) \in Nat
  <2> SUFFICES ASSUME NEW k \in Nat PROVE Largest(k) \in Nat
    OBVIOUS
  <2>1. \A i \in 1 .. k : Fill(k, 0)[i] \in Digits
    BY BaseAssumption DEF Fill, Digits
  <2> QED BY <2>1, LargestIs
<1>2. \A k \in Nat : Largest(k) <= Largest(k + 1)
  <2> SUFFICES ASSUME NEW k \in Nat PROVE Largest(k) <= Largest(k + 1)
    OBVIOUS
  <2> DEFINE s == Fill(k, Base - 1)
             t == Fill(k + 1, Base - 1)
  <2>1. /\ \A i \in 1 .. k : s[i] \in Nat /\ s[i] = t[i]
        /\ \A i \in 1 .. k + 1 : t[i] \in Nat
        /\ t[k + 1] = Base - 1 /\ k + 1 \in Nat /\ k + 1 # 0 /\ (k + 1) - 1 = k
    BY BaseAssumption DEF Fill
  <2>2. Largest(k) = Value(s, k) /\ Largest(k + 1) = Value(t, k + 1)
    BY DEF Largest
  <2> HIDE DEF s, t
  <2>3. Value(s, k) = Value(t, k)
    <3>1. \A j \in 0 .. k : Value(s, j) = Value(t, j)
      BY <2>1, SameValue
    <3> QED BY <3>1
  <2>4. Value(t, k + 1) = Value(t, k) * Base + (Base - 1)
    BY <2>1, ValueIs
  <2>5. \A x \in Nat : x <= x * Base + (Base - 1)
    BY BaseAssumption
  <2>6. Value(s, k) \in Nat
    BY <1>1, <2>2
  <2> QED BY <2>2, <2>3, <2>4, <2>5, <2>6
<1>3. \A j \in 0 .. m - n : Largest(n) <= Largest(n + j)
  <2> DEFINE T == {j \in 0 .. m - n : Largest(n) <= Largest(n + j)}
  <2>1. 0 \in T
    BY <1>1
  <2>2. ASSUME NEW j \in 0 .. (m - n) - 1, j \in T
        PROVE  j + 1 \in T
    <3>1. n + j \in Nat /\ n + (j + 1) = (n + j) + 1 /\ j + 1 \in 0 .. m - n
      OBVIOUS
    <3>2. Largest(n + j) <= Largest((n + j) + 1) /\ Largest(n) <= Largest(n + j)
      BY <1>2, <2>2, <3>1
    <3>3. Largest(n) \in Nat /\ Largest(n + j) \in Nat /\ Largest((n + j) + 1) \in Nat
      BY <1>1, <3>1
    <3> QED BY <3>1, <3>2, <3>3
  <2> HIDE DEF T
  <2>3. m - n \in Nat
    OBVIOUS
  <2>4. \A j \in 0 .. m - n : j \in T
    BY <2>1, <2>2, <2>3, UpTo
  <2> QED BY <2>4 DEF T
<1>4. Largest(n) <= Largest(m)
  <2>1. m - n \in 0 .. m - n /\ n + (m - n) = m
    OBVIOUS
  <2> QED BY <1>3, <2>1
<1>5. 2 <= Largest(n)
  <2> DEFINE t == [i \in 1 .. n |-> IF i = n THEN Base - 1 ELSE 0]
             u == [i \in 1 .. n |-> IF i = n THEN Base - 2 ELSE 0]
  <2>1. /\ \A i \in 1 .. n : t[i] \in Digits /\ u[i] \in Digits
        /\ u[n] < t[n] /\ u[n] # 0 /\ \A i \in 1 .. n - 1 : u[i] = t[i]
    BY BaseAssumption DEF Digits
  <2> HIDE DEF t, u
  <2>2. n \in 1 .. n /\ n \in Nat /\ \A i \in 1 .. n : u[i] \in Digits
    BY <2>1
  <2>3. Value(u, n) < Value(t, n)
    BY <2>1, <2>2, LessValue
  <2>4. Value(u, n) > 0 /\ Value(u, n) \in Nat
    BY <2>1, <2>2, ZeroValue, LargestIs
  <2>5. Value(t, n) <= Largest(n) /\ Value(t, n) \in Nat
    BY <2>1, <2>2, LargestIs
  <2> QED BY <1>1, <2>2, <2>3, <2>4, <2>5
<1> QED BY <1>1, <1>4, <1>5

\* Those of fix64base.
PlainFixes ==
  {c \in [any : {FALSE}, size : 1 .. Word, ptr : Nat, init : {0},
          count : 0 .. Uint64s - 1, max : 0 .. Uint64s - 1] :
     c.max = IF c.size = Word THEN Largest(c.size) - 1 ELSE Largest(c.size)}

\* What they have in common.
LEMMA FixFields ==
  ASSUME NEW c \in PlainFixes
  PROVE  /\ c.any = FALSE /\ c.size \in 1 .. Word /\ c.size \in Nat \ {0} /\ c.init = 0
         /\ c.count \in Nat /\ c.count <= Uint64s - 1 /\ c.max \in Nat /\ c.max <= Uint64s - 1
         /\ c.max <= Largest(c.size) /\ Largest(c.size) \in Nat /\ Uint64s \in Nat /\ Uint64s >= 3
<1>1. Word \in Nat \ {0} /\ Word \in 1 .. Word
  BY BaseAssumption
<1>2. c.size \in 1 .. Word
  BY DEF PlainFixes
<1>3. Largest(Word) \in Nat /\ 2 <= Largest(Word) /\ Largest(c.size) \in Nat
  BY <1>1, <1>2, LargestGrows
<1>4. Uint64s = Largest(Word) + 1
  BY DEF Uint64s
<1> HIDE DEF Uint64s
<1>5. c.any = FALSE /\ c.init = 0 /\ c.count \in 0 .. Uint64s - 1 /\ c.max \in 0 .. Uint64s - 1
  BY DEF PlainFixes
<1>6. c.max = IF c.size = Word THEN Largest(c.size) - 1 ELSE Largest(c.size)
  BY DEF PlainFixes
<1>7. c.max <= Largest(c.size)
  BY <1>3, <1>6
<1> QED BY <1>1, <1>2, <1>3, <1>4, <1>5, <1>7

\* A change of the number.
FixTurned(c, n) == [c EXCEPT !.count = n]

LEMMA FixTurn ==
  ASSUME NEW c \in PlainFixes, NEW n \in 0 .. Uint64s - 1
  PROVE  /\ FixTurned(c, n) \in PlainFixes /\ FixTurned(c, n).count = n
         /\ FixTurned(c, n).size = c.size /\ FixTurned(c, n).max = c.max
BY DEF PlainFixes, FixTurned

\* The new one, and one that is reset.
LEMMA FixNew ==
  ASSUME NEW size \in 1 .. Word
  PROVE  Newfix64base(size) \in PlainFixes
<1>1. Word \in Nat \ {0} /\ Uint64s = Largest(Word) + 1
  BY BaseAssumption DEF Uint64s
<1>2. /\ Largest(size) \in Nat /\ 2 <= Largest(size) /\ Largest(size) <= Largest(Word)
      /\ Largest(Word) \in Nat
  BY <1>1, LargestGrows
<1>3. (IF size = Word THEN Largest(size) - 1 ELSE Largest(size)) \in 0 .. Uint64s - 1
  BY <1>1, <1>2
<1>4. 0 \in 0 .. Uint64s - 1 /\ size \in Nat
  BY <1>1, <1>2
<1> QED BY <1>3, <1>4 DEF Newfix64base, PlainFixes

LEMMA FixReset ==
  ASSUME NEW c \in PlainFixes, NEW over \in BOOLEAN
  PROVE  /\ Reset(c, over) \in PlainFixes /\ Reset(c, over).size = c.size
         /\ Reset(c, over).max = c.max
         /\ over => Reset(c, over).count = 0
<1> DEFINE n == IF over THEN 0 ELSE c.max
<1>1. n \in 0 .. Uint64s - 1 /\ c.any = FALSE /\ c.init = 0
  <2>1. /\ c.any = FALSE /\ c.init = 0 /\ c.max \in Nat /\ c.max <= Uint64s - 1
        /\ Uint64s \in Nat /\ Uint64s >= 3
    BY FixFields
  <2> QED BY <2>1
<1>2. Reset(c, over) = FixTurned(c, n)
  <2>1. Reset(c, over) = [c EXCEPT !.count = n, !.ptr = c.ptr]
    BY <1>1 DEF Reset
  <2>2. c \in [any : {FALSE}, size : 1 .. Word, ptr : Nat, init : {0},
               count : 0 .. Uint64s - 1, max : 0 .. Uint64s - 1]
    BY DEF PlainFixes
  <2> HIDE DEF n
  <2> QED BY <2>1, <2>2 DEF FixTurned
<1> HIDE DEF n
<1>3. FixTurned(c, n) \in PlainFixes /\ FixTurned(c, n).count = n
      /\ FixTurned(c, n).size = c.size /\ FixTurned(c, n).max = c.max
  BY <1>1, FixTurn
<1> QED BY <1>2, <1>3 DEF n

\* What Plus and AddUint64 make of a number that is not above its limit.
LEMMA FixAdds ==
  ASSUME NEW c \in PlainFixes, NEW m \in Nat
  PROVE  /\ FixAdd(c, m).to \in PlainFixes /\ FixPlus(c).to \in PlainFixes
         /\ c.count <= c.max =>
              IF c.count + m <= c.max
              THEN /\ FixAdd(c, m).err = "ok" /\ FixAdd(c, m).to.count = c.count + m
                   /\ FixAdd(c, m).to.max = c.max /\ FixAdd(c, m).to.size = c.size
              ELSE /\ FixAdd(c, m).err = "over" /\ FixAdd(c, m).to.count = 0
         /\ c.count <= c.max => FixPlus(c) = FixAdd(c, 1)
<1>1. /\ c.count \in Nat /\ c.count <= Uint64s - 1 /\ c.max \in Nat /\ c.max <= Uint64s - 1
      /\ Uint64s \in Nat
  BY FixFields
<1> DEFINE d(n) == FixTurned(c, n)
<1>2. \A n \in 0 .. Uint64s - 1 : /\ d(n) \in PlainFixes /\ d(n).count = n
                                  /\ d(n).size = c.size /\ d(n).max = c.max
  BY FixTurn
<1>3. Reset(c, TRUE) \in PlainFixes /\ Reset(c, TRUE).count = 0
  BY FixReset
<1>4. FixPlus(c) = IF c.count >= c.max THEN [to |-> Reset(c, TRUE), err |-> "over"]
                  ELSE [to |-> d(c.count + 1), err |-> "ok"]
  BY DEF FixPlus, FixTurned
<1>5. FixAdd(c, m) = IF m = 0 \/ c.count + m <= c.max THEN [to |-> d(c.count + m), err |-> "ok"]
                     ELSE [to |-> Reset(c, TRUE), err |-> "over"]
  BY DEF FixAdd, FixTurned
<1>6. c.count <= c.max => FixPlus(c) = FixAdd(c, 1)
  <2>1. FixAdd(c, 1) = IF c.count + 1 <= c.max THEN [to |-> d(c.count + 1), err |-> "ok"]
                       ELSE [to |-> Reset(c, TRUE), err |-> "over"]
    BY DEF FixAdd, FixTurned
  <2>2. c.count + 1 <= c.max <=> ~(c.count >= c.max)
    BY <1>1
  <2> HIDE DEF d
  <2>3. CASE c.count >= c.max
    BY <1>4, <2>1, <2>2, <2>3
  <2>4. CASE ~(c.count >= c.max)
    BY <1>4, <2>1, <2>2, <2>4
  <2> QED BY <2>3, <2>4
<1> HIDE DEF d
<1>7. FixPlus(c).to \in PlainFixes
  <2>1. CASE c.count >= c.max
    <3>1. FixPlus(c).to = Reset(c, TRUE)
      BY <1>4, <2>1
    <3> QED BY <1>3, <3>1
  <2>2. CASE ~(c.count >= c.max)
    <3>1. c.count + 1 \in 0 .. Uint64s - 1 /\ FixPlus(c).to = d(c.count + 1)
      BY <1>1, <1>4, <2>2
    <3> QED BY <1>2, <3>1
  <2> QED BY <2>1, <2>2
<1>8. CASE m = 0 \/ c.count + m <= c.max
  <2>1. c.count + m \in 0 .. Uint64s - 1
    BY <1>1, <1>8
  <2>2. FixAdd(c, m) = [to |-> d(c.count + m), err |-> "ok"]
    BY <1>5, <1>8
  <2>3. FixAdd(c, m).to = d(c.count + m) /\ FixAdd(c, m).err = "ok"
    BY <2>2
  <2>4. /\ d(c.count + m) \in PlainFixes /\ d(c.count + m).count = c.count + m
        /\ d(c.count + m).size = c.size /\ d(c.count + m).max = c.max
    BY <1>2, <2>1
  <2>5. c.count <= c.max => c.count + m <= c.max
    BY <1>1, <1>8
  <2> QED BY <1>6, <1>7, <2>3, <2>4, <2>5
<1>9. CASE ~(m = 0 \/ c.count + m <= c.max)
  <2>1. FixAdd(c, m) = [to |-> Reset(c, TRUE), err |-> "over"]
    BY <1>5, <1>9
  <2>2. FixAdd(c, m).to = Reset(c, TRUE) /\ FixAdd(c, m).err = "over"
    BY <2>1
  <2> QED BY <1>3, <1>6, <1>7, <1>9, <2>2
<1> QED BY <1>8, <1>9

\* Mimus takes one off, or goes to the top.
LEMMA FixMimuses ==
  ASSUME NEW c \in PlainFixes
  PROVE  FixMimus(c).to \in PlainFixes
<1>1. c.count \in Nat /\ c.count <= Uint64s - 1 /\ c.init = 0 /\ Uint64s \in Nat /\ Uint64s >= 3
  BY FixFields
<1>2. Reset(c, FALSE) \in PlainFixes
  BY FixReset
<1>3. CASE c.count = c.init
  BY <1>2, <1>3 DEF FixMimus
<1>4. CASE c.count # c.init
  <2> DEFINE n == (c.count - 1) % Uint64s
  <2>1. n \in 0 .. Uint64s - 1
    <3>1. c.count - 1 \in Nat
      BY <1>1, <1>4
    <3> QED BY <1>1, <3>1
  <2>2. FixMimus(c).to = FixTurned(c, n)
    BY <1>4 DEF FixMimus, FixTurned
  <2> HIDE DEF n
  <2> QED BY <2>1, <2>2, FixTurn
<1> QED BY <1>3, <1>4

\* Mul adds modulo the width of the word, or goes over.
LEMMA FixMuls ==
  ASSUME NEW c \in PlainFixes, NEW m \in Nat
  PROVE  FixMul(c, m).to \in PlainFixes
<1> DEFINE S == [to : PlainFixes, err : {"ok", "over"}]
           first == [to |-> c, err |-> "ok"]
           zero == c.count = 0
           next(r) == CASE r.err = "over" -> r
                        [] r.err # "over" /\ r.to.count >= c.max -> [to |-> Reset(c, TRUE), err |-> "over"]
                        [] OTHER -> [r EXCEPT !.to.count = (@ + c.count) % Uint64s]
           step == [i \in 1 .. m |-> [r \in S |-> IF zero THEN first ELSE next(r)]]
           mul[i \in 0 .. m] ==
             IF i = 0 \/ c.count = 0 THEN [to |-> c, err |-> "ok"]
             ELSE LET r == mul[i - 1]
                  IN CASE r.err = "over" -> r
                       [] r.err # "over" /\ r.to.count >= c.max -> [to |-> Reset(c, TRUE), err |-> "over"]
                       [] OTHER -> [r EXCEPT !.to.count = (@ + c.count) % Uint64s]
<1>1. first \in S
  OBVIOUS
<1>2. ASSUME NEW r \in S
      PROVE  next(r) \in S
  <2> HIDE DEF mul, step, first
  <2>1. r.to \in PlainFixes /\ r.err \in {"ok", "over"}
    OBVIOUS
  <2>2. Reset(c, TRUE) \in PlainFixes
    BY FixReset
  <2> DEFINE n == (r.to.count + c.count) % Uint64s
  <2>3. n \in 0 .. Uint64s - 1
    <3>1. c.count \in Nat /\ Uint64s \in Nat /\ Uint64s >= 3
      BY FixFields
    <3>2. r.to.count \in Nat
      BY <2>1, FixFields
    <3>3. r.to.count + c.count \in Nat
      BY <3>1, <3>2
    <3> QED BY <3>1, <3>3
  <2>4. [r EXCEPT !.to.count = (@ + c.count) % Uint64s] = [to |-> FixTurned(r.to, n), err |-> r.err]
    BY <2>1 DEF FixTurned
  <2> HIDE DEF n
  <2>5. FixTurned(r.to, n) \in PlainFixes
    BY <2>1, <2>3, FixTurn
  <2> QED BY <2>1, <2>2, <2>4, <2>5
<1>3. \A i \in 1 .. m, r \in S :
        step[i][r] = (IF zero THEN first ELSE next(r)) /\ step[i][r] \in S
  BY <1>1, <1>2
<1>4. FixMul(c, m) = mul[m]
  BY DEF FixMul
<1>5. PICK g \in [0 .. m -> S] : Iterates(g, m, first, step)
  <2>1. Steps(step, m, S)
    BY <1>3 DEF Steps
  <2> HIDE DEF step, S, first
  <2> QED BY <1>1, <2>1, Recursion
<1>6. mul = [i \in 0 .. m |-> IF i = 0 \/ zero THEN first ELSE next(mul[i - 1])]
  <2>1. \A i \in 0 .. m : g[i] = IF i = 0 \/ zero THEN first ELSE next(g[i - 1])
    <3> SUFFICES ASSUME NEW i \in 0 .. m
                 PROVE  g[i] = IF i = 0 \/ zero THEN first ELSE next(g[i - 1])
      OBVIOUS
    <3>1. CASE i = 0
      BY <1>5, <3>1 DEF Iterates
    <3>2. CASE i # 0
      <4>1. i \in 1 .. m /\ g[i - 1] \in S
        BY <3>2
      <4> HIDE DEF step, next, S, first, zero
      <4> QED BY <1>3, <1>5, <3>2, <4>1 DEF Iterates
    <3> QED BY <3>1, <3>2
  <2>2. g = [i \in 0 .. m |-> IF i = 0 \/ zero THEN first ELSE next(g[i - 1])]
    BY <2>1
  <2> HIDE DEF step, S
  <2> QED BY <2>2
<1> HIDE DEF mul, step, zero
<1> DEFINE T == {i \in 0 .. m : mul[i] \in S}
<1>7. 0 \in T
  BY <1>1, <1>6
<1>8. ASSUME NEW i \in 0 .. m - 1, i \in T
      PROVE  i + 1 \in T
  <2>1. i + 1 \in 0 .. m /\ i + 1 # 0 /\ (i + 1) - 1 = i /\ mul[i] \in S
    BY <1>8
  <2>2. next(mul[i]) \in S
    BY <1>2, <2>1
  <2> HIDE DEF next, S, first
  <2>3. mul[i + 1] = IF zero THEN first ELSE next(mul[i])
    BY <1>6, <2>1
  <2> QED BY <1>1, <2>1, <2>2, <2>3
<1> HIDE DEF T
<1>9. \A i \in 0 .. m : i \in T
  BY <1>7, <1>8, UpTo
<1>10. mul[m] \in S
  BY <1>9 DEF T
<1> QED BY <1>4, <1>10
-----------------------------------------------------------------------------
(* The bytes a number is written to.                                       *)

\* FillBytes and FillExpBytes write every digit, in order.
LEMMA NumberIs ==
  ASSUME NEW size \in Nat \ {0}, NEW c, c.size = size, c.any \in BOOLEAN,
         NEW s \in [1 .. size -> Digits], CtrDigits(c) = s
  PROVE  Number(c) = Value(s, size) /\ ExpNumber(c) = Value(s, size)
<1>1. FillBytes(c, size) = s
  <2>1. FillBytes(c, size) = [i \in 1 .. size |-> IF i + size - size >= 1 THEN s[i + size - size] ELSE 0]
    BY DEF FillBytes
  <2>2. \A i \in 1 .. size : i + size - size = i /\ i >= 1
    OBVIOUS
  <2> QED BY <2>1, <2>2
<1>2. (3 * size - 1) \div size = 2
  <2> DEFINE x == 3 * size - 1
             q == x \div size
             r == x % size
  <2>1. x \in Nat /\ q \in Nat /\ r \in 0 .. size - 1 /\ x = q * size + r
    OBVIOUS
  <2> HIDE DEF q, r
  <2>2. q * size \in Nat /\ 2 * size <= q * size /\ q * size < 3 * size
    BY <2>1
  <2>3. ~(q >= 3)
    <3> SUFFICES ASSUME q >= 3 PROVE FALSE
      OBVIOUS
    <3>1. q * size >= 3 * size
      BY <2>1
    <3> QED BY <2>2, <3>1
  <2>4. ~(q <= 1)
    <3> SUFFICES ASSUME q <= 1 PROVE FALSE
      OBVIOUS
    <3>1. q * size <= 1 * size
      BY <2>1
    <3> QED BY <2>2, <3>1
  <2> QED BY <2>1, <2>3, <2>4 DEF q
<1>3. ASSUME NEW i \in 1 .. size
      PROVE  FillExpBytes(c, 3 * size)[3 * size - 2 * (size - i)] = s[i]
  <2> DEFINE j == 3 * size - 2 * (size - i)
             kept == {k \in 0 .. size - 1 : 3 * size - k * 2 = j}
  <2>1. j \in 1 .. 3 * size /\ size - i \in 0 .. size - 1 /\ size - (size - i) = i
    OBVIOUS
  <2>2. kept = {size - i}
    OBVIOUS
  <2>3. Max({size - i}) = size - i
    <3>1. Max({size - i}) \in {size - i}
      <4>1. {size - i} \subseteq 0 .. size /\ {size - i} # {}
        OBVIOUS
      <4> QED BY <4>1, GreatestIs
    <3> QED BY <3>1
  <2>4. (IF c.any /\ 2 = 0 THEN 1 ELSE 2) = 2
    OBVIOUS
  <2>5. FillExpBytes(c, 3 * size)[j] = IF kept = {} THEN 0 ELSE s[size - Max(kept)]
    <3>1. FillExpBytes(c, 3 * size) =
            [b \in 1 .. 3 * size |->
               IF {k \in 0 .. size - 1 : 3 * size - k * 2 = b} = {} THEN 0
               ELSE s[size - Max({k \in 0 .. size - 1 : 3 * size - k * 2 = b})]]
      BY <1>2, <2>4 DEF FillExpBytes
    <3> QED BY <2>1, <3>1
  <2> HIDE DEF j, kept
  <2> QED BY <2>1, <2>2, <2>3, <2>5 DEF j
<1>4. ExpNumber(c) = Value(s, size)
  <2> DEFINE t == [i \in 1 .. size |-> FillExpBytes(c, 3 * size)[3 * size - 2 * (size - i)]]
  <2>1. t = s
    BY <1>3
  <2>2. ExpNumber(c) = Value(t, size)
    BY DEF ExpNumber
  <2> HIDE DEF t
  <2> QED BY <2>1, <2>2
<1>5. Number(c) = Value(s, size)
  BY <1>1 DEF Number
<1> QED BY <1>4, <1>5

\* The bytes show the number of each representation.
LEMMA AnyNumber ==
  ASSUME NEW size \in Nat \ {0}, NEW c \in Plain255s(size)
  PROVE  /\ Number(c) = Value(c.count, size) /\ ExpNumber(c) = Value(c.count, size)
         /\ CtrTop(c) = Largest(size)
<1>1. c.any = TRUE /\ c.size = size /\ c.count \in [1 .. size -> Digits] /\ c.max = Fill(size, Base - 1)
  BY PlainFields
<1>2. CtrDigits(c) = c.count
  BY <1>1 DEF CtrDigits
<1>3. CtrTop(c) = Largest(size)
  BY <1>1 DEF CtrTop, Largest
<1> QED BY <1>1, <1>2, <1>3, NumberIs

LEMMA FixNumber ==
  ASSUME NEW c \in PlainFixes
  PROVE  /\ c.count <= c.max => Number(c) = c.count /\ ExpNumber(c) = c.count
         /\ CtrTop(c) = c.max
<1>1. /\ c.any = FALSE /\ c.size \in Nat \ {0} /\ c.count \in Nat /\ c.max \in Nat
      /\ c.max <= Largest(c.size) /\ Largest(c.size) \in Nat
  BY FixFields
<1>2. ASSUME c.count <= c.max
      PROVE  Number(c) = c.count /\ ExpNumber(c) = c.count
  <2> DEFINE s == ToDigits(c.count, c.size)
  <2>1. c.count <= Largest(c.size)
    BY <1>1, <1>2
  <2>2. s \in [1 .. c.size -> Digits] /\ Value(s, c.size) = c.count
    BY <1>1, <2>1, DigitsIs
  <2>3. CtrDigits(c) = s
    BY <1>1 DEF CtrDigits
  <2> HIDE DEF s
  <2> QED BY <1>1, <2>2, <2>3, NumberIs
<1>3. CtrTop(c) = c.max
  BY <1>1 DEF CtrTop
<1> QED BY <1>2, <1>3

-----------------------------------------------------------------------------
(* Every order of calls.                                                   *)

PlainCtr(c) ==
  IF c.any THEN c.size \in Nat \ {0} /\ c \in Plain255s(c.size) /\ Leading(c) ELSE c \in PlainFixes

\* A counter of the limits it was made with is one of the sound ones, and its
\* Mimus has found its digit.
CtrInv ==
  plain => /\ PlainCtr(ctr)
           /\ ctr.any /\ ctrOut.op = "Mimus" => ctrOut.err # "panic"

\* Both kinds are sound, and so is a new counter of any size.
LEMMA AnyIsPlain ==
  ASSUME NEW size \in Nat \ {0}, NEW c \in Plain255s(size), Leading(c)
  PROVE  PlainCtr(c)
BY PlainFields DEF PlainCtr

LEMMA FixIsPlain ==
  ASSUME NEW c \in PlainFixes
  PROVE  PlainCtr(c)
BY FixFields DEF PlainCtr

LEMMA NewIsPlain ==
  ASSUME NEW n \in Int
  PROVE  PlainCtr(NewAnyBaseCounter(n))
<1> DEFINE size == CASE n = 0 -> 1 [] n < 0 -> -n [] OTHER -> n
<1>1. size \in Nat \ {0}
  <2>1. CASE n = 0
    BY <2>1
  <2>2. CASE n < 0
    BY <2>2
  <2>3. CASE n > 0
    BY <2>3
  <2> QED BY <2>1, <2>2, <2>3
<1>2. NewAnyBaseCounter(n) = IF size <= Word THEN Newfix64base(size) ELSE NewAny255Base(size)
  BY DEF NewAnyBaseCounter
<1> HIDE DEF size
<1>3. CASE size <= Word
  <2>1. size \in 1 .. Word
    BY <1>1, <1>3, BaseAssumption
  <2> QED BY <1>2, <1>3, <2>1, FixNew, FixIsPlain
<1>4. CASE ~(size <= Word)
  BY <1>1, <1>2, <1>4, ZeroNew, AnyIsPlain
<1> QED BY <1>3, <1>4

LEMMA InitCtr == CtrInit => CtrInv
<1> SUFFICES ASSUME CtrInit PROVE CtrInv
  OBVIOUS
<1>1. PICK n \in CtrSizes : ctr = NewAnyBaseCounter(n)
  BY DEF CtrInit
<1>2. n \in Int /\ ctrOut.op = "New"
  BY CtrInputs DEF CtrInit
<1> QED BY <1>1, <1>2, NewIsPlain DEF CtrInv

\* What a call leaves of a sound counter, and what Mimus reports of it.
LEMMA CallsKeep ==
  ASSUME NEW c, PlainCtr(c), NEW m \in Nat, NEW over \in BOOLEAN
  PROVE  /\ PlainCtr((IF c.any THEN AnyPlus(c) ELSE FixPlus(c)).to)
         /\ PlainCtr((IF c.any THEN AnyMimus(c) ELSE FixMimus(c)).to)
         /\ PlainCtr((IF c.any THEN AnyAdd(c, m) ELSE FixAdd(c, m)).to)
         /\ PlainCtr((IF c.any THEN AnyMul(c, m) ELSE FixMul(c, m)).to)
         /\ PlainCtr(Reset(c, over))
         /\ c.any => AnyMimus(c).err # "panic"
<1>1. CASE c.any
  <2> DEFINE size == c.size
  <2>1. size \in Nat \ {0} /\ c \in Plain255s(size) /\ Leading(c)
    BY <1>1 DEF PlainCtr
  <2> HIDE DEF size
  <2>2. PlainCtr(AnyPlus(c).to)
    BY <2>1, PlainPlus, AnyIsPlain DEF Counted
  <2>3. PlainCtr(AnyMimus(c).to) /\ AnyMimus(c).err # "panic"
    BY <2>1, PlainMimus, AnyIsPlain
  <2>4. PlainCtr(AnyAdd(c, m).to)
    BY <2>1, PlainAdd, AnyIsPlain DEF Counted
  <2>5. PlainCtr(AnyMul(c, m).to)
    BY <2>1, PlainMul, AnyIsPlain
  <2>6. PlainCtr(Reset(c, over))
    BY <2>1, PlainReset, AnyIsPlain
  <2> QED BY <1>1, <2>2, <2>3, <2>4, <2>5, <2>6
<1>2. CASE ~c.any
  <2>1. c \in PlainFixes
    BY <1>2 DEF PlainCtr
  <2>2. PlainCtr(FixPlus(c).to) /\ PlainCtr(FixAdd(c, m).to)
    BY <2>1, FixAdds, FixIsPlain
  <2>3. PlainCtr(FixMimus(c).to)
    BY <2>1, FixMimuses, FixIsPlain
  <2>4. PlainCtr(FixMul(c, m).to)
    BY <2>1, FixMuls, FixIsPlain
  <2>5. PlainCtr(Reset(c, over))
    BY <2>1, FixReset, FixIsPlain
  <2> QED BY <1>2, <2>2, <2>3, <2>4, <2>5
<1> QED BY <1>1, <1>2

\* No call takes a sound counter away.
LEMMA StepCtr ==
  ASSUME CtrInv, [CtrNext]_ctrVars
  PROVE  CtrInv'
<1> SUFFICES ASSUME plain'
             PROVE  PlainCtr(ctr') /\ (ctr'.any /\ ctrOut'.op = "Mimus" => ctrOut'.err # "panic")
  BY DEF CtrInv, PlainCtr, PlainFixes, Leading, Lead, Uint64s, Largest, Value, Fill
<1>1. ASSUME NEW p, CallSetMax(p) \/ CallSetInit(p) \/ FromBigInt(p)
      PROVE  FALSE
  BY <1>1 DEF CallSetMax, CallSetInit, FromBigInt, Set
<1>2. ASSUME PlainCtr(ctr), plain, Plus
      PROVE  PlainCtr(ctr') /\ ctrOut'.op # "Mimus"
  <2>1. ctr' = (IF ctr.any THEN AnyPlus(ctr) ELSE FixPlus(ctr)).to /\ ctrOut'.op = "Plus"
    BY <1>2 DEF Plus, Call
  <2> QED BY <1>2, <2>1, CallsKeep
<1>3. ASSUME PlainCtr(ctr), plain, Mimus
      PROVE  PlainCtr(ctr') /\ (ctr'.any => ctrOut'.err # "panic")
  <2>1. /\ ctr' = (IF ctr.any THEN AnyMimus(ctr) ELSE FixMimus(ctr)).to
        /\ ctrOut'.err = (IF ctr.any THEN AnyMimus(ctr) ELSE FixMimus(ctr)).err
    BY <1>3 DEF Mimus, Call
  <2>2. PlainCtr(ctr') /\ (ctr.any => AnyMimus(ctr).err # "panic")
    BY <1>3, <2>1, CallsKeep
  <2>3. CASE ctr.any
    BY <2>1, <2>2, <2>3
  <2>4. CASE ~ctr.any
    <3>1. ctr \in PlainFixes
      BY <1>3, <2>4 DEF PlainCtr
    <3>2. FixMimus(ctr).to \in PlainFixes
      BY <3>1, FixMimuses
    <3>3. ctr'.any = FALSE
      BY <2>1, <2>4, <3>2, FixFields
    <3> QED BY <2>2, <3>3
  <2> QED BY <2>3, <2>4
<1>4. ASSUME PlainCtr(ctr), plain, NEW m \in Amounts, AddUint64(m) \/ Mul(m)
      PROVE  PlainCtr(ctr') /\ ctrOut'.op # "Mimus"
  <2>1. m \in Nat
    BY CtrInputs
  <2>2. CASE AddUint64(m)
    <3>1. ctr' = (IF ctr.any THEN AnyAdd(ctr, m) ELSE FixAdd(ctr, m)).to /\ ctrOut'.op = "Add"
      BY <2>2 DEF AddUint64, Call
    <3> QED BY <1>4, <2>1, <3>1, CallsKeep
  <2>3. CASE Mul(m)
    <3>1. ctr' = (IF ctr.any THEN AnyMul(ctr, m) ELSE FixMul(ctr, m)).to /\ ctrOut'.op = "Mul"
      BY <2>3 DEF Mul, Call
    <3> QED BY <1>4, <2>1, <3>1, CallsKeep
  <2> QED BY <1>4, <2>2, <2>3
<1>5. ASSUME PlainCtr(ctr), plain, NEW over \in BOOLEAN, CallReset(over)
      PROVE  PlainCtr(ctr') /\ ctrOut'.op # "Mimus"
  <2>1. ctr' = Reset(ctr, over) /\ ctrOut'.op = "Reset"
    BY <1>5 DEF CallReset, Call
  <2> QED BY <1>5, <2>1, CallsKeep
<1>6. ASSUME PlainCtr(ctr), plain, CallTouint64 \/ (\E n \in CtrSizes : CallCmp(NewAnyBaseCounter(n)))
      PROVE  PlainCtr(ctr') /\ ctrOut'.op # "Mimus"
  <2>1. ctr' = ctr /\ ctrOut'.op \in {"Touint64", "Cmp"}
    BY <1>6 DEF CallTouint64, CallCmp, Read
  <2> QED BY <1>6, <2>1
<1>7. CASE UNCHANGED ctrVars
  <2>1. ctr' = ctr /\ ctrOut' = ctrOut /\ plain' = plain
    BY <1>7 DEF ctrVars
  <2> QED BY <2>1 DEF CtrInv
<1>8. CASE CtrNext
  <2>1. CASE plain
    <3>1. PlainCtr(ctr)
      BY <2>1 DEF CtrInv
    <3> QED BY <1>1, <1>2, <1>3, <1>4, <1>5, <1>6, <1>8, <2>1, <3>1 DEF CtrNext
  <2>2. CASE ~plain
    BY <1>8, <2>2 DEF CtrNext, Plus, Mimus, AddUint64, Mul, CallReset, CallTouint64, CallCmp, Read,
                      CallSetMax, CallSetInit, FromBigInt, Set
  <2> QED BY <2>1, <2>2
<1> QED BY <1>7, <1>8

\* The first of n digits that differ decides between numbers of more digits.
LEMMA FirstOtherIs ==
  ASSUME NEW size \in Nat, NEW n \in 0 .. size,
         NEW s \in [1 .. size -> Digits], NEW t \in [1 .. size -> Digits]
  PROVE  /\ FirstOther(s, t, n) = "less" => Value(s, size) < Value(t, size)
         /\ FirstOther(s, t, n) = "greater" => Value(s, size) > Value(t, size)
<1> DEFINE diff == {i \in 1 .. n : s[i] # t[i]}
           k == Min(diff)
<1>1. \A i \in 1 .. size : s[i] \in Digits /\ t[i] \in Digits /\ s[i] \in Nat /\ t[i] \in Nat
  BY BaseAssumption DEF Digits
<1>2. Value(s, size) \in Nat /\ Value(t, size) \in Nat
  BY <1>1, ValueIs
<1>3. CASE diff = {}
  BY <1>3 DEF FirstOther
<1>4. CASE diff # {}
  <2>1. k \in diff /\ \A y \in diff : k <= y
    <3>1. diff \subseteq Nat
      OBVIOUS
    <3> HIDE DEF diff
    <3> QED BY <1>4, <3>1, LeastIs
  <2>2. FirstOther(s, t, n) = IF s[k] < t[k] THEN "less" ELSE "greater"
    BY <1>4 DEF FirstOther
  <2> HIDE DEF k
  <2>3. k \in 1 .. size /\ s[k] # t[k] /\ \A i \in 1 .. k - 1 : s[i] = t[i]
    BY <2>1
  <2> HIDE DEF diff
  <2>4. CASE s[k] < t[k]
    <3>1. Value(s, size) < Value(t, size)
      BY <1>1, <2>3, <2>4, LessValue
    <3> QED BY <2>2, <2>4, <3>1
  <2>5. CASE ~(s[k] < t[k])
    <3>1. t[k] < s[k] /\ \A i \in 1 .. k - 1 : t[i] = s[i]
      BY <1>1, <2>3, <2>5
    <3>2. Value(t, size) < Value(s, size)
      BY <1>1, <2>3, <3>1, LessValue
    <3> QED BY <1>2, <2>2, <2>5, <3>2
  <2> QED BY <2>4, <2>5
<1> QED BY <1>3, <1>4

\* With ptr at the leading digit, cmp never takes the smaller number for the
\* greater.
LEMMA PtrOrders ==
  ASSUME CtrInv
  PROVE  PtrLeads
<1> SUFFICES ASSUME plain, ctr.any
             PROVE  /\ ctr.ptr = Lead(ctr) /\ (ctrOut.op = "Mimus" => ctrOut.err # "panic")
                    /\ \A s \in [1 .. ctr.size -> Digits] :
                         LET e == Peer(ctr, s)
                             a == Value(ctr.count, ctr.size)
                             b == Value(s, ctr.size)
                         IN (AnyCmp(ctr, e) = "less" => a < b) /\ (AnyCmp(ctr, e) = "greater" => a > b)
  BY DEF PtrLeads
<1> DEFINE size == ctr.size
<1>1. /\ size \in Nat \ {0} /\ ctr \in Plain255s(size) /\ ctr.ptr = Lead(ctr)
      /\ ctrOut.op = "Mimus" => ctrOut.err # "panic"
  BY DEF CtrInv, PlainCtr, Leading
<1>2. ctr.count \in [1 .. size -> Digits]
  BY <1>1, PlainFields
<1>3. /\ ctr.ptr \in 1 .. size /\ \A i \in 1 .. ctr.ptr - 1 : ctr.count[i] = 0
      /\ ctr.ptr # size => ctr.count[ctr.ptr] # 0
  BY <1>1, LeadOf
<1>4. ASSUME NEW s \in [1 .. size -> Digits], NEW e, e = Peer(ctr, s),
             NEW a, a = Value(ctr.count, size), NEW b, b = Value(s, size)
      PROVE  (AnyCmp(ctr, e) = "less" => a < b) /\ (AnyCmp(ctr, e) = "greater" => a > b)
  <2> DEFINE d == [ctr EXCEPT !.count = s]
  <2>1. d.size = size /\ d.count = s /\ e.count = s /\ e.ptr = Lead(d)
    BY <1>1, <1>4 DEF Plain255s, Turns, Peer
  <2> HIDE DEF d
  <2>2. /\ e.ptr \in 1 .. size /\ \A i \in 1 .. e.ptr - 1 : s[i] = 0
        /\ e.ptr # size => s[e.ptr] # 0
    BY <1>1, <2>1, LeadOf
  <2>3. \A i \in 1 .. size : /\ ctr.count[i] \in Digits /\ s[i] \in Digits
                             /\ ctr.count[i] \in Nat /\ s[i] \in Nat
    <3>1. Digits \subseteq Nat
      BY BaseAssumption DEF Digits
    <3> QED BY <1>2, <3>1
  <2>4. AnyCmp(ctr, e) = CASE ctr.ptr > e.ptr -> "less" [] ctr.ptr < e.ptr -> "greater"
                           [] OTHER -> FirstOther(ctr.count, s, ctr.ptr)
    BY <2>1 DEF AnyCmp
  <2>5. CASE ctr.ptr > e.ptr
    <3>1. e.ptr \in 1 .. size /\ ctr.count[e.ptr] < s[e.ptr]
      BY <1>1, <1>3, <2>2, <2>3, <2>5
    <3>2. \A i \in 1 .. e.ptr - 1 : ctr.count[i] = s[i]
      BY <1>1, <1>3, <2>2, <2>5
    <3>3. a < b
      BY <1>1, <1>4, <2>3, <3>1, <3>2, LessValue
    <3>4. AnyCmp(ctr, e) = "less"
      BY <1>3, <2>2, <2>4, <2>5
    <3> QED BY <3>3, <3>4
  <2>6. CASE ctr.ptr < e.ptr
    <3>1. ctr.ptr \in 1 .. size /\ s[ctr.ptr] < ctr.count[ctr.ptr]
      BY <1>1, <1>3, <2>2, <2>3, <2>6
    <3>2. \A i \in 1 .. ctr.ptr - 1 : s[i] = ctr.count[i]
      BY <1>1, <1>3, <2>2, <2>6
    <3>3. b < a
      BY <1>1, <1>4, <2>3, <3>1, <3>2, LessValue
    <3>4. a \in Nat /\ b \in Nat
      BY <1>1, <1>4, <2>3, ValueIs
    <3>5. AnyCmp(ctr, e) = "greater" /\ a > b
      BY <1>3, <2>2, <2>4, <2>6, <3>3, <3>4
    <3> QED BY <3>5
  <2>7. CASE ctr.ptr = e.ptr
    <3>1. AnyCmp(ctr, e) = FirstOther(ctr.count, s, ctr.ptr)
      BY <1>3, <2>4, <2>7
    <3>2. ctr.ptr \in 0 .. size /\ size \in Nat
      BY <1>1, <1>3
    <3> QED BY <1>2, <1>4, <3>1, <3>2, FirstOtherIs
  <2> QED BY <1>3, <2>2, <2>5, <2>6, <2>7
<1>5. \A s \in [1 .. ctr.size -> Digits] :
         LET e == Peer(ctr, s)
             a == Value(ctr.count, ctr.size)
             b == Value(s, ctr.size)
         IN (AnyCmp(ctr, e) = "less" => a < b) /\ (AnyCmp(ctr, e) = "greater" => a > b)
  BY <1>4
<1> QED BY <1>1, <1>5

\* Any counter of Any255Base and any order of calls: ptr stays at the leading
\* digit, Mimus finds its digit, and cmp never turns an order round.
THEOREM PtrLeadsHolds == CtrInit /\ [][CtrNext]_ctrVars => []PtrLeads
<1>1. CtrInit => CtrInv
  BY InitCtr
<1>2. CtrInv /\ [CtrNext]_ctrVars => CtrInv'
  BY StepCtr
<1>3. CtrInv => PtrLeads
  BY PtrOrders
<1> QED BY <1>1, <1>2, <1>3, PTL

\* What Plus and AddUint64 do, in either representation.
LEMMA Adds ==
  ASSUME NEW c, PlainCtr(c), c.any \/ c.count <= c.max, NEW m \in Nat,
         NEW r, \/ r = IF c.any THEN AnyAdd(c, m) ELSE FixAdd(c, m)
                \/ m = 1 /\ r = IF c.any THEN AnyPlus(c) ELSE FixPlus(c)
  PROVE  LET n == Number(c) + m
         IN IF n <= CtrTop(c) THEN {Number(r.to), ExpNumber(r.to)} = {n} /\ r.err = "ok"
            ELSE Number(r.to) = 0 /\ r.err = "over"
<1>1. CASE c.any
  <2> DEFINE size == c.size
             n == Value(c.count, size) + m
  <2>1. size \in Nat \ {0} /\ c \in Plain255s(size) /\ Leading(c)
    BY <1>1 DEF PlainCtr
  <2> HIDE DEF size
  <2>2. Counted(size, n, r)
    <3>1. Counted(size, n, AnyAdd(c, m))
      BY <2>1, PlainAdd
    <3>2. Counted(size, Value(c.count, size) + 1, AnyPlus(c))
      BY <2>1, PlainPlus
    <3> QED BY <1>1, <3>1, <3>2
  <2>3. Number(c) = Value(c.count, size) /\ CtrTop(c) = Largest(size)
    BY <2>1, AnyNumber
  <2>4. r.to \in Plain255s(size)
    BY <2>2 DEF Counted
  <2>5. Number(r.to) = Value(r.to.count, size) /\ ExpNumber(r.to) = Value(r.to.count, size)
    BY <2>1, <2>4, AnyNumber
  <2>6. Number(c) + m = n
    BY <2>3
  <2> HIDE DEF n
  <2> QED BY <2>2, <2>3, <2>5, <2>6 DEF Counted
<1>2. CASE ~c.any
  <2>1. c \in PlainFixes /\ c.count <= c.max
    BY <1>2 DEF PlainCtr
  <2>2. r = FixAdd(c, m)
    <3>1. FixPlus(c) = FixAdd(c, 1)
      BY <2>1, FixAdds
    <3> QED BY <1>2, <3>1
  <2>3. Number(c) = c.count /\ CtrTop(c) = c.max
    BY <2>1, FixNumber
  <2>4. r.to \in PlainFixes
    BY <2>1, <2>2, FixAdds
  <2>5. r.to.count <= r.to.max => Number(r.to) = r.to.count /\ ExpNumber(r.to) = r.to.count
    BY <2>4, FixNumber
  <2>6. CASE c.count + m <= c.max
    <3>1. r.err = "ok" /\ r.to.count = c.count + m /\ r.to.max = c.max
      BY <2>1, <2>2, <2>6, FixAdds
    <3> QED BY <2>3, <2>5, <2>6, <3>1
  <2>7. CASE ~(c.count + m <= c.max)
    <3>1. r.err = "over" /\ r.to.count = 0
      BY <2>1, <2>2, <2>7, FixAdds
    <3>2. r.to.max \in Nat
      BY <2>4, FixFields
    <3> QED BY <2>3, <2>5, <2>7, <3>1, <3>2
  <2> QED BY <2>6, <2>7
<1> QED BY <1>1, <1>2
\* A step that is a Plus or an AddUint64.
LEMMA CountStep ==
  ASSUME CtrInv, CtrNext, plain, ctr.any \/ ctr.count <= ctr.max, ctrOut'.op \in {"Plus", "Add"}
  PROVE  LET n == Number(ctr) + ctrOut'.m
         IN IF n <= CtrTop(ctr) THEN {Number(ctr'), ExpNumber(ctr')} = {n} /\ ctrOut'.err = "ok"
            ELSE Number(ctr') = 0 /\ ctrOut'.err = "over"
<1> DEFINE Counts == LET n == Number(ctr) + ctrOut'.m
                     IN IF n <= CtrTop(ctr) THEN {Number(ctr'), ExpNumber(ctr')} = {n} /\ ctrOut'.err = "ok"
                        ELSE Number(ctr') = 0 /\ ctrOut'.err = "over"
<1>1. PlainCtr(ctr)
  BY DEF CtrInv
<1>2. ASSUME Plus
      PROVE  Counts
  <2> DEFINE r == IF ctr.any THEN AnyPlus(ctr) ELSE FixPlus(ctr)
  <2>1. ctr' = r.to /\ ctrOut'.m = 1 /\ ctrOut'.err = r.err
    BY <1>2 DEF Plus, Call
  <2>2. LET n == Number(ctr) + 1
        IN IF n <= CtrTop(ctr) THEN {Number(r.to), ExpNumber(r.to)} = {n} /\ r.err = "ok"
           ELSE Number(r.to) = 0 /\ r.err = "over"
    BY <1>1, Adds
  <2> HIDE DEF r
  <2> QED BY <2>1, <2>2
<1>3. ASSUME NEW m \in Amounts, AddUint64(m)
      PROVE  Counts
  <2> DEFINE r == IF ctr.any THEN AnyAdd(ctr, m) ELSE FixAdd(ctr, m)
  <2>1. ctr' = r.to /\ ctrOut'.m = m /\ ctrOut'.err = r.err /\ m \in Nat
    BY <1>3, CtrInputs DEF AddUint64, Call
  <2>2. LET n == Number(ctr) + m
        IN IF n <= CtrTop(ctr) THEN {Number(r.to), ExpNumber(r.to)} = {n} /\ r.err = "ok"
           ELSE Number(r.to) = 0 /\ r.err = "over"
    BY <1>1, <2>1, Adds
  <2> HIDE DEF r
  <2> QED BY <2>1, <2>2
<1>4. ASSUME \/ Mimus \/ CallTouint64 \/ \E m \in Amounts : Mul(m)
             \/ \E over \in BOOLEAN : CallReset(over)
             \/ \E p \in CtrBytes : CallSetMax(p) \/ CallSetInit(p) \/ FromBigInt(p)
             \/ \E n \in CtrSizes : CallCmp(NewAnyBaseCounter(n))
      PROVE  FALSE
  <2>1. Mimus => ctrOut'.op = "Mimus"
    BY DEF Mimus, Call
  <2>2. CallTouint64 => ctrOut'.op = "Touint64"
    BY DEF CallTouint64, Read
  <2>3. \A m : Mul(m) => ctrOut'.op = "Mul"
    BY DEF Mul, Call
  <2>4. \A over : CallReset(over) => ctrOut'.op = "Reset"
    BY DEF CallReset, Call
  <2>5. \A p : CallSetMax(p) \/ CallSetInit(p) \/ FromBigInt(p) => ctrOut'.op = "Set"
    BY DEF CallSetMax, CallSetInit, FromBigInt, Set
  <2>6. \A c : CallCmp(c) => ctrOut'.op = "Cmp"
    BY DEF CallCmp, Read
  <2> QED BY <1>4, <2>1, <2>2, <2>3, <2>4, <2>5, <2>6
<1> HIDE DEF Counts
<1>5. Counts
  BY <1>2, <1>3, <1>4 DEF CtrNext
<1> QED BY <1>5 DEF Counts

\* Any counter, any order of calls and any amount: as long as its limits are
\* those it was made with, Plus and AddUint64 count in both representations,
\* as the bytes they are written to show it, and go over at the top.
THEOREM PlusCountsHolds == CtrInit /\ [][CtrNext]_ctrVars => PlusCounts
<1> DEFINE Counts ==
      plain /\ (ctr.any \/ ctr.count <= ctr.max) /\ ctrOut'.op \in {"Plus", "Add"} =>
        LET n == Number(ctr) + ctrOut'.m
        IN IF n <= CtrTop(ctr) THEN {Number(ctr'), ExpNumber(ctr')} = {n} /\ ctrOut'.err = "ok"
           ELSE Number(ctr') = 0 /\ ctrOut'.err = "over"
<1>1. CtrInit => CtrInv
  BY InitCtr
<1>2. CtrInv /\ [CtrNext]_ctrVars => CtrInv'
  BY StepCtr
<1>3. CtrInv /\ [CtrNext]_ctrVars => [Counts]_ctrVars
  <2> SUFFICES ASSUME CtrInv, CtrNext PROVE Counts
    OBVIOUS
  <2> QED BY CountStep
<1> HIDE DEF Counts
<1>4. CtrInit /\ [][CtrNext]_ctrVars => [][Counts]_ctrVars
  BY <1>1, <1>2, <1>3, PTL
<1> QED BY <1>4 DEF PlusCounts, Counts
=============================================================================
