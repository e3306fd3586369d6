-------------------------- MODULE RateLimitProofs --------------------------
(***************************************************************************)
(* Proofs about RateLimit, for every number of handlers and callers, every *)
(* limit, window and lag: its types; that no counter is left without a     *)
(* life unless the call that created it failed; that such a counter counts *)
(* recent calls only; and that whatever fails no window of time admits     *)
(* more than twice the limit.                                              *)
(*                                                                         *)
(* The last two are about sums over the ages of past calls.  What a sum is *)
(* is defined by recursion over the ages, so the lemmas about sums need    *)
(* induction: Climb is induction over 0..m, stated with a set and proved   *)
(* from the finiteness of intervals.                                       *)
(***************************************************************************)
EXTENDS RateLimit, FiniteSetTheorems, TLAPS

-----------------------------------------------------------------------------
(* Sums over ages.                                                         *)

\* Induction up to a bound, over a set.  Were n not in S, the members of S
\* below n would be mapped into themselves by the successor, one to one but
\* not onto, although they are finitely many.
LEMMA Climb ==
  ASSUME NEW m \in Nat, NEW S, 0 \in S,
         \A k \in 0..m : k \in S /\ k < m => k + 1 \in S
  PROVE  \A n \in 0..m : n \in S
<1> SUFFICES ASSUME NEW n \in 0..m, n \notin S
             PROVE  FALSE
  OBVIOUS
<1> DEFINE T == S \cap (0..n)
           next == [k \in T |-> k + 1]
<1>1. \A k \in T : k \in 0..m /\ k < n
  OBVIOUS
<1>2. \A k \in T : k + 1 \in T
  BY <1>1
<1>3. next \in [T -> T]
  BY <1>2
<1>4. IsInjective(next)
  BY <1>1 DEF IsInjective
<1>5. IsFiniteSet(T)
  <2>1. IsFiniteSet(0..n)
    BY FS_Interval
  <2>2. T \in SUBSET (0..n)
    OBVIOUS
  <2> HIDE DEF T
  <2> QED
    BY <2>1, <2>2, FS_Subset
<1>6. next \in Injection(T, T)
  BY <1>3, <1>4 DEF Injection
<1>7. next \in Surjection(T, T)
  <2> HIDE DEF T, next
  <2> QED
    BY <1>5, <1>6, FS_Injection
<1>8. \E k \in T : next[k] = 0
  <2>1. 0 \in T
    OBVIOUS
  <2> HIDE DEF T, next
  <2> QED
    BY <1>7, <2>1 DEF Surjection
<1> QED
  BY <1>1, <1>8

\* The recursion has a solution, so Sums is one.
LEMMA SumsExist ==
  ASSUME NEW m \in Nat, NEW f \in [0..m -> Nat]
  PROVE  /\ Sums(f) \in [0..m -> Nat]
         /\ Sums(f)[0] = f[0]
         /\ \A a \in 0..m : a # 0 => Sums(f)[a] = Sums(f)[a - 1] + f[a]
<1> DEFINE Solves(g, k) ==
             \A a \in 0..k : g[a] = IF a = 0 THEN f[0] ELSE g[a - 1] + f[a]
           S == {k \in 0..m : \E g \in [0..k -> Nat] : Solves(g, k)}
           Step(g) == [a \in DOMAIN f |-> IF a = 0 THEN f[0] ELSE g[a - 1] + f[a]]
<1>1. 0 \in S
  <2> DEFINE g == [a \in 0..0 |-> f[0]]
  <2>1. g \in [0..0 -> Nat] /\ Solves(g, 0)
    OBVIOUS
  <2> HIDE DEF g, Solves
  <2> QED
    BY <2>1
<1>2. ASSUME NEW k \in 0..m, k \in S, k < m
      PROVE  k + 1 \in S
  <2>1. PICK g \in [0..k -> Nat] : Solves(g, k)
    BY <1>2
  <2> DEFINE h == [a \in 0..(k + 1) |-> IF a <= k THEN g[a] ELSE g[k] + f[k + 1]]
  <2>2. k \in Nat /\ k + 1 \in 0..m /\ f[k + 1] \in Nat /\ k \in 0..k /\ g[k] \in Nat
    BY <1>2
  <2>3. h \in [0..(k + 1) -> Nat]
    <3>1. \A a \in 0..(k + 1) : a <= k => g[a] \in Nat
      BY <2>2
    <3>2. g[k] + f[k + 1] \in Nat
      BY <2>2
    <3> QED
      BY <3>1, <3>2
  <2>4. Solves(h, k + 1)
    <3> SUFFICES ASSUME NEW a \in 0..(k + 1)
                 PROVE  h[a] = IF a = 0 THEN f[0] ELSE h[a - 1] + f[a]
      OBVIOUS
    <3>1. CASE a <= k
      <4>1. g[a] = IF a = 0 THEN f[0] ELSE g[a - 1] + f[a]
        BY <2>1, <2>2, <3>1
      <4>2. a # 0 => a - 1 \in 0..(k + 1) /\ a - 1 <= k
        BY <2>2, <3>1
      <4>3. h[a] = g[a] /\ (a # 0 => h[a - 1] = g[a - 1])
        BY <3>1, <4>2
      <4> HIDE DEF h
      <4> QED
        BY <4>1, <4>3
    <3>2. CASE ~(a <= k)
      <4>1. a = k + 1 /\ a # 0 /\ a - 1 = k /\ k \in 0..(k + 1) /\ ~(k + 1 <= k)
        BY <2>2, <3>2
      <4>2. h[a] = g[k] + f[k + 1] /\ h[k] = g[k]
        BY <2>2, <4>1
      <4> HIDE DEF h
      <4> QED
        BY <4>1, <4>2
    <3> QED
      BY <3>1, <3>2
  <2>5. \E g1 \in [0..(k + 1) -> Nat] : Solves(g1, k + 1)
    <3> HIDE DEF h, Solves
    <3> QED
      BY <2>3, <2>4
  <2> QED
    BY <2>2, <2>5, Zenon
<1>3. m \in S
  <2> HIDE DEF S
  <2>1. \A n \in 0..m : n \in S
    BY <1>1, <1>2, Climb
  <2> QED
    BY <2>1
<1>4. PICK g \in [0..m -> Nat] : Solves(g, m)
  BY <1>3
<1>5. g = Step(g)
  BY <1>4
<1>6. Sums(f) = CHOOSE s : s = Step(s)
  BY Zenon DEF Sums
<1>7. Sums(f) = Step(Sums(f))
  <2> HIDE DEF Step
  <2> QED
    BY <1>5, <1>6, Zenon
<1>8. /\ DOMAIN Sums(f) = 0..m
      /\ \A a \in 0..m : Sums(f)[a] = IF a = 0 THEN f[0] ELSE Sums(f)[a - 1] + f[a]
  <2> DEFINE s == Sums(f)
  <2>1. s = Step(s)
    BY <1>7
  <2> HIDE DEF s
  <2>2. DOMAIN s = 0..m /\ \A a \in 0..m : s[a] = IF a = 0 THEN f[0] ELSE s[a - 1] + f[a]
    BY <2>1
  <2> QED
    BY <2>2 DEF s
<1>9. \A a \in 0..m : Sums(f)[a] \in Nat
  <2> DEFINE N == {k \in 0..m : Sums(f)[k] \in Nat}
  <2>1. 0 \in N
    BY <1>8
  <2>2. ASSUME NEW k \in 0..m, k \in N, k < m
        PROVE  k + 1 \in N
    BY <1>8, <2>2
  <2>3. \A k \in 0..m : k \in N
    <3> HIDE DEF N
    <3> QED
      BY <2>1, <2>2, Climb
  <2> QED
    BY <2>3
<1>10. Sums(f) = [a \in 0..m |-> Sums(f)[a]]
  BY <1>7, <1>8
<1>11. Sums(f) \in [0..m -> Nat]
  BY <1>9, <1>10, Zenon
<1>12. 0 \in 0..m
  OBVIOUS
<1> QED
  BY <1>8, <1>11, <1>12

\* Older calls are more calls.
LEMMA SumsGrow ==
  ASSUME NEW m \in Nat, NEW f \in [0..m -> Nat], NEW i \in 0..m, NEW j \in 0..m, i <= j
  PROVE  Sums(f)[i] <= Sums(f)[j]
<1> DEFINE S == {k \in 0..m : i <= k => Sums(f)[i] <= Sums(f)[k]}
<1>1. /\ Sums(f) \in [0..m -> Nat]
      /\ \A a \in 0..m : a # 0 => Sums(f)[a] = Sums(f)[a - 1] + f[a]
  BY SumsExist
<1>2. 0 \in S
  BY <1>1
<1>3. ASSUME NEW k \in 0..m, k \in S, k < m
      PROVE  k + 1 \in S
  <2>1. /\ k + 1 \in 0..m /\ k + 1 # 0 /\ (k + 1) - 1 = k
        /\ f[k + 1] \in Nat /\ Sums(f)[k] \in Nat
    BY <1>1, <1>3
  <2>2. Sums(f)[k + 1] = Sums(f)[k] + f[k + 1]
    BY <1>1, <2>1
  <2>3. Sums(f)[i] \in Nat
    BY <1>1
  <2>4. i <= k + 1 => i <= k \/ i = k + 1
    OBVIOUS
  <2>5. i <= k => Sums(f)[i] <= Sums(f)[k]
    BY <1>3
  <2>6. i <= k + 1 => Sums(f)[i] <= Sums(f)[k + 1]
    BY <2>1, <2>2, <2>3, <2>4, <2>5
  <2> QED
    BY <2>1, <2>6
<1>4. \A k \in 0..m : k \in S
  <2> HIDE DEF S
  <2> QED
    BY <1>2, <1>3, Climb
<1> QED
  BY <1>4

\* When time has passed, what was of an age or less is of the next one or less.
LEMMA SumsOfOlder ==
  ASSUME NEW m \in Nat, NEW f \in [0..m -> Nat]
  PROVE  /\ Older(f) \in [0..m -> Nat] /\ Older(f)[0] = 0
         /\ \A k \in 0..m : k < m => Sums(Older(f))[k + 1] = Sums(f)[k]
         /\ Sums(Older(f))[m] <= Sums(f)[m]
<1> DEFINE g == Older(f)
           S == {k \in 0..m : k < m => Sums(g)[k + 1] = Sums(f)[k]}
<1>1. /\ g \in [0..m -> Nat] /\ g[0] = 0
      /\ \A a \in 0..m : a # 0 => g[a] = f[a - 1]
  <2>1. \A a \in 0..m : a # 0 => f[a - 1] \in Nat
    OBVIOUS
  <2>2. DOMAIN f = 0..m /\ 0 \in 0..m
    OBVIOUS
  <2> QED
    BY <2>1, <2>2 DEF Older
<1> HIDE DEF g
<1>2. /\ Sums(f) \in [0..m -> Nat] /\ Sums(f)[0] = f[0]
      /\ \A a \in 0..m : a # 0 => Sums(f)[a] = Sums(f)[a - 1] + f[a]
  BY SumsExist
<1>3. /\ Sums(g) \in [0..m -> Nat] /\ Sums(g)[0] = g[0]
      /\ \A a \in 0..m : a # 0 => Sums(g)[a] = Sums(g)[a - 1] + g[a]
  BY <1>1, SumsExist
<1>4. 0 \in S
  <2> SUFFICES ASSUME 0 < m PROVE Sums(g)[0 + 1] = Sums(f)[0]
    OBVIOUS
  <2>1. 1 \in 0..m /\ 1 # 0 /\ 1 - 1 = 0 /\ f[0] \in Nat
    OBVIOUS
  <2>2. Sums(g)[1] = Sums(g)[0] + g[1] /\ g[1] = f[0]
    BY <1>1, <1>3, <2>1
  <2> QED
    BY <1>1, <1>2, <1>3, <2>1, <2>2
<1>5. ASSUME NEW k \in 0..m, k \in S, k < m
      PROVE  k + 1 \in S
  <2> SUFFICES ASSUME k + 1 < m PROVE Sums(g)[(k + 1) + 1] = Sums(f)[k + 1]
    BY <1>5
  <2>1. /\ k + 1 \in 0..m /\ k + 1 # 0 /\ (k + 1) - 1 = k
        /\ k + 2 \in 0..m /\ k + 2 # 0 /\ (k + 2) - 1 = k + 1
        /\ (k + 1) + 1 = k + 2
    OBVIOUS
  <2>2. Sums(g)[k + 2] = Sums(g)[k + 1] + g[k + 2] /\ g[k + 2] = f[k + 1]
    BY <1>1, <1>3, <2>1
  <2>3. Sums(f)[k + 1] = Sums(f)[k] + f[k + 1]
    BY <1>2, <2>1
  <2>4. Sums(g)[k + 1] = Sums(f)[k]
    BY <1>5
  <2> QED
    BY <2>1, <2>2, <2>3, <2>4
<1>6. \A k \in 0..m : k \in S
  <2> HIDE DEF S
  <2> QED
    BY <1>4, <1>5, Climb
<1>7. \A k \in 0..m : k < m => Sums(g)[k + 1] = Sums(f)[k]
  BY <1>6
<1>8. Sums(g)[m] <= Sums(f)[m]
  <2>1. CASE m = 0
    <3>1. Sums(f)[0] \in Nat
      BY <1>2
    <3> QED
      BY <1>1, <1>3, <2>1, <3>1
  <2>2. CASE m # 0
    <3>1. m - 1 \in 0..m /\ m - 1 < m /\ (m - 1) + 1 = m /\ m \in 0..m /\ m - 1 <= m
      BY <2>2
    <3>2. Sums(g)[m] = Sums(f)[m - 1]
      BY <1>7, <3>1
    <3> QED
      BY <3>1, <3>2, SumsGrow
  <2> QED
    BY <2>1, <2>2
<1> QED
  BY <1>1, <1>7, <1>8 DEF g

\* What is added to the youngest is added to every sum.
LEMMA SumsOfMore ==
  ASSUME NEW m \in Nat, NEW f \in [0..m -> Nat], NEW v \in Nat
  PROVE  \A k \in 0..m : Sums([f EXCEPT ![0] = v])[k] + f[0] = Sums(f)[k] + v
<1> DEFINE g == [f EXCEPT ![0] = v]
           S == {k \in 0..m : Sums(g)[k] + f[0] = Sums(f)[k] + v}
<1>1. /\ g \in [0..m -> Nat] /\ g[0] = v /\ f[0] \in Nat
      /\ \A a \in 0..m : a # 0 => g[a] = f[a]
  OBVIOUS
<1> HIDE DEF g
<1>2. /\ Sums(f) \in [0..m -> Nat] /\ Sums(f)[0] = f[0]
      /\ \A a \in 0..m : a # 0 => Sums(f)[a] = Sums(f)[a - 1] + f[a]
  BY SumsExist
<1>3. /\ Sums(g) \in [0..m -> Nat] /\ Sums(g)[0] = g[0]
      /\ \A a \in 0..m : a # 0 => Sums(g)[a] = Sums(g)[a - 1] + g[a]
  BY <1>1, SumsExist
<1>4. 0 \in S
  BY <1>1, <1>2, <1>3
<1>5. ASSUME NEW k \in 0..m, k \in S, k < m
      PROVE  k + 1 \in S
  <2>1. k + 1 \in 0..m /\ k + 1 # 0 /\ (k + 1) - 1 = k
    BY <1>5
  <2>2. Sums(g)[k + 1] = Sums(g)[k] + g[k + 1] /\ g[k + 1] = f[k + 1]
    BY <1>1, <1>3, <2>1
  <2>3. Sums(f)[k + 1] = Sums(f)[k] + f[k + 1]
    BY <1>2, <2>1
  <2>4. Sums(g)[k] + f[0] = Sums(f)[k] + v
    BY <1>5
  <2>5. /\ Sums(g)[k] \in Nat /\ Sums(f)[k] \in Nat /\ f[k + 1] \in Nat
    BY <1>2, <1>3, <2>1
  <2>6. Sums(g)[k + 1] = Sums(g)[k] + f[k + 1]
    BY <2>2
  <2>7. (Sums(g)[k] + f[k + 1]) + f[0] = (Sums(f)[k] + f[k + 1]) + v
    <3>1. PICK w \in Nat : w = Sums(g)[k]
      BY <2>5
    <3>2. PICK x \in Nat : x = Sums(f)[k]
      BY <2>5
    <3>3. PICK y \in Nat : y = f[k + 1]
      BY <2>5
    <3>4. PICK z \in Nat : z = f[0]
      OBVIOUS
    <3>5. w + z = x + v
      BY <2>4, <3>1, <3>2, <3>4
    <3>6. (w + y) + z = (x + y) + v
      BY <3>5
    <3> QED
      BY <3>1, <3>2, <3>3, <3>4, <3>6
  <2>8. Sums(g)[k + 1] + f[0] = Sums(f)[k + 1] + v
    BY <2>3, <2>6, <2>7
  <2> QED
    BY <2>1, <2>8
<1>6. \A k \in 0..m : k \in S
  <2> HIDE DEF S
  <2> QED
    BY <1>4, <1>5, Climb
<1> QED
  BY <1>6 DEF g

\* A sum that is no less than a count stays so when a call is added to both,
\* even if the youngest number or the count is at its cap.
LEMMA SumsOfOneMore ==
  ASSUME NEW m \in Nat, NEW f \in [0..m -> Nat], NEW a \in 0..m,
         NEW cap \in Nat, f[0] <= cap, NEW n \in Nat, n <= Sums(f)[a]
  PROVE  Smaller(n + 1, cap) <= Sums([f EXCEPT ![0] = Smaller(f[0] + 1, cap)])[a]
<1>1. PICK z \in Nat : z = f[0]
  OBVIOUS
<1>2. PICK v \in Nat : v = Smaller(z + 1, cap)
  BY DEF Smaller
<1>3. PICK g \in [0..m -> Nat] : g = [f EXCEPT ![0] = v]
  OBVIOUS
<1>4. g[0] = v /\ 0 \in 0..m /\ 0 <= a
  BY <1>3
<1>5. Sums(g)[a] + z = Sums(f)[a] + v
  <2>1. \A k \in 0..m : Sums([f EXCEPT ![0] = v])[k] + f[0] = Sums(f)[k] + v
    BY SumsOfMore
  <2> QED
    BY <1>1, <1>3, <2>1
<1>s. Sums(f) \in [0..m -> Nat] /\ Sums(g) \in [0..m -> Nat]
  BY SumsExist
<1>6. PICK y \in Nat : y = Sums(f)[a]
  BY <1>s
<1>7. PICK x \in Nat : x = Sums(g)[a]
  BY <1>s
<1>8. Sums(g)[0] <= Sums(g)[a] /\ Sums(g)[0] = g[0]
  BY <1>4, SumsExist, SumsGrow
<1>9. v <= x /\ x + z = y + v /\ n <= y /\ z <= cap
  BY <1>1, <1>4, <1>5, <1>6, <1>7, <1>8
<1>10. Smaller(n + 1, cap) <= x
  BY <1>2, <1>9 DEF Smaller
<1> QED
  BY <1>1, <1>2, <1>3, <1>7, <1>10

-----------------------------------------------------------------------------
(* The rate limit.                                                         *)

\* Constants that every step below relies on.
USE ConstantsAssumption DEF Counters, CountCap, AdmittedCap, NoTTL, Horizon, Minute

\* The first age exists: there is a window and a time for EXPIRE to arrive.
LEMMA AgeZero == 0 \in Horizon /\ 0 \in Minute
  OBVIOUS

\* Every call is counted by one of the counters.
LEMMA CounterOfType == \A c \in Calls : CounterOf(c) \in Counters
  BY DEF CounterOf, Call

\* Counts saturate at their cap.
LEMMA SmallerType ==
  ASSUME NEW m \in Nat, NEW cap \in Nat
  PROVE  Smaller(m, cap) \in 0..cap
BY DEF Smaller

\* A counter read from Redis and increased keeps its type.
LEMMA IncreasedType ==
  ASSUME TypeOK, NEW b \in Counters
  PROVE  Smaller(count[b] + 1, CountCap) \in 0..CountCap
<1>1. count[b] \in 0..CountCap
  BY DEF TypeOK
<1>2. count[b] + 1 \in Nat /\ CountCap \in Nat
  BY <1>1
<1> QED
  BY <1>2, SmallerType

\* One more call keeps the type of the ages.
LEMMA CountedType ==
  ASSUME TypeOK, NEW b \in Counters
  PROVE  Counted(b) \in [Counters -> [Horizon -> 0..CountCap]]
<1> DEFINE one == Smaller(recent[b][0] + 1, CountCap)
<1>1. recent[b] \in [Horizon -> 0..CountCap]
  BY DEF TypeOK
<1>2. one \in 0..CountCap
  <2>1. recent[b][0] + 1 \in Nat /\ CountCap \in Nat
    BY <1>1, AgeZero
  <2> QED
    BY <2>1, SmallerType
<1>3. [recent[b] EXCEPT ![0] = one] \in [Horizon -> 0..CountCap]
  BY <1>1, <1>2
<1> QED
  BY <1>3 DEF Counted, TypeOK

\* One more admitted call is counted within its cap.
LEMMA AdmittedType ==
  ASSUME TypeOK, NEW b \in Counters, NEW n
  PROVE  Admitted(b, n) \in [Counters -> [Minute -> 0..AdmittedCap]]
<1> DEFINE one == Smaller(admitted[b][0] + 1, AdmittedCap)
<1>1. admitted[b] \in [Minute -> 0..AdmittedCap]
  BY DEF TypeOK
<1>2. one \in 0..AdmittedCap
  <2>1. admitted[b][0] + 1 \in Nat /\ AdmittedCap \in Nat
    BY <1>1, AgeZero
  <2> QED
    BY <2>1, SmallerType
<1>3. [admitted[b] EXCEPT ![0] = one] \in [Minute -> 0..AdmittedCap]
  BY <1>1, <1>2
<1> QED
  BY <1>3 DEF Admitted, TypeOK

\* Ages shift within their range.
LEMMA OlderType ==
  ASSUME NEW m \in Nat \ {0}, NEW S, 0 \in S, NEW f \in [0..(m - 1) -> S]
  PROVE  Older(f) \in [0..(m - 1) -> S]
<1>1. ASSUME NEW a \in 0..(m - 1), a # 0
      PROVE  f[a - 1] \in S
  BY <1>1
<1> QED
  BY <1>1 DEF Older

\* What Decide leaves is typed.
LEMMA DecideType ==
  ASSUME TypeOK, NEW h \in Handlers, NEW n, Decide(h, n)
  PROVE  /\ pc' \in [Handlers -> {"idle", "expiring", "decided"}]
         /\ waited' \in [Handlers -> 0..Lag]
         /\ verdict' \in [Handlers -> {"none", "served", "rejected"}]
  BY DEF Decide, TypeOK

-----------------------------------------------------------------------------
\* The types are an invariant by themselves.
LEMMA TypeInit == Init => TypeOK
  BY DEF Init, TypeOK

\* Every step keeps the types, saturated counts included.
LEMMA TypeStep == TypeOK /\ [Next]_vars => TypeOK'
<1> SUFFICES ASSUME TypeOK, [Next]_vars
             PROVE  TypeOK'
  OBVIOUS
<1>1. CASE Tick
  <2>1. waited' \in [Handlers -> 0..Lag]
    <3>1. \A h \in Handlers : pc[h] = "expiring" => waited[h] + 1 \in 0..Lag
      BY <1>1 DEF Tick, TypeOK
    <3> QED
      BY <1>1, <3>1 DEF Tick, TypeOK
  <2>2. recent' \in [Counters -> [Horizon -> 0..CountCap]]
    <3>1. \A b \in Counters : Older(recent[b]) \in [Horizon -> 0..CountCap]
      <4> SUFFICES ASSUME NEW b \in Counters
                   PROVE  Older(recent[b]) \in [Horizon -> 0..CountCap]
        OBVIOUS
      <4>1. PICK m \in Nat \ {0} : m = Window + Lag
        OBVIOUS
      <4>2. recent[b] \in [0..(m - 1) -> 0..CountCap] /\ 0 \in 0..CountCap
        BY <4>1 DEF TypeOK
      <4>3. Older(recent[b]) \in [0..(m - 1) -> 0..CountCap]
        BY <4>2, OlderType
      <4> QED
        BY <4>1, <4>3
    <3> QED
      BY <1>1, <3>1 DEF Tick
  <2>3. admitted' \in [Counters -> [Minute -> 0..AdmittedCap]]
    <3>1. \A b \in Counters : Older(admitted[b]) \in [Minute -> 0..AdmittedCap]
      BY OlderType, 0 \in 0..AdmittedCap DEF TypeOK
    <3> QED
      BY <1>1, <3>1 DEF Tick
  <2>4. ttl' \in [Counters -> 0..Window] /\ count' \in [Counters -> 0..CountCap]
    BY <1>1 DEF Tick, TypeOK
  <2> QED
    BY <1>1, <2>1, <2>2, <2>3, <2>4 DEF Tick, TypeOK
<1>2. ASSUME NEW h \in Handlers, NEW c \in Calls, Incr(h, c)
      PROVE  TypeOK'
  <2> DEFINE b == CounterOf(c)
             n == count[b] + 1
  <2>1. b \in Counters
    BY CounterOfType
  <2>2. Smaller(n, CountCap) \in 0..CountCap
    BY <2>1, IncreasedType
  <2>3. /\ pc' \in [Handlers -> {"idle", "expiring", "decided"}]
        /\ waited' \in [Handlers -> 0..Lag]
        /\ verdict' \in [Handlers -> {"none", "served", "rejected"}]
    <3>1. CASE Created(n)
      <4>1. /\ pc' = [pc EXCEPT ![h] = "expiring"]
            /\ waited' = [waited EXCEPT ![h] = 0]
            /\ verdict' = [verdict EXCEPT ![h] = "none"]
        BY <1>2, <3>1 DEF Incr
      <4> QED
        BY <4>1, 0 \in 0..Lag DEF TypeOK
    <3>2. CASE ~Created(n)
      BY <1>2, <3>2, DecideType DEF Incr
    <3> QED
      BY <3>1, <3>2
  <2>4. recent' = Counted(b) /\ admitted' = Admitted(b, n)
    BY <1>2 DEF Incr
  <2>5. recent' \in [Counters -> [Horizon -> 0..CountCap]]
    BY <2>1, <2>4, CountedType
  <2>6. admitted' \in [Counters -> [Minute -> 0..AdmittedCap]]
    BY <2>1, <2>4, AdmittedType
  <2> QED
    BY <1>2, <2>1, <2>2, <2>3, <2>5, <2>6 DEF Incr, TypeOK
<1>3. ASSUME NEW h \in Handlers, NEW c \in Calls, IncrFails(h, c)
      PROVE  TypeOK'
  <2> DEFINE b == CounterOf(c)
  <2>1. b \in Counters
    BY CounterOfType
  <2>2. Smaller(count[b] + 1, CountCap) \in 0..CountCap
    BY <2>1, IncreasedType
  <2>3. /\ count' \in [Counters -> 0..CountCap]
        /\ recent' \in [Counters -> [Horizon -> 0..CountCap]]
    <3>1. CASE UNCHANGED <<count, recent>>
      BY <3>1 DEF TypeOK
    <3>2. CASE /\ count' = [count EXCEPT ![b] = Smaller(@ + 1, CountCap)]
               /\ recent' = Counted(b)
      <4>1. recent' \in [Counters -> [Horizon -> 0..CountCap]]
        BY <3>2, <2>1, CountedType
      <4>2. count' \in [Counters -> 0..CountCap]
        BY <3>2, <2>1, <2>2 DEF TypeOK
      <4> QED
        BY <4>1, <4>2
    <3> QED
      BY <1>3, <3>1, <3>2 DEF IncrFails
  <2>4. admitted' = admitted /\ stranded' \in SUBSET Counters
    BY <1>3, <2>1 DEF IncrFails, TypeOK
  <2>5. Decide(h, 0)
    BY <1>3 DEF IncrFails
  <2> QED
    BY <1>3, <2>1, <2>3, <2>4, <2>5, DecideType DEF IncrFails, TypeOK
<1>4. ASSUME NEW h \in Handlers, Expire(h)
      PROVE  TypeOK'
  <2>1. Decide(h, 1) /\ UNCHANGED <<count, counter, recent, admitted, stranded>>
    BY <1>4 DEF Expire
  <2>2. ttl' \in [Counters -> 0..Window]
    <3>1. (IF count[counter[h]] = 0 THEN NoTTL ELSE Window) \in 0..Window
      OBVIOUS
    <3> QED
      BY <1>4, <3>1 DEF Expire, TypeOK
  <2> QED
    BY <2>1, <2>2, DecideType DEF TypeOK
<1>5. ASSUME NEW h \in Handlers, ExpireFails(h)
      PROVE  TypeOK'
  <2>1. stranded' \in SUBSET Counters
    BY <1>5 DEF ExpireFails, TypeOK
  <2> QED
    BY <1>5, <2>1, DecideType DEF ExpireFails, redisVars, TypeOK
<1>6. CASE UNCHANGED vars
  BY <1>6 DEF vars, redisVars, handlerVars, TypeOK
<1> QED
  BY <1>1, <1>2, <1>3, <1>4, <1>5, <1>6 DEF Next

\* Every variable of the rate limit keeps its type.
THEOREM TypeCorrect == Spec => []TypeOK
  BY TypeInit, TypeStep, PTL DEF Spec

-----------------------------------------------------------------------------
\* The call that creates a counter is the one that gives it a life: the step
\* of every action.  A call that fails strands only the counter it created.
LEMMA ExpiryStep ==
  TypeOK /\ EveryCounterWillExpire /\ [Next]_vars => EveryCounterWillExpire'
<1> SUFFICES ASSUME TypeOK, EveryCounterWillExpire, [Next]_vars,
                    NEW b \in Counters, b \notin stranded',
                    count'[b] > 0, ttl'[b] = NoTTL
             PROVE  \E h \in Handlers : pc'[h] = "expiring" /\ counter'[h] = b
  BY DEF EveryCounterWillExpire
<1>1. CASE Tick
  <2>1. count[b] > 0 /\ ttl[b] = NoTTL /\ b \notin stranded
    BY <1>1 DEF Tick, TypeOK
  <2> QED
    BY <1>1, <2>1 DEF Tick, EveryCounterWillExpire
<1>2. ASSUME NEW h \in Handlers, NEW c \in Calls, Incr(h, c)
      PROVE  \E g \in Handlers : pc'[g] = "expiring" /\ counter'[g] = b
  <2> DEFINE k == CounterOf(c)
             n == count[k] + 1
  <2>0. k \in Counters /\ ttl' = ttl /\ b \notin stranded
    BY <1>2, CounterOfType DEF Incr
  <2>1. CASE b = k /\ Created(n)
    BY <1>2, <2>1 DEF Incr, TypeOK
  <2>2. CASE ~(b = k /\ Created(n))
    <3>1. count[b] > 0
      BY <1>2, <2>0, <2>2 DEF Incr, Created, TypeOK
    <3>2. PICK g \in Handlers : pc[g] = "expiring" /\ counter[g] = b
      BY <2>0, <3>1 DEF EveryCounterWillExpire
    <3>3. g # h
      BY <1>2, <3>2 DEF Incr, Free
    <3>4. pc'[g] = pc[g] /\ counter'[g] = counter[g]
      BY <1>2, <3>3 DEF Incr, Decide, TypeOK
    <3> QED
      BY <3>2, <3>4
  <2> QED
    BY <2>1, <2>2
<1>3. ASSUME NEW h \in Handlers, Expire(h)
      PROVE  \E g \in Handlers : pc'[g] = "expiring" /\ counter'[g] = b
  <2>1. count[b] > 0 /\ ttl[b] = NoTTL /\ counter[h] # b /\ b \notin stranded
    BY <1>3 DEF Expire, TypeOK
  <2>2. PICK g \in Handlers : pc[g] = "expiring" /\ counter[g] = b
    BY <2>1 DEF EveryCounterWillExpire
  <2>3. pc'[g] = pc[g] /\ counter'[g] = counter[g]
    BY <1>3, <2>1, <2>2 DEF Expire, Decide, TypeOK
  <2> QED
    BY <2>2, <2>3
<1>4. ASSUME NEW h \in Handlers, NEW c \in Calls, IncrFails(h, c)
      PROVE  \E g \in Handlers : pc'[g] = "expiring" /\ counter'[g] = b
  <2>1. count[b] > 0 /\ ttl[b] = NoTTL /\ b \notin stranded
    BY <1>4, CounterOfType DEF IncrFails, TypeOK
  <2>2. PICK g \in Handlers : pc[g] = "expiring" /\ counter[g] = b
    BY <2>1 DEF EveryCounterWillExpire
  <2>3. g # h
    BY <1>4, <2>2 DEF IncrFails, Free
  <2>4. pc'[g] = pc[g] /\ counter'[g] = counter[g]
    BY <1>4, <2>3 DEF IncrFails, Decide, TypeOK
  <2> QED
    BY <2>2, <2>4
<1>5. ASSUME NEW h \in Handlers, ExpireFails(h)
      PROVE  \E g \in Handlers : pc'[g] = "expiring" /\ counter'[g] = b
  <2>1. count[b] > 0 /\ ttl[b] = NoTTL /\ b \notin stranded /\ counter[h] # b
    BY <1>5 DEF ExpireFails, redisVars
  <2>2. PICK g \in Handlers : pc[g] = "expiring" /\ counter[g] = b
    BY <2>1 DEF EveryCounterWillExpire
  <2>3. pc'[g] = pc[g] /\ counter'[g] = counter[g]
    BY <1>5, <2>1, <2>2 DEF ExpireFails, Decide, TypeOK
  <2> QED
    BY <2>2, <2>3
<1>6. CASE UNCHANGED vars
  BY <1>6 DEF vars, redisVars, handlerVars, EveryCounterWillExpire
<1> QED
  BY <1>1, <1>2, <1>3, <1>4, <1>5, <1>6 DEF Next

\* Every counter in Redis will expire, unless the call that created it
\* failed: nobody else's failure limits a caller for ever.
THEOREM CountersExpire == Spec => []EveryCounterWillExpire
<1>1. Init => EveryCounterWillExpire
  BY DEF Init, EveryCounterWillExpire
<1> QED
  BY <1>1, ExpiryStep, TypeCorrect, PTL DEF Spec

-----------------------------------------------------------------------------
(* What the counters count.                                                *)

\* Times that tie the ages together.
LEMMA Ages ==
  /\ Window + Lag - 1 \in Nat /\ Window - 1 \in Nat
  /\ Horizon = 0..(Window + Lag - 1) /\ Minute = 0..(Window - 1)
  /\ \A t \in 1..Window : Window - t + Lag \in Horizon
  /\ \A w \in 0..Lag : w \in Horizon
  OBVIOUS

\* What is known of one counter.
LEMMA CounterFacts ==
  ASSUME TypeOK, NEW b \in Counters
  PROVE  /\ count[b] \in 0..CountCap /\ ttl[b] \in 0..Window
         /\ recent[b] \in [0..(Window + Lag - 1) -> Nat]
         /\ Sums(recent[b]) \in [0..(Window + Lag - 1) -> Nat]
         /\ \A a \in Horizon : recent[b][a] \in 0..CountCap
         /\ admitted[b] \in [0..(Window - 1) -> Nat]
         /\ Sums(admitted[b]) \in [0..(Window - 1) -> Nat]
<1>1. count[b] \in 0..CountCap /\ ttl[b] \in 0..Window
  BY DEF TypeOK
<1>2. \A a \in Horizon : recent[b][a] \in 0..CountCap
  BY DEF TypeOK
<1>3. recent[b] \in [0..(Window + Lag - 1) -> Nat] /\ admitted[b] \in [0..(Window - 1) -> Nat]
  BY DEF TypeOK
<1>4. /\ Sums(recent[b]) \in [0..(Window + Lag - 1) -> Nat]
      /\ Sums(admitted[b]) \in [0..(Window - 1) -> Nat]
  BY <1>3, Ages, SumsExist
<1> QED
  BY <1>1, <1>2, <1>3, <1>4

\* A call counted raises the sums with the count.
LEMMA CountedSums ==
  ASSUME TypeOK, NEW b \in Counters, NEW a \in Horizon,
         count[b] <= Sums(recent[b])[a]
  PROVE  Smaller(count[b] + 1, CountCap) <= Sums(Counted(b)[b])[a]
<1>1. PICK m \in Nat : m = Window + Lag - 1
  BY Ages
<1>2. PICK f \in [0..m -> Nat] : f = recent[b]
  BY <1>1, CounterFacts
<1>3. PICK n \in Nat : n = count[b]
  BY CounterFacts
<1>4. f[0] <= CountCap /\ CountCap \in Nat /\ a \in 0..m
  BY <1>1, <1>2, CounterFacts, AgeZero
<1>5. Counted(b)[b] = [f EXCEPT ![0] = Smaller(f[0] + 1, CountCap)]
  BY <1>2 DEF Counted, TypeOK
<1>6. n <= Sums(f)[a]
  BY <1>2, <1>3
<1> HIDE DEF CountCap
<1>7. Smaller(n + 1, CountCap) <= Sums([f EXCEPT ![0] = Smaller(f[0] + 1, CountCap)])[a]
  BY <1>4, <1>6, SumsOfOneMore
<1> QED
  BY <1>3, <1>5, <1>7

\* Nobody else's calls are touched.
LEMMA CountedElsewhere ==
  ASSUME TypeOK, NEW b \in Counters, NEW k \in Counters, b # k
  PROVE  Counted(k)[b] = recent[b]
BY DEF Counted, TypeOK

\* A tick of the clock.
LEMMA TickSums ==
  ASSUME TypeOK, Tick, NEW b \in Counters
  PROVE  /\ \A a \in Horizon :
              a < Window + Lag - 1 => Sums(recent'[b])[a + 1] = Sums(recent[b])[a]
         /\ \A a \in Minute :
              a < Window - 1 => Sums(admitted'[b])[a + 1] = Sums(admitted[b])[a]
         /\ Sums(admitted'[b])[Window - 1] <= Sums(admitted[b])[Window - 1]
         /\ admitted'[b][0] = 0
         /\ count'[b] = (IF ttl[b] = 1 THEN 0 ELSE count[b])
         /\ ttl'[b] = (IF ttl[b] = NoTTL THEN NoTTL ELSE ttl[b] - 1)
<1>1. recent'[b] = Older(recent[b]) /\ admitted'[b] = Older(admitted[b])
  BY DEF Tick
<1>2. \A a \in 0..(Window + Lag - 1) :
        a < Window + Lag - 1 => Sums(Older(recent[b]))[a + 1] = Sums(recent[b])[a]
  BY Ages, CounterFacts, SumsOfOlder
<1>3. /\ Older(admitted[b])[0] = 0
      /\ \A a \in 0..(Window - 1) :
           a < Window - 1 => Sums(Older(admitted[b]))[a + 1] = Sums(admitted[b])[a]
      /\ Sums(Older(admitted[b]))[Window - 1] <= Sums(admitted[b])[Window - 1]
  BY Ages, CounterFacts, SumsOfOlder
<1>4. /\ count'[b] = (IF ttl[b] = 1 THEN 0 ELSE count[b])
      /\ ttl'[b] = (IF ttl[b] = NoTTL THEN NoTTL ELSE ttl[b] - 1)
  BY DEF Tick
<1> QED
  BY <1>1, <1>2, <1>3, <1>4

-----------------------------------------------------------------------------
\* The step of OneCreator.
LEMMA CreatorStep ==
  ASSUME RateLimitInv, [Next]_vars
  PROVE  OneCreator'
<1> SUFFICES ASSUME NEW h \in Handlers, pc'[h] = "expiring", counter'[h] \notin stranded'
             PROVE  /\ count'[counter'[h]] > 0 /\ ttl'[counter'[h]] = NoTTL
                    /\ \A g \in Handlers :
                         pc'[g] = "expiring" /\ counter'[g] = counter'[h] => g = h
  BY DEF OneCreator
<1>0. TypeOK /\ OneCreator /\ TwoCountersAtMost
  BY DEF RateLimitInv
<1>1. CASE Tick
  <2>1. pc' = pc /\ counter' = counter /\ stranded' = stranded
    BY <1>1 DEF Tick
  <2>2. count[counter[h]] > 0 /\ ttl[counter[h]] = NoTTL /\ counter[h] \in Counters
    BY <1>0, <2>1 DEF OneCreator, TypeOK
  <2>3. count'[counter[h]] = count[counter[h]] /\ ttl'[counter[h]] = NoTTL
    BY <1>0, <1>1, <2>2, TickSums
  <2> QED
    BY <1>0, <2>1, <2>2, <2>3 DEF OneCreator
<1>2. ASSUME NEW g \in Handlers, NEW c \in Calls, Incr(g, c)
      PROVE  /\ count'[counter'[h]] > 0 /\ ttl'[counter'[h]] = NoTTL
             /\ \A e \in Handlers :
                  pc'[e] = "expiring" /\ counter'[e] = counter'[h] => e = h
  <2> DEFINE k == CounterOf(c)
             n == count[k] + 1
  <2>1. k \in Counters /\ ttl' = ttl /\ stranded' = stranded /\ pc[g] # "expiring"
    BY <1>2, CounterOfType DEF Incr, Free
  <2>2. /\ \A e \in Handlers \ {g} : pc'[e] = pc[e] /\ counter'[e] = counter[e]
        /\ counter'[g] = k
        /\ pc'[g] = "expiring" <=> Created(n)
    BY <1>0, <1>2 DEF Incr, Decide, TypeOK
  <2>3. \A b \in Counters : count[b] > 0 => count'[b] > 0
    BY <1>0, <1>2 DEF Incr, TypeOK, Smaller
  <2>4. CASE h = g
    <3>1. count[k] = 0
      BY <1>0, <2>1, <2>2, <2>4 DEF Created, TypeOK
    <3>2. ttl[k] = NoTTL
      BY <1>0, <2>1, <3>1 DEF TwoCountersAtMost
    <3>3. count'[k] > 0
      BY <1>0, <1>2, <2>1, <3>1 DEF Incr, TypeOK, Smaller
    <3>4. \A e \in Handlers \ {g} : ~(pc[e] = "expiring" /\ counter[e] = k)
      BY <1>0, <2>1, <2>2, <2>4, <3>1 DEF OneCreator
    <3> QED
      BY <2>1, <2>2, <2>4, <3>2, <3>3, <3>4
  <2>5. CASE h # g
    <3>1. pc[h] = "expiring" /\ counter'[h] = counter[h] /\ counter[h] \notin stranded
      BY <2>1, <2>2, <2>5
    <3>2. /\ count[counter[h]] > 0 /\ ttl[counter[h]] = NoTTL
          /\ \A e \in Handlers :
               pc[e] = "expiring" /\ counter[e] = counter[h] => e = h
      BY <1>0, <3>1 DEF OneCreator
    <3>3. counter[h] \in Counters
      BY <1>0 DEF TypeOK
    <3>4. pc'[g] = "expiring" => k # counter[h]
      BY <1>0, <2>1, <2>2, <3>2, <3>3 DEF Created, TypeOK
    <3> QED
      BY <2>1, <2>2, <2>3, <3>1, <3>2, <3>3, <3>4
  <2> QED
    BY <2>4, <2>5
<1>3. ASSUME NEW g \in Handlers, NEW c \in Calls, IncrFails(g, c)
      PROVE  /\ count'[counter'[h]] > 0 /\ ttl'[counter'[h]] = NoTTL
             /\ \A e \in Handlers :
                  pc'[e] = "expiring" /\ counter'[e] = counter'[h] => e = h
  <2>1. /\ pc'[g] = "decided" /\ ttl' = ttl /\ stranded \subseteq stranded'
        /\ \A e \in Handlers \ {g} : pc'[e] = pc[e] /\ counter'[e] = counter[e]
    BY <1>0, <1>3 DEF IncrFails, Decide, TypeOK
  <2>2. \A b \in Counters : count[b] > 0 => count'[b] > 0
    <3>1. PICK k \in Counters : k = CounterOf(c)
      BY CounterOfType
    <3>2. count' = count \/ count' = [count EXCEPT ![k] = Smaller(count[k] + 1, CountCap)]
      BY <1>3, <3>1 DEF IncrFails
    <3>3. count \in [Counters -> Nat] /\ Smaller(count[k] + 1, CountCap) > 0
      BY <1>0 DEF TypeOK, Smaller
    <3> QED
      BY <3>2, <3>3
  <2>3. counter[h] \in Counters /\ h # g
    BY <1>0, <2>1 DEF TypeOK
  <2> QED
    BY <1>0, <2>1, <2>2, <2>3 DEF OneCreator
<1>4. ASSUME NEW g \in Handlers, Expire(g) \/ ExpireFails(g)
      PROVE  /\ count'[counter'[h]] > 0 /\ ttl'[counter'[h]] = NoTTL
             /\ \A e \in Handlers :
                  pc'[e] = "expiring" /\ counter'[e] = counter'[h] => e = h
  <2>1. /\ pc[g] = "expiring" /\ pc'[g] = "decided"
        /\ counter' = counter /\ count' = count /\ stranded \subseteq stranded'
        /\ \A e \in Handlers \ {g} : pc'[e] = pc[e]
    BY <1>0, <1>4 DEF Expire, ExpireFails, Decide, redisVars, TypeOK
  <2>2. h # g /\ pc[h] = "expiring" /\ counter[h] \notin stranded
    BY <2>1
  <2>3. /\ count[counter[h]] > 0 /\ ttl[counter[h]] = NoTTL
        /\ \A e \in Handlers :
             pc[e] = "expiring" /\ counter[e] = counter[h] => e = h
    BY <1>0, <2>2 DEF OneCreator
  <2>4. counter[g] # counter[h] /\ counter[h] \in Counters
    BY <1>0, <2>1, <2>2, <2>3 DEF TypeOK
  <2>5. ttl'[counter[h]] = ttl[counter[h]]
    BY <1>0, <1>4, <2>4 DEF Expire, ExpireFails, redisVars, TypeOK
  <2> QED
    BY <2>1, <2>3, <2>5
<1>5. CASE UNCHANGED vars
  BY <1>0, <1>5 DEF vars, redisVars, handlerVars, OneCreator
<1> QED
  BY <1>1, <1>2, <1>3, <1>4, <1>5 DEF Next

\* A counter's calls are its own after a step that leaves its Redis value and
\* life, the ages and the handlers that are about to EXPIRE it alone.
OwnCalls(b) ==
  count[b] > 0 =>
    IF ttl[b] = NoTTL
    THEN \E h \in Handlers : /\ pc[h] = "expiring" /\ counter[h] = b
                             /\ count[b] <= Sums(recent[b])[waited[h]]
    ELSE count[b] <= Sums(recent[b])[Window - ttl[b] + Lag]

\* What a counter counts is not disturbed by a step that leaves it and its
\* creator alone.
LEMMA OwnCallsKept ==
  ASSUME NEW b \in Counters, OwnCalls(b),
         count'[b] = count[b], ttl'[b] = ttl[b], recent'[b] = recent[b],
         \A h \in Handlers : pc[h] = "expiring" /\ counter[h] = b =>
           pc'[h] = pc[h] /\ counter'[h] = counter[h] /\ waited'[h] = waited[h]
  PROVE  OwnCalls(b)'
BY DEF OwnCalls

\* So are they when one more is counted.
LEMMA OwnCallsCounted ==
  ASSUME TypeOK, NEW b \in Counters, OwnCalls(b), count[b] > 0,
         count'[b] = Smaller(count[b] + 1, CountCap), ttl'[b] = ttl[b],
         recent'[b] = Counted(b)[b],
         \A h \in Handlers : pc[h] = "expiring" /\ counter[h] = b =>
           pc'[h] = pc[h] /\ counter'[h] = counter[h] /\ waited'[h] = waited[h]
  PROVE  OwnCalls(b)'
<1>1. \A a \in Horizon : count[b] <= Sums(recent[b])[a] =>
        count'[b] <= Sums(recent'[b])[a]
  BY CountedSums
<1>2. CASE ttl[b] = NoTTL
  <2>1. PICK h \in Handlers : /\ pc[h] = "expiring" /\ counter[h] = b
                             /\ count[b] <= Sums(recent[b])[waited[h]]
    BY <1>2 DEF OwnCalls
  <2>2. waited[h] \in Horizon
    BY Ages DEF TypeOK
  <2>3. count'[b] <= Sums(recent'[b])[waited'[h]]
    BY <1>1, <2>1, <2>2
  <2> QED
    BY <1>2, <2>1, <2>3 DEF OwnCalls
<1>3. CASE ttl[b] # NoTTL
  <2>1. ttl[b] \in 1..Window
    BY <1>3 DEF TypeOK
  <2>2. Window - ttl[b] + Lag \in Horizon
    BY <2>1, Ages
  <2>3. count[b] <= Sums(recent[b])[Window - ttl[b] + Lag]
    BY <1>3 DEF OwnCalls
  <2>4. count'[b] <= Sums(recent'[b])[Window - ttl[b] + Lag]
    BY <1>1, <2>2, <2>3
  <2> QED
    BY <1>3, <2>4 DEF OwnCalls
<1> QED
  BY <1>2, <1>3

\* The clock makes the counter and its calls older.
LEMMA OwnCallsTick ==
  ASSUME TypeOK, Tick, NEW b \in Counters, OwnCalls(b)
  PROVE  OwnCalls(b)'
<1> SUFFICES ASSUME count'[b] > 0
             PROVE  IF ttl'[b] = NoTTL
                    THEN \E h \in Handlers : /\ pc'[h] = "expiring" /\ counter'[h] = b
                                             /\ count'[b] <= Sums(recent'[b])[waited'[h]]
                    ELSE count'[b] <= Sums(recent'[b])[Window - ttl'[b] + Lag]
  BY DEF OwnCalls
<1>1. ttl[b] # 1 /\ count'[b] = count[b] /\ ttl[b] \in 0..Window
  BY TickSums, CounterFacts
<1>2. CASE ttl[b] = NoTTL
  <2>1. PICK h \in Handlers : /\ pc[h] = "expiring" /\ counter[h] = b
                             /\ count[b] <= Sums(recent[b])[waited[h]]
    BY <1>1, <1>2 DEF OwnCalls
  <2>2. /\ pc'[h] = "expiring" /\ counter'[h] = b /\ waited'[h] = waited[h] + 1
        /\ waited[h] \in 0..Lag /\ waited[h] < Lag
    BY <2>1 DEF Tick, TypeOK
  <2>3. waited[h] \in Horizon /\ waited[h] < Window + Lag - 1
    BY <2>2
  <2>4. Sums(recent'[b])[waited[h] + 1] = Sums(recent[b])[waited[h]]
    BY <2>3, TickSums
  <2>5. ttl'[b] = NoTTL
    BY <1>2, TickSums
  <2> QED
    BY <1>1, <2>1, <2>2, <2>4, <2>5
<1>3. CASE ttl[b] # NoTTL
  <2> DEFINE a == Window - ttl[b] + Lag
  <2>1. a \in Horizon /\ a < Window + Lag - 1
    BY <1>1, <1>3
  <2>2. ttl'[b] = ttl[b] - 1 /\ ttl'[b] # NoTTL /\ Window - ttl'[b] + Lag = a + 1
    BY <1>1, <1>3, TickSums
  <2>3. count[b] <= Sums(recent[b])[a]
    BY <1>1, <1>3 DEF OwnCalls
  <2>4. Sums(recent'[b])[a + 1] = Sums(recent[b])[a]
    <3> HIDE DEF a
    <3> QED
      BY <2>1, TickSums
  <2> HIDE DEF a
  <2> QED
    BY <1>1, <2>2, <2>3, <2>4
<1> QED
  BY <1>2, <1>3

\* The step of CountsItsOwn: the call that creates a counter starts its count,
\* and a life is given within Lag.
LEMMA OwnStep ==
  ASSUME RateLimitInv, [Next]_vars
  PROVE  CountsItsOwn'
<1>0. TypeOK /\ OneCreator /\ CountsItsOwn /\ TwoCountersAtMost
  BY DEF RateLimitInv
<1> SUFFICES ASSUME NEW b \in Counters, b \notin stranded'
             PROVE  OwnCalls(b)'
  BY DEF CountsItsOwn, OwnCalls
<1>a. b \notin stranded => OwnCalls(b)
  BY <1>0 DEF CountsItsOwn, OwnCalls
<1>1. CASE Tick
  <2>1. b \notin stranded
    BY <1>1 DEF Tick
  <2> QED
    BY <1>0, <1>1, <1>a, <2>1, OwnCallsTick
<1>2. ASSUME NEW h \in Handlers, NEW c \in Calls, Incr(h, c)
      PROVE  OwnCalls(b)'
  <2> DEFINE k == CounterOf(c)
             n == count[k] + 1
  <2>1. k \in Counters /\ ttl' = ttl /\ stranded' = stranded /\ pc[h] # "expiring"
    BY <1>2, CounterOfType DEF Incr, Free
  <2>2. /\ \A e \in Handlers \ {h} :
             pc'[e] = pc[e] /\ counter'[e] = counter[e] /\ waited'[e] = waited[e]
        /\ counter'[h] = k
        /\ Created(n) => pc'[h] = "expiring" /\ waited'[h] = 0
    BY <1>0, <1>2 DEF Incr, Decide, TypeOK
  <2>3. /\ count' = [count EXCEPT ![k] = Smaller(n, CountCap)]
        /\ recent' = Counted(k)
    BY <1>2 DEF Incr
  <2>4. \A e \in Handlers : pc[e] = "expiring" =>
          pc'[e] = pc[e] /\ counter'[e] = counter[e] /\ waited'[e] = waited[e]
    BY <2>1, <2>2
  <2>5. CASE b # k
    <3>1. count'[b] = count[b] /\ recent'[b] = recent[b]
      BY <1>0, <2>1, <2>3, <2>5, CountedElsewhere DEF TypeOK
    <3> QED
      BY <1>a, <2>1, <2>4, <3>1, OwnCallsKept
  <2>6. CASE b = k /\ count[b] > 0
    <3>1. count'[b] = Smaller(count[b] + 1, CountCap) /\ recent'[b] = Counted(b)[b]
      BY <1>0, <2>3, <2>6 DEF TypeOK
    <3> QED
      BY <1>0, <1>a, <2>1, <2>4, <2>6, <3>1, OwnCallsCounted
  <2>7. CASE b = k /\ ~(count[b] > 0)
    <3>1. count[b] = 0
      BY <1>0, <2>7, CounterFacts
    <3>2. ttl'[b] = NoTTL
      BY <1>0, <2>1, <3>1 DEF TwoCountersAtMost
    <3>3. count'[b] = Smaller(count[b] + 1, CountCap) /\ recent'[b] = Counted(b)[b]
      BY <1>0, <2>3, <2>7 DEF TypeOK
    <3>4. 0 \in Horizon /\ count[b] <= Sums(recent[b])[0]
      BY <1>0, <3>1, AgeZero, CounterFacts
    <3>5. count'[b] <= Sums(recent'[b])[0]
      BY <1>0, <3>3, <3>4, CountedSums
    <3>6. Created(n)
      BY <2>7, <3>1 DEF Created
    <3> QED
      BY <2>2, <2>7, <3>2, <3>5, <3>6 DEF OwnCalls
  <2> QED
    BY <2>5, <2>6, <2>7
<1>3. ASSUME NEW h \in Handlers, NEW c \in Calls, IncrFails(h, c)
      PROVE  OwnCalls(b)'
  <2> DEFINE k == CounterOf(c)
  <2>1. k \in Counters /\ ttl' = ttl /\ stranded \subseteq stranded' /\ pc[h] # "expiring"
    BY <1>3, CounterOfType DEF IncrFails, Free
  <2>2. \A e \in Handlers \ {h} :
          pc'[e] = pc[e] /\ counter'[e] = counter[e] /\ waited'[e] = waited[e]
    BY <1>0, <1>3 DEF IncrFails, Decide, TypeOK
  <2>3. \/ count' = count /\ recent' = recent
        \/ /\ count' = [count EXCEPT ![k] = Smaller(count[k] + 1, CountCap)]
           /\ recent' = Counted(k)
           /\ count[k] = 0 => k \in stranded'
    BY <1>3 DEF IncrFails
  <2>4. \A e \in Handlers : pc[e] = "expiring" =>
          pc'[e] = pc[e] /\ counter'[e] = counter[e] /\ waited'[e] = waited[e]
    BY <2>1, <2>2
  <2>5. CASE count'[b] = count[b] /\ recent'[b] = recent[b]
    BY <1>a, <2>1, <2>4, <2>5, OwnCallsKept
  <2>6. CASE ~(count'[b] = count[b] /\ recent'[b] = recent[b])
    <3>1. b = k
      BY <1>0, <2>1, <2>3, <2>6, CountedElsewhere DEF TypeOK
    <3>2. /\ count'[b] = Smaller(count[b] + 1, CountCap) /\ recent'[b] = Counted(b)[b]
          /\ count[b] # 0
      BY <1>0, <2>3, <2>6, <3>1 DEF TypeOK
    <3>3. count[b] > 0
      BY <1>0, <3>2, CounterFacts
    <3> QED
      BY <1>0, <1>a, <2>1, <2>4, <3>2, <3>3, OwnCallsCounted
  <2> QED
    BY <2>5, <2>6
<1>4. ASSUME NEW h \in Handlers, Expire(h)
      PROVE  OwnCalls(b)'
  <2>1. /\ pc[h] = "expiring" /\ UNCHANGED <<count, counter, recent, stranded>>
        /\ \A e \in Handlers \ {h} : pc'[e] = pc[e] /\ waited'[e] = waited[e]
    BY <1>0, <1>4 DEF Expire, Decide, TypeOK
  <2>2. CASE counter[h] # b
    <3>1. ttl'[b] = ttl[b]
      BY <1>0, <1>4, <2>2 DEF Expire, TypeOK
    <3> QED
      BY <1>a, <2>1, <2>2, <3>1, OwnCallsKept
  <2>3. CASE counter[h] = b
    <3>1. count[b] > 0 /\ ttl[b] = NoTTL /\ count[b] \in Nat
      BY <1>0, <2>1, <2>3, CounterFacts DEF OneCreator
    <3>2. PICK g \in Handlers : count[b] <= Sums(recent[b])[waited[g]]
      BY <1>a, <2>1, <3>1 DEF OwnCalls
    <3>3. waited[g] \in 0..Lag
      BY <1>0 DEF TypeOK
    <3>4. Sums(recent[b])[waited[g]] <= Sums(recent[b])[Lag]
      <4>1. PICK m \in Nat : m = Window + Lag - 1
        BY Ages
      <4>2. recent[b] \in [0..m -> Nat]
        BY <1>0, <4>1, CounterFacts
      <4>3. waited[g] \in 0..m /\ Lag \in 0..m /\ waited[g] <= Lag
        BY <3>3, <4>1
      <4> QED
        BY <4>2, <4>3, SumsGrow
    <3>5. count[b] <= Sums(recent[b])[Lag]
      <4>1. waited[g] \in Horizon /\ Lag \in Horizon
        BY <3>3, Ages
      <4>2. Sums(recent[b])[waited[g]] \in Nat /\ Sums(recent[b])[Lag] \in Nat
        BY <1>0, <4>1, CounterFacts
      <4> QED
        BY <3>1, <3>2, <3>4, <4>2
    <3>6. ttl'[b] = Window /\ Window # NoTTL /\ Window - Window + Lag = Lag
      BY <1>0, <1>4, <2>3, <3>1 DEF Expire, TypeOK
    <3> QED
      BY <2>1, <3>5, <3>6 DEF OwnCalls
  <2> QED
    BY <2>2, <2>3
<1>5. ASSUME NEW h \in Handlers, ExpireFails(h)
      PROVE  OwnCalls(b)'
  <2>1. /\ UNCHANGED <<count, ttl, counter, recent>> /\ b \notin stranded /\ counter[h] # b
        /\ \A e \in Handlers \ {h} : pc'[e] = pc[e] /\ waited'[e] = waited[e]
    BY <1>0, <1>5 DEF ExpireFails, Decide, redisVars, TypeOK
  <2> QED
    BY <1>a, <2>1, OwnCallsKept
<1>6. CASE UNCHANGED vars
  BY <1>a, <1>6, OwnCallsKept DEF vars, redisVars, handlerVars
<1> QED
  BY <1>1, <1>2, <1>3, <1>4, <1>5, <1>6 DEF Next

-----------------------------------------------------------------------------
\* What TwoCountersAtMost says of one counter.
Bounded(b) ==
  IF count[b] = 0
  THEN /\ ttl[b] = NoTTL /\ admitted[b][0] = 0
       /\ Sums(admitted[b])[Window - 1] <= Limit
  ELSE \E age \in Minute : OneBefore(b, age)

\* Nor is what has been admitted by one that admits nobody, though the counter
\* be incremented or given its life.
LEMMA BoundedKept ==
  ASSUME TypeOK, NEW b \in Counters, Bounded(b), admitted'[b] = admitted[b],
         \/ count'[b] = count[b]
         \/ count[b] > 0 /\ count'[b] \in Nat /\ count'[b] >= count[b],
         \/ ttl'[b] = ttl[b]
         \/ ttl'[b] = (IF count[b] = 0 THEN NoTTL ELSE Window)
  PROVE  Bounded(b)'
<1>1. count[b] \in Nat /\ ttl[b] \in 0..Window
  BY CounterFacts
<1>2. CASE count[b] = 0
  BY <1>2 DEF Bounded
<1>3. CASE count[b] # 0
  <2>1. PICK age \in Minute : OneBefore(b, age)
    BY <1>3 DEF Bounded
  <2>2. Sums(admitted[b])[age] \in Nat
    BY CounterFacts, Ages
  <2>3. count'[b] # 0 /\ Sums(admitted[b])[age] <= count'[b]
    BY <1>1, <1>3, <2>1, <2>2 DEF OneBefore
  <2>4. ttl'[b] # NoTTL => age >= Window - ttl'[b]
    BY <1>1, <1>3, <2>1 DEF OneBefore
  <2>5. OneBefore(b, age)'
    BY <2>1, <2>3, <2>4 DEF OneBefore
  <2> QED
    BY <2>3, <2>5 DEF Bounded
<1> QED
  BY <1>2, <1>3

\* A counter that is over has lived for a window, so that the calls of this
\* window are all its own.
LEMMA BoundedTick ==
  ASSUME TypeOK, Tick, NEW b \in Counters, Bounded(b)
  PROVE  Bounded(b)'
<1>1. /\ count[b] \in Nat /\ ttl[b] \in 0..Window
      /\ Sums(admitted[b]) \in [0..(Window - 1) -> Nat]
      /\ admitted' = [k \in Counters |-> Older(admitted[k])]
  BY CounterFacts DEF Tick
<1>2. /\ admitted'[b][0] = 0
      /\ Sums(admitted'[b])[Window - 1] <= Sums(admitted[b])[Window - 1]
      /\ \A a \in Minute :
           a < Window - 1 => Sums(admitted'[b])[a + 1] = Sums(admitted[b])[a]
      /\ count'[b] = (IF ttl[b] = 1 THEN 0 ELSE count[b])
      /\ ttl'[b] = (IF ttl[b] = NoTTL THEN NoTTL ELSE ttl[b] - 1)
  BY TickSums
<1>t. Window - 1 \in 0..(Window - 1)
  BY Ages
<1>3. PICK total \in Nat : total = Sums(admitted[b])[Window - 1]
  BY <1>1, <1>t
<1>4. PICK left \in Nat : left = Sums(admitted'[b])[Window - 1]
  <2>1. admitted[b] \in [0..(Window - 1) -> Nat] /\ admitted'[b] = Older(admitted[b])
    BY <1>1, CounterFacts
  <2>2. Older(admitted[b]) \in [0..(Window - 1) -> Nat]
    BY <2>1, Ages, SumsOfOlder
  <2>3. Sums(admitted'[b]) \in [0..(Window - 1) -> Nat]
    BY <2>1, <2>2, Ages, SumsExist
  <2> QED
    BY <2>3, Ages
<1>5. left <= total
  BY <1>2, <1>3, <1>4
<1>6. CASE count[b] = 0
  <2>1. total <= Limit /\ ttl[b] = NoTTL
    BY <1>3, <1>6 DEF Bounded
  <2>2. left <= Limit
    BY <1>5, <2>1
  <2> QED
    BY <1>2, <1>4, <1>6, <2>1, <2>2 DEF Bounded
<1>7. CASE count[b] # 0
  <2>1. PICK age \in Minute : OneBefore(b, age)
    BY <1>7 DEF Bounded
  <2>2. PICK own \in Nat : own = Sums(admitted[b])[age]
    BY <1>1, Ages
  <2>3. /\ own <= count[b] /\ own <= Limit /\ total - own <= Limit
        /\ ttl[b] # NoTTL => age >= Window - ttl[b]
    BY <1>3, <2>1, <2>2 DEF OneBefore
  <2>4. CASE ttl[b] = 1
    <3>1. age = Window - 1
      BY <2>3, <2>4
    <3>2. left <= Limit
      BY <1>3, <1>5, <2>2, <2>3, <3>1
    <3> QED
      BY <1>2, <1>4, <2>4, <3>2 DEF Bounded
  <2>5. CASE ttl[b] # 1 /\ age < Window - 1
    <3>1. Sums(admitted'[b])[age + 1] = own /\ age + 1 \in Minute
      BY <1>2, <2>2, <2>5
    <3>2. left - own <= Limit
      BY <1>5, <2>3
    <3>3. ttl'[b] # NoTTL => age + 1 >= Window - ttl'[b]
      BY <1>1, <1>2, <2>3
    <3>4. OneBefore(b, age + 1)'
      BY <1>2, <1>4, <2>3, <2>5, <3>1, <3>2, <3>3 DEF OneBefore
    <3>5. count'[b] # 0
      BY <1>2, <1>7, <2>5
    <3> QED
      BY <3>1, <3>4, <3>5 DEF Bounded
  <2>6. CASE ttl[b] # 1 /\ ~(age < Window - 1)
    <3>1. age = Window - 1 /\ own = total
      BY <1>3, <2>2, <2>6
    <3>2. left <= count[b] /\ left <= Limit /\ left - left <= Limit
      BY <1>1, <1>5, <2>3, <3>1
    <3>3. ttl'[b] # NoTTL => age >= Window - ttl'[b]
      BY <1>1, <1>2, <2>6, <3>1
    <3>4. OneBefore(b, age)'
      BY <1>2, <1>4, <2>6, <3>1, <3>2, <3>3 DEF OneBefore
    <3>5. count'[b] # 0
      BY <1>2, <1>7, <2>6
    <3> QED
      BY <3>4, <3>5 DEF Bounded
  <2> QED
    BY <2>4, <2>5, <2>6
<1> QED
  BY <1>6, <1>7

\* A call is let through by its count: the first starts a counter, the others
\* are no more than the count.
LEMMA BoundedCounted ==
  ASSUME TypeOK, NEW b \in Counters, Bounded(b), ttl'[b] = ttl[b],
         count'[b] = Smaller(count[b] + 1, CountCap),
         admitted' = Admitted(b, count[b] + 1)
  PROVE  Bounded(b)'
<1>1. count[b] \in Nat /\ count[b] <= CountCap
  BY CounterFacts
<1>2. PICK m \in Nat : m = Window - 1
  BY Ages
<1>3. PICK f \in [0..m -> Nat] : f = admitted[b]
  BY <1>2, CounterFacts
<1>4. PICK z \in Nat : z = f[0]
  OBVIOUS
<1>5. Sums(f) \in [0..m -> Nat] /\ Sums(f)[0] = z /\ Minute = 0..m /\ 0 \in 0..m /\ m \in 0..m
  BY <1>2, <1>4, SumsExist
<1>6. PICK total \in Nat : total = Sums(f)[m]
  BY <1>5
<1>7. CASE ~Admits(count[b] + 1)
  <2>1. count[b] > 0 /\ count'[b] \in Nat /\ count'[b] >= count[b]
    BY <1>1, <1>7 DEF Admits, Smaller
  <2>2. admitted'[b] = admitted[b]
    BY <1>7 DEF Admitted
  <2> QED
    BY <2>1, <2>2, BoundedKept
<1>8. CASE Admits(count[b] + 1)
  <2>1. count'[b] = count[b] + 1 /\ count[b] + 1 <= Limit
    BY <1>1, <1>8 DEF Admits, Smaller
  \* own: the calls of the counter so far, none if it is about to begin.
  <2>2. PICK age \in 0..m, own \in Nat :
          /\ Sums(f)[age] = own /\ own <= count[b] /\ total - own <= Limit
          /\ ttl[b] # NoTTL => age >= Window - ttl[b]
    <3>1. CASE count[b] = 0
      <4>1. z = 0 /\ total <= Limit /\ ttl[b] = NoTTL
        BY <1>2, <1>3, <1>4, <1>6, <3>1 DEF Bounded
      <4>2. Sums(f)[0] = 0 /\ 0 <= count[b] /\ total - 0 <= Limit
        BY <1>1, <1>5, <4>1
      <4> QED
        BY <1>5, <4>1, <4>2
    <3>2. CASE count[b] # 0
      <4>1. PICK a \in 0..m : OneBefore(b, a)
        BY <1>5, <3>2 DEF Bounded
      <4>2. Sums(f)[a] \in Nat
        BY <1>5
      <4> QED
        BY <1>2, <1>3, <1>6, <4>1, <4>2 DEF OneBefore
    <3> QED
      BY <3>1, <3>2
  <2>3. z <= own
    <3>1. Sums(f)[0] <= Sums(f)[age]
      <4>1. 0 <= age
        OBVIOUS
      <4> QED
        BY <1>5, <4>1, SumsGrow
    <3> QED
      BY <1>5, <2>2, <3>1
  <2>4. admitted'[b] = [f EXCEPT ![0] = z + 1]
    <3>1. Smaller(z + 1, AdmittedCap) = z + 1
      BY <2>1, <2>2, <2>3, <1>1 DEF Smaller
    <3>2. admitted'[b] = [f EXCEPT ![0] = Smaller(z + 1, AdmittedCap)]
      BY <1>3, <1>4, <1>8 DEF Admitted, TypeOK
    <3> QED
      BY <3>1, <3>2
  <2>5. PICK g \in [0..m -> Nat] : g = admitted'[b]
    <3>1. z + 1 \in Nat
      OBVIOUS
    <3>2. [f EXCEPT ![0] = z + 1] \in [0..m -> Nat]
      BY <3>1
    <3> QED
      BY <2>4, <3>2
  <2>6. \A k \in 0..m : Sums(g)[k] + z = Sums(f)[k] + (z + 1)
    <3>1. PICK v \in Nat : v = z + 1
      OBVIOUS
    <3>2. \A k \in 0..m : Sums([f EXCEPT ![0] = v])[k] + f[0] = Sums(f)[k] + v
      BY SumsOfMore
    <3> QED
      BY <1>4, <2>4, <2>5, <3>1, <3>2
  <2>7. Sums(g) \in [0..m -> Nat]
    BY SumsExist
  <2>8. \A k \in 0..m : Sums(g)[k] = Sums(f)[k] + 1
    <3> SUFFICES ASSUME NEW k \in 0..m PROVE Sums(g)[k] = Sums(f)[k] + 1
      OBVIOUS
    <3>1. PICK x \in Nat : x = Sums(g)[k]
      BY <2>7
    <3>2. PICK y \in Nat : y = Sums(f)[k]
      BY <1>5
    <3>3. x + z = y + (z + 1)
      BY <2>6, <3>1, <3>2
    <3>4. x = y + 1
      BY <3>3
    <3> QED
      BY <3>1, <3>2, <3>4
  <2>9. Sums(g)[age] = own + 1 /\ Sums(g)[m] = total + 1
    BY <1>5, <1>6, <2>2, <2>8
  <2>10. /\ own + 1 <= count'[b] /\ own + 1 <= Limit
         /\ (total + 1) - (own + 1) <= Limit
    BY <1>1, <2>1, <2>2
  <2>11. OneBefore(b, age)'
    BY <1>2, <2>2, <2>5, <2>9, <2>10 DEF OneBefore
  <2>12. count'[b] # 0
    BY <1>1, <2>1
  <2> QED
    BY <1>5, <2>11, <2>12 DEF Bounded
<1> QED
  BY <1>7, <1>8

\* A call that is counted but not let through by its count.
LEMMA BoundedUnjudged ==
  ASSUME TypeOK, NEW b \in Counters, Bounded(b), ttl'[b] = ttl[b],
         count'[b] = Smaller(count[b] + 1, CountCap), admitted'[b] = admitted[b]
  PROVE  Bounded(b)'
<1>1. /\ count[b] \in 0..CountCap /\ admitted[b] \in [0..(Window - 1) -> Nat]
      /\ Sums(admitted[b]) \in [0..(Window - 1) -> Nat]
  BY CounterFacts
<1>2. CASE count[b] = 0
  <2>1. /\ ttl[b] = NoTTL /\ admitted[b][0] = 0
        /\ Sums(admitted[b])[Window - 1] <= Limit
    BY <1>2 DEF Bounded
  <2>2. Sums(admitted[b])[0] = 0
    BY <1>1, <2>1, Ages, SumsExist
  <2>3. count'[b] = 1 /\ 0 \in Minute
    BY <1>2, AgeZero DEF Smaller
  <2>4. PICK total \in Nat : total = Sums(admitted[b])[Window - 1]
    BY <1>1, Ages
  <2>5. total - 0 <= Limit
    BY <2>1, <2>4
  <2>6. OneBefore(b, 0)'
    BY <2>1, <2>2, <2>3, <2>4, <2>5 DEF OneBefore
  <2> QED
    BY <2>3, <2>6 DEF Bounded
<1>3. CASE count[b] # 0
  <2>1. count[b] > 0 /\ count'[b] \in Nat /\ count'[b] >= count[b]
    BY <1>1, <1>3 DEF Smaller
  <2> QED
    BY <2>1, BoundedKept
<1> QED
  BY <1>2, <1>3

\* The step of TwoCountersAtMost.
LEMMA BoundedStep ==
  ASSUME RateLimitInv, [Next]_vars
  PROVE  TwoCountersAtMost'
<1>0. TypeOK /\ TwoCountersAtMost
  BY DEF RateLimitInv
<1> SUFFICES ASSUME NEW b \in Counters
             PROVE  Bounded(b)'
  BY DEF TwoCountersAtMost, Bounded
<1>a. Bounded(b)
  BY <1>0 DEF TwoCountersAtMost, Bounded
<1>1. CASE Tick
  BY <1>0, <1>1, <1>a, BoundedTick
<1>2. ASSUME NEW h \in Handlers, NEW c \in Calls, Incr(h, c)
      PROVE  Bounded(b)'
  <2>1. PICK k \in Counters : k = CounterOf(c)
    BY CounterOfType
  <2>2. /\ ttl' = ttl /\ count' = [count EXCEPT ![k] = Smaller(count[k] + 1, CountCap)]
        /\ admitted' = Admitted(k, count[k] + 1)
    BY <1>2, <2>1 DEF Incr
  <2>3. CASE b = k
    <3>1. count'[b] = Smaller(count[b] + 1, CountCap)
      BY <1>0, <2>2, <2>3 DEF TypeOK
    <3> QED
      BY <1>0, <1>a, <2>2, <2>3, <3>1, BoundedCounted
  <2>4. CASE b # k
    <3>1. count'[b] = count[b] /\ admitted'[b] = admitted[b]
      BY <1>0, <2>2, <2>4 DEF Admitted, TypeOK
    <3> QED
      BY <1>0, <1>a, <2>2, <3>1, BoundedKept
  <2> QED
    BY <2>3, <2>4
<1>3. ASSUME NEW h \in Handlers, NEW c \in Calls, IncrFails(h, c)
      PROVE  Bounded(b)'
  <2>1. PICK k \in Counters : k = CounterOf(c)
    BY CounterOfType
  <2>2. /\ ttl' = ttl /\ admitted' = admitted
        /\ \/ count' = count
           \/ count' = [count EXCEPT ![k] = Smaller(count[k] + 1, CountCap)]
    BY <1>3, <2>1 DEF IncrFails
  <2>3. CASE count'[b] = count[b]
    BY <1>0, <1>a, <2>2, <2>3, BoundedKept
  <2>4. CASE count'[b] # count[b]
    <3>1. count'[b] = Smaller(count[b] + 1, CountCap)
      BY <1>0, <2>2, <2>4 DEF TypeOK
    <3> QED
      BY <1>0, <1>a, <2>2, <3>1, BoundedUnjudged
  <2> QED
    BY <2>3, <2>4
<1>4. ASSUME NEW h \in Handlers, Expire(h)
      PROVE  Bounded(b)'
  <2>1. /\ count' = count /\ admitted' = admitted
        /\ \/ ttl'[b] = ttl[b]
           \/ ttl'[b] = (IF count[b] = 0 THEN NoTTL ELSE Window)
    BY <1>0, <1>4 DEF Expire, TypeOK
  <2> QED
    BY <1>0, <1>a, <2>1, BoundedKept
<1>5. ASSUME NEW h \in Handlers, ExpireFails(h)
      PROVE  Bounded(b)'
  BY <1>0, <1>5, <1>a, BoundedKept DEF ExpireFails, redisVars
<1>6. CASE UNCHANGED vars
  BY <1>0, <1>6, <1>a, BoundedKept DEF vars, redisVars
<1> QED
  BY <1>1, <1>2, <1>3, <1>4, <1>5, <1>6 DEF Next

-----------------------------------------------------------------------------
\* With no counters everything is in order.
LEMMA RateLimitInit == Init => RateLimitInv
<1> SUFFICES ASSUME Init PROVE RateLimitInv
  OBVIOUS
<1>1. TypeOK /\ OneCreator /\ CountsItsOwn
  BY TypeInit DEF Init, OneCreator, CountsItsOwn
<1>2. ASSUME NEW b \in Counters
      PROVE  Bounded(b)
  <2> DEFINE f == [a \in Minute |-> 0]
             S == {a \in 0..(Window - 1) : Sums(f)[a] = 0}
  <2>1. /\ f \in [0..(Window - 1) -> Nat] /\ \A a \in 0..(Window - 1) : f[a] = 0
    OBVIOUS
  <2>2. admitted[b] = f /\ count[b] = 0 /\ ttl[b] = NoTTL /\ f[0] = 0
    BY AgeZero DEF Init
  <2> HIDE DEF f
  <2>3. /\ Sums(f)[0] = f[0]
        /\ \A a \in 0..(Window - 1) : a # 0 => Sums(f)[a] = Sums(f)[a - 1] + f[a]
    BY <2>1, Ages, SumsExist
  <2>4. 0 \in S
    BY <2>1, <2>3, AgeZero
  <2>5. ASSUME NEW k \in 0..(Window - 1), k \in S, k < Window - 1
        PROVE  k + 1 \in S
    <3>1. k + 1 \in 0..(Window - 1) /\ k + 1 # 0 /\ (k + 1) - 1 = k
      BY <2>5
    <3>2. Sums(f)[k + 1] = Sums(f)[k] + f[k + 1] /\ f[k + 1] = 0 /\ Sums(f)[k] = 0
      BY <2>1, <2>3, <2>5, <3>1
    <3> QED
      BY <3>1, <3>2
  <2>6. \A k \in 0..(Window - 1) : k \in S
    <3> HIDE DEF S
    <3> QED
      BY <2>4, <2>5, Ages, Climb
  <2>7. Sums(f)[Window - 1] = 0
    BY <2>6, Ages
  <2> QED
    BY <2>2, <2>7 DEF Bounded
<1>3. TwoCountersAtMost
  BY <1>2 DEF TwoCountersAtMost, Bounded
<1> QED
  BY <1>1, <1>3 DEF RateLimitInv

\* The inductive invariant of the counters: who gives each its life, what it
\* counts, and how many counters the calls of a window are spread over.
THEOREM RateLimitInvariant == Spec => []RateLimitInv
<1>1. RateLimitInv /\ [Next]_vars => RateLimitInv'
  BY TypeStep, CreatorStep, OwnStep, BoundedStep DEF RateLimitInv
<1> QED
  BY <1>1, RateLimitInit, PTL DEF Spec

\* Nobody is rejected for what they did more than a window and one EXPIRE ago
\* (ratelimit.go:36-45), whatever the limit, the window and the delay.
THEOREM CountersAreRecent == Spec => []CounterIsRecent
<1>1. RateLimitInv => CounterIsRecent
  <2> SUFFICES ASSUME RateLimitInv, NEW b \in Counters \ stranded
               PROVE  count[b] <= Sums(recent[b])[Window + Lag - 1]
    BY DEF CounterIsRecent
  <2>1. TypeOK /\ (b \in Counters /\ b \notin stranded => OwnCalls(b)) /\ b \in Counters
    BY DEF RateLimitInv, CountsItsOwn, OwnCalls
  <2>2. PICK m \in Nat : m = Window + Lag - 1
    BY Ages
  <2>3. recent[b] \in [0..m -> Nat] /\ Sums(recent[b]) \in [0..m -> Nat]
    BY <2>1, <2>2, CounterFacts
  <2>4. PICK n \in Nat : n = count[b]
    <3>1. count[b] \in 0..CountCap
      BY <2>1, CounterFacts
    <3> QED
      BY <3>1
  <2>5. PICK total \in Nat : total = Sums(recent[b])[m]
    BY <2>3
  <2>6. n <= total
    <3>1. CASE n = 0
      BY <3>1
    <3>2. CASE n # 0
      <4>1. PICK a \in 0..m : n <= Sums(recent[b])[a]
        <5>1. \A h \in Handlers : waited[h] \in Horizon
          BY <2>1, Ages DEF TypeOK
        <5>2. ttl[b] # NoTTL => Window - ttl[b] + Lag \in Horizon
          <6>1. ttl[b] # NoTTL => ttl[b] \in 1..Window
            BY <2>1, CounterFacts
          <6> QED
            BY <6>1, Ages
        <5> QED
          BY <2>1, <2>2, <2>4, <3>2, <5>1, <5>2 DEF OwnCalls
      <4>2. Sums(recent[b])[a] <= Sums(recent[b])[m] /\ Sums(recent[b])[a] \in Nat
        BY <2>3, SumsGrow
      <4> QED
        BY <2>5, <4>1, <4>2
    <3> QED
      BY <3>1, <3>2
  <2> QED
    BY <2>2, <2>4, <2>5, <2>6
<1> QED
  BY <1>1, RateLimitInvariant, PTL

\* No window of time lets one caller through more than twice the limit by its
\* count, wherever it begins (ratelimit.go:36-45), whatever the limit.
THEOREM TwiceTheLimitAtMost == Spec => []AtMostTwiceTheLimit
<1>1. RateLimitInv => AtMostTwiceTheLimit
  <2> SUFFICES ASSUME RateLimitInv, NEW b \in Counters
               PROVE  Sums(admitted[b])[Window - 1] <= 2 * Limit
    BY DEF AtMostTwiceTheLimit
  <2>1. Sums(admitted[b]) \in [0..(Window - 1) -> Nat]
    BY CounterFacts DEF RateLimitInv
  <2>2. PICK total \in Nat : total = Sums(admitted[b])[Window - 1]
    BY <2>1, Ages
  <2>3. CASE count[b] = 0
    BY <2>2, <2>3 DEF RateLimitInv, TwoCountersAtMost
  <2>4. CASE count[b] # 0
    <3>1. PICK age \in Minute : OneBefore(b, age)
      BY <2>4 DEF RateLimitInv, TwoCountersAtMost
    <3>2. PICK own \in Nat : own = Sums(admitted[b])[age]
      BY <2>1, Ages
    <3>3. own <= Limit /\ total - own <= Limit
      BY <2>2, <3>1, <3>2 DEF OneBefore
    <3> QED
      BY <2>2, <3>3
  <2> QED
    BY <2>3, <2>4
<1> QED
  BY <1>1, RateLimitInvariant, PTL

=============================================================================
