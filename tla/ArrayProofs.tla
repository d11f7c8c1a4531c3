----------------------------- MODULE ArrayProofs -----------------------------
(***************************************************************************)
(* Theorems about arrays, for every width of the integers, all chunks,     *)
(* programs and arguments: StaysInBufferBut, DeliversItemsBut and          *)
(* UndisturbedIsExactBut are invariants.  An induction over the natural    *)
(* numbers is done through the least element of a set, as a set can be     *)
(* quantified over.                                                        *)
(***************************************************************************)
EXTENDS ArrayObject, FiniteSetTheorems, SequenceTheorems, WellFoundedInduction, TLAPS

\* A set of natural numbers that is not empty has a least element.
LEMMA Least ==
  ASSUME NEW S \in SUBSET Nat, S # {}
  PROVE  \E m \in S : \A n \in S : m <= n
  <1>1. OpToRel(<, Nat) = {ss \in Nat \X Nat : ss[1] < ss[2]}
    BY Zenon DEF OpToRel
  <1>2. PICK m \in S : \A n \in S : <<n, m>> \notin OpToRel(<, Nat)
    BY NatLessThanWellFounded, WFMin, Zenon
  <1>3. \A n \in S : ~(n < m)
    BY <1>1, <1>2
  <1> QED BY <1>3

\* Induction: a set with 0, and with the successor of each of its numbers, has all of them.
LEMMA Induction ==
  ASSUME NEW S, 0 \in S, \A n \in Nat : n \in S => n + 1 \in S
  PROVE  \A n \in Nat : n \in S
  <1> SUFFICES ASSUME NEW k \in Nat, k \notin S PROVE FALSE
    OBVIOUS
  <1>1. PICK m \in Nat \ S : \A n \in Nat \ S : m <= n
    BY Least, Nat \ S # {}, Nat \ S \subseteq Nat
  <1>2. m # 0
    BY <1>1
  <1>3. m - 1 \in Nat /\ m - 1 \in S
    BY <1>1, <1>2
  <1> QED BY <1>1, <1>3

\* f starts with c and goes on with g.
Goes(f, S, c, g) == f \in [Nat -> S] /\ f[0] = c /\ \A n \in Nat : f[n + 1] = g[<<n, f[n]>>]

\* Each round of g stays in S.
Rounds(g, S) == \A i \in Nat : \A v \in S : g[<<i, v>>] \in S

\* What starts with c and goes on with g is a function.
LEMMA Recursion ==
  ASSUME NEW S, NEW c \in S, NEW g, Rounds(g, S)
  PROVE  \E f : Goes(f, S, c, g)
  <1> USE DEF Rounds
  <1> DEFINE From(h, n) == h[0] = c /\ \A i \in 0 .. n - 1 : h[i + 1] = g[<<i, h[i]>>]
             Up(n) == {h \in [0 .. n -> S] : From(h, n)}
             N == {n \in Nat : Up(n) # {}}
  <1>1. \A n \in Nat : n \in N
    <2>1. 0 \in N
      <3>1. [i \in 0 .. 0 |-> c] \in Up(0)
        OBVIOUS
      <3> QED BY <3>1
    <2>2. ASSUME NEW n \in Nat, n \in N PROVE n + 1 \in N
      <3>1. PICK h \in [0 .. n -> S] : From(h, n)
        BY <2>2
      <3> DEFINE k == [i \in 0 .. n + 1 |-> IF i = n + 1 THEN g[<<n, h[n]>>] ELSE h[i]]
      <3>2. k \in [0 .. n + 1 -> S]
        BY <3>1
      <3>3. \A i \in 0 .. n : k[i] = h[i]
        OBVIOUS
      <3>4. k[n + 1] = g[<<n, h[n]>>]
        OBVIOUS
      <3>5. k[0] = c
        BY <3>1, <3>3
      <3>6. ASSUME NEW i \in 0 .. n PROVE k[i + 1] = g[<<i, k[i]>>]
        <4>1. CASE i = n
          BY <4>1, <3>3, <3>4
        <4>2. CASE i # n
          <5>1. i \in 0 .. n - 1 /\ i + 1 \in 0 .. n
            BY <4>2
          <5> QED BY <5>1, <3>1, <3>3
        <4> QED BY <4>1, <4>2
      <3> HIDE DEF k
      <3>7. (n + 1) - 1 = n
        OBVIOUS
      <3>8. From(k, n + 1)
        BY <3>5, <3>6, <3>7
      <3> QED BY <3>2, <3>8
    <2> HIDE DEF N
    <2> QED BY <2>1, <2>2, Induction
  <1>2. ASSUME NEW n \in Nat, NEW h, From(h, n), NEW m \in Nat, NEW k, From(k, m), n <= m
        PROVE  h[n] = k[n]
    <2> DEFINE T == {i \in Nat : i <= n => h[i] = k[i]}
    <2>1. 0 \in T
      BY <1>2
    <2>2. ASSUME NEW i \in Nat, i \in T PROVE i + 1 \in T
      <3> SUFFICES ASSUME i + 1 <= n PROVE h[i + 1] = k[i + 1]
        OBVIOUS
      <3>1. h[i] = k[i] /\ i \in 0 .. n - 1 /\ i \in 0 .. m - 1
        BY <2>2, <1>2
      <3> QED BY <3>1, <1>2
    <2>3. n \in T
      <3> HIDE DEF T
      <3> QED BY <2>1, <2>2, Induction
    <2> QED BY <2>3
  <1> DEFINE H(n) == CHOOSE h : h \in Up(n)
  <1>3. \A n \in Nat : H(n) \in [0 .. n -> S] /\ From(H(n), n)
    <2> SUFFICES ASSUME NEW n \in Nat PROVE H(n) \in [0 .. n -> S] /\ From(H(n), n)
      OBVIOUS
    <2>1. Up(n) # {}
      BY <1>1
    <2>2. H(n) \in Up(n)
      <3> HIDE DEF Up
      <3> QED BY <2>1
    <2> HIDE DEF H
    <2> QED BY <2>2
  <1> DEFINE f == [n \in Nat |-> H(n)[n]]
  <1> HIDE DEF H
  <1>4. f \in [Nat -> S]
    BY <1>3
  <1>5. f[0] = c
    BY <1>3
  <1>6. ASSUME NEW n \in Nat PROVE f[n + 1] = g[<<n, f[n]>>]
    <2>1. f[n] = H(n)[n] /\ f[n + 1] = H(n + 1)[n + 1]
      OBVIOUS
    <2>2. From(H(n), n) /\ From(H(n + 1), n + 1)
      BY <1>3
    <2>3. H(n)[n] = H(n + 1)[n]
      <3> HIDE DEF From
      <3> QED BY <2>2, <1>2
    <2>4. H(n + 1)[n + 1] = g[<<n, H(n + 1)[n]>>]
      BY <2>2
    <2> QED BY <2>1, <2>3, <2>4
  <1> HIDE DEF f
  <1> QED BY <1>4, <1>5, <1>6 DEF Goes

\* What a loop leaves is in every set that has what it begins with and is closed under its rounds.
LEMMA Rounding ==
  ASSUME NEW S, NEW x \in S, NEW step, \A s \in S : step[s] \in S
  PROVE  /\ Iterate(step, x, 0) = x
         /\ \A n \in Nat : /\ Iterate(step, x, n) \in S
                           /\ Iterate(step, x, n + 1) = step[Iterate(step, x, n)]
  <1> DEFINE F(after) == [k \in Nat |-> IF k = 0 THEN x ELSE step[after[k - 1]]]
             after == CHOOSE a : a = F(a)
             g == [p \in Nat \X S |-> step[p[2]]]
  <1>1. PICK f : f \in [Nat -> S] /\ f[0] = x /\ \A n \in Nat : f[n + 1] = g[<<n, f[n]>>]
    <2>1. Rounds(g, S)
      BY DEF Rounds
    <2>2. \E f : Goes(f, S, x, g)
      <3> HIDE DEF g
      <3> QED BY <2>1, Recursion
    <2> QED BY <2>2 DEF Goes
  <1>2. f = F(f)
    <2>1. \A n \in Nat : f[n + 1] = step[f[n]]
      BY <1>1
    <2>2. ASSUME NEW i \in Nat, i # 0 PROVE f[i] = step[f[i - 1]]
      BY <2>1, <2>2, i - 1 \in Nat, (i - 1) + 1 = i
    <2> QED BY <1>1, <2>2
  <1>3. after = F(after)
    <2> HIDE DEF F
    <2> QED BY <1>2
  <1>4. \A n \in Nat : Iterate(step, x, n) = after[n]
    BY DEF Iterate
  <1> HIDE DEF after
  <1>5. after[0] = x /\ \A n \in Nat : after[n + 1] = step[after[n]]
    BY <1>3
  <1>6. \A n \in Nat : after[n] \in S
    <2> DEFINE T == {n \in Nat : after[n] \in S}
    <2>1. 0 \in T /\ \A n \in Nat : n \in T => n + 1 \in T
      BY <1>5
    <2>2. \A n \in Nat : n \in T
      <3> HIDE DEF T
      <3> QED BY <2>1, Induction
    <2> QED BY <2>2
  <1> QED BY <1>4, <1>5, <1>6

\* A loop whose rounds make left smaller has ended when there have been enough of them.
LEMMA RunsOut ==
  ASSUME NEW S, NEW x \in S, NEW step, \A s \in S : step[s] \in S,
         NEW left \in [S -> Nat],
         \A s \in S : left[step[s]] < left[s] \/ left[step[s]] = 0,
         NEW n \in Nat, left[x] <= n
  PROVE  left[Iterate(step, x, n)] = 0
  <1> DEFINE At_(k) == Iterate(step, x, k)
             K == {k \in Nat : left[At_(k)] + k <= left[x] \/ left[At_(k)] = 0}
  <1>1. /\ At_(0) = x
        /\ \A k \in Nat : At_(k) \in S /\ At_(k + 1) = step[At_(k)]
    <2>1. x \in S /\ \A s \in S : step[s] \in S
      OBVIOUS
    <2>2. /\ Iterate(step, x, 0) = x
          /\ \A k \in Nat : /\ Iterate(step, x, k) \in S
                            /\ Iterate(step, x, k + 1) = step[Iterate(step, x, k)]
      BY <2>1, Rounding
    <2> QED BY ONLY <2>2 DEF At_
  <1> HIDE DEF At_
  <1>2. left[x] \in Nat /\ \A k \in Nat : left[At_(k)] \in Nat
    BY <1>1
  <1>3. 0 \in K
    BY <1>1, <1>2
  <1>4. ASSUME NEW k \in Nat, k \in K PROVE k + 1 \in K
    <2>1. left[At_(k + 1)] < left[At_(k)] \/ left[At_(k + 1)] = 0
      BY <1>1
    <2>2. left[At_(k + 1)] \in Nat /\ left[At_(k)] \in Nat
      BY <1>2
    <2> QED BY <1>2, <1>4, <2>1, <2>2
  <1>5. n \in K
    <2> HIDE DEF K
    <2> QED BY <1>3, <1>4, Induction
  <1> QED BY <1>2, <1>5 DEF At_

\* The least and the largest number of a set.
LEMMA MinIs ==
  ASSUME NEW S \in SUBSET Nat, S # {}
  PROVE  Min(S) \in S /\ \A n \in S : Min(S) <= n
  <1>1. \E m \in S : \A n \in S : m <= n
    BY Least
  <1> QED BY <1>1 DEF Min

\* So has a bounded one a largest.
LEMMA MaxIs ==
  ASSUME NEW hi \in Nat, NEW S \in SUBSET (0 .. hi), S # {}
  PROVE  Max(S) \in S /\ \A n \in S : n <= Max(S)
  <1> DEFINE T == {hi - n : n \in S}
  <1>1. T \in SUBSET Nat /\ T # {}
    <2>1. \A n \in S : hi - n \in Nat
      OBVIOUS
    <2>2. T \in SUBSET Nat
      BY <2>1
    <2>3. PICK n \in S : TRUE
      OBVIOUS
    <2>4. hi - n \in T
      OBVIOUS
    <2> QED BY <2>2, <2>4
  <1>2. PICK m \in T : \A n \in T : m <= n
    <2> HIDE DEF T
    <2> QED BY <1>1, Least
  <1>3. PICK k \in S : m = hi - k
    BY <1>2
  <1>4. ASSUME NEW n \in S PROVE k >= n
    <2>1. hi - n \in T
      OBVIOUS
    <2>2. m <= hi - n
      BY <1>2, <2>1
    <2> QED BY <2>2, <1>3
  <1> QED BY <1>4 DEF Max

-----------------------------------------------------------------------------
(* The arithmetic of slices.                                                 *)

\* Division with a remainder.
LEMMA Division ==
  ASSUME NEW n \in Int, NEW d \in Nat \ {0}
  PROVE  n \div d \in Int /\ n % d \in 0 .. d - 1 /\ n = d * (n \div d) + (n % d)
  OBVIOUS

\* There is one way to divide with a remainder.
LEMMA DivUnique ==
  ASSUME NEW n \in Int, NEW d \in Nat \ {0}, NEW q \in Int, NEW r \in 0 .. d - 1, n = d * q + r
  PROVE  n % d = r /\ n \div d = q
  <1> DEFINE e == n \div d
             t == n % d
  <1>1. e \in Int /\ t \in 0 .. d - 1 /\ n = d * e + t
    BY Division
  <1> HIDE DEF e, t
  <1>2. d * (e - q) = r - t
    BY <1>1
  <1>3. ~(e - q >= 1) /\ ~(e - q <= -1)
    <2>1. ASSUME e - q >= 1 PROVE FALSE
      <3>1. d * (e - q) >= d
        BY <1>1, <2>1
      <3> QED BY <1>1, <1>2, <3>1
    <2>2. ASSUME e - q <= -1 PROVE FALSE
      <3>1. d * (e - q) <= -d
        BY <1>1, <2>2
      <3> QED BY <1>1, <1>2, <3>1
    <2> QED BY <2>1, <2>2
  <1>4. e = q
    BY <1>1, <1>3
  <1>5. t = r
    BY <1>1, <1>4
  <1> QED BY <1>4, <1>5 DEF e, t

\* The limits of int64.
LEMMA Limits == INT64_MAX \in Nat \ {0} /\ INT64_MIN = -INT64_MAX - 1
  BY SlicesAssumption DEF INT64_MIN

\* Wrapping leaves an int64 as it is, and takes 2^64 off what is little above.
LEMMA Wraps ==
  ASSUME NEW n, n \in Int
  PROVE  /\ Wrapped(n) \in Int64
         /\ n \in Int64 => Wrapped(n) = n
         /\ n > INT64_MAX /\ n <= 2 * INT64_MAX + 1 => Wrapped(n) = n - 2 * INT64_MAX - 2
  <1> DEFINE w == 2 * (INT64_MAX + 1)
             m == n - INT64_MIN
  <1>1. m \in Int /\ w \in Nat \ {0} /\ w = 2 * INT64_MAX + 2 /\ m = n + INT64_MAX + 1
    BY Limits
  <1>2. Wrapped(n) = INT64_MIN + (m % w)
    BY DEF Wrapped
  <1> HIDE DEF m, w
  <1>3. m % w \in 0 .. w - 1
    BY <1>1, Division
  <1>4. Wrapped(n) \in Int64
    BY <1>1, <1>2, <1>3, Limits DEF Int64
  <1>5. ASSUME n \in Int64 PROVE Wrapped(n) = n
    <2>1. m \in 0 .. w - 1 /\ m = w * 0 + m
      BY <1>1, <1>5, Limits DEF Int64
    <2>2. m % w = m
      BY <2>1, <1>1, DivUnique
    <2> QED BY <2>2, <1>1, <1>2, Limits
  <1>6. ASSUME n > INT64_MAX, n <= 2 * INT64_MAX + 1 PROVE Wrapped(n) = n - 2 * INT64_MAX - 2
    <2>1. m - w \in 0 .. w - 1 /\ m = w * 1 + (m - w)
      BY <1>1, <1>6, Limits
    <2>2. m % w = m - w
      BY <2>1, <1>1, DivUnique
    <2> QED BY <2>2, <1>1, <1>2, Limits
  <1> QED BY <1>4, <1>5, <1>6

\* n steps of w from 0 go as far as L, and none before the last does.
Counts(L, w, n) == n \in Nat /\ n * w >= L /\ \A i \in 0 .. n - 1 : i * w \in 0 .. L - 1

\* How many steps of w there are before L.
LEMMA StepsBefore ==
  ASSUME NEW L, L \in Nat \ {0}, NEW w, w \in Nat \ {0}, NEW n, n = (L + w - 1) \div w
  PROVE  /\ n \in Nat \ {0} /\ (w = 1 => n = L) /\ n * w >= L
         /\ \A i \in 0 .. n - 1 : i * w \in 0 .. L - 1
  <1> DEFINE r == (L + w - 1) % w
  <1>1. L + w - 1 \in Int
    OBVIOUS
  <1>2. n \in Int /\ r \in 0 .. w - 1 /\ L + w - 1 = w * n + r
    BY <1>1, Division
  <1> HIDE DEF r
  <1>3. n >= 1
    <2> SUFFICES ASSUME n <= 0 PROVE FALSE
      BY <1>2
    <2>1. w * n <= 0
      BY <1>2
    <2> QED BY <2>1, <1>2
  <1>4. ASSUME NEW i \in 0 .. n - 1 PROVE i * w \in 0 .. L - 1
    <2>1. i \in Nat /\ n - 1 - i \in Nat
      BY <1>2
    <2>2. (n - 1 - i) * w >= 0 /\ i * w >= 0
      BY <2>1
    <2>3. (n - 1 - i) * w = w * n - w - i * w
      BY <2>1, <1>2
    <2>4. i * w \in Int /\ w * n \in Int
      BY <2>1, <1>2
    <2> QED BY <2>2, <2>3, <2>4, <1>2
  <1>5. w = 1 => n = L
    BY <1>2
  <1>6. n * w >= L
    <2>1. n * w = w * n /\ w * n \in Int
      BY <1>2
    <2> QED BY <2>1, <1>2
  <1> QED BY <1>2, <1>3, <1>4, <1>5, <1>6

\* Indices as slice_indices leaves them, for a list of len.
Normalised(x, len) ==
  /\ x.start \in Int /\ x.stop \in Int /\ x.step \in Int64 \ {0}
  /\ x.step > 0 => x.start \in 0 .. len /\ x.stop \in 0 .. len
  /\ x.step < 0 => x.start \in -1 .. len - 1 /\ x.stop \in -1 .. len - 1

\* A bound of a slice: its default, or what is given, held between the limits.
Bounded(v, default, low, high, len) ==
  IF v = ARGON_NULL THEN default ELSE Clamp(IF v < 0 THEN v + len ELSE v, low, high)

\* Such a bound lies between its limits.
LEMMA BoundedIs ==
  ASSUME NEW v, v \in Int64 \cup {ARGON_NULL}, NEW low, low \in Int, NEW high, high \in Int,
         low <= high, NEW default, default \in low .. high, NEW len, len \in Nat
  PROVE  Bounded(v, default, low, high, len) \in low .. high
  <1>1. CASE v = ARGON_NULL
    BY <1>1 DEF Bounded
  <1>2. CASE v # ARGON_NULL
    <2>1. v \in Int
      BY <1>2, Limits DEF Int64
    <2> QED BY <1>2, <2>1 DEF Bounded, Clamp
  <1> QED BY <1>1, <1>2

\* The normalised indices of a slice lie in the list, or just beside it.
LEMMA IndicesAre ==
  ASSUME NEW s, IsSlice(s), NEW len, len \in 0 .. INT64_MAX
  PROVE  /\ Normalised(slice_indices(s, len), len)
         /\ slice_indices(s, len).step = IF s.step = ARGON_NULL THEN 1 ELSE s.step
  <1> DEFINE step == IF s.step = ARGON_NULL THEN 1 ELSE s.step
             x == slice_indices(s, len)
  <1>1. step \in Int64 \ {0} /\ step \in Int
    BY Limits DEF IsSlice, Int64
  <1>2. len \in Nat /\ s.start \in Int64 \cup {ARGON_NULL} /\ s.stop \in Int64 \cup {ARGON_NULL}
    BY Limits DEF IsSlice
  <1>3. CASE step > 0
    <2>1. x = [start |-> Bounded(s.start, 0, 0, len, len),
               stop |-> Bounded(s.stop, len, 0, len, len), step |-> step]
      BY <1>3 DEF slice_indices, Bounded
    <2> HIDE DEF step
    <2>2. 0 \in 0 .. len /\ len \in 0 .. len /\ 0 <= len /\ 0 \in Int /\ len \in Int
      BY <1>2
    <2>3. Bounded(s.start, 0, 0, len, len) \in 0 .. len
      BY <1>2, <2>2, BoundedIs
    <2>4. Bounded(s.stop, len, 0, len, len) \in 0 .. len
      BY <1>2, <2>2, BoundedIs
    <2>5. x.start \in 0 .. len /\ x.stop \in 0 .. len /\ x.step = step
      BY <2>1, <2>3, <2>4
    <2> QED BY <2>5, <1>1, <1>3 DEF Normalised, step
  <1>4. CASE ~(step > 0)
    <2>1. x = [start |-> Bounded(s.start, len - 1, -1, len - 1, len),
               stop |-> Bounded(s.stop, -1, -1, len - 1, len), step |-> step]
      BY <1>4 DEF slice_indices, Bounded
    <2> HIDE DEF step
    <2>2. /\ -1 \in -1 .. len - 1 /\ len - 1 \in -1 .. len - 1 /\ -1 <= len - 1
          /\ -1 \in Int /\ len - 1 \in Int
      BY <1>2
    <2>3. Bounded(s.start, len - 1, -1, len - 1, len) \in -1 .. len - 1
      BY <1>2, <2>2, BoundedIs
    <2>4. Bounded(s.stop, -1, -1, len - 1, len) \in -1 .. len - 1
      BY <1>2, <2>2, BoundedIs
    <2>5. x.start \in -1 .. len - 1 /\ x.stop \in -1 .. len - 1 /\ x.step = step
      BY <2>1, <2>3, <2>4
    <2> QED BY <2>5, <1>1, <1>4 DEF Normalised, step
  <1> QED BY <1>3, <1>4

\* A division of C whose arguments have no different signs, and one whose arguments have.
LEMMA Quotients ==
  ASSUME NEW a, a \in Int, NEW b, b \in Int, b # 0
  PROVE  /\ a >= 0 /\ b > 0 => Quotient(a, b) = a \div b
         /\ a < 0 /\ b > 0 => Quotient(a, b) = -((-a) \div b)
         /\ a < 0 /\ b < 0 => Quotient(a, b) = (-a) \div (-b)
  BY DEF Quotient

\* A quotient of natural numbers.
LEMMA QuotientNat ==
  ASSUME NEW a, a \in Nat, NEW b, b \in Nat \ {0}
  PROVE  a \div b \in Nat /\ (a < b => a \div b = 0) /\ (a >= b /\ a < 2 * b => a \div b = 1)
  <1>1. a \div b \in Int /\ a % b \in 0 .. b - 1 /\ a = b * (a \div b) + (a % b)
    BY Division
  <1>2. a \div b \in Nat
    <2> SUFFICES ASSUME a \div b <= -1 PROVE FALSE
      BY <1>1
    <2>1. b * (a \div b) <= -b
      BY <1>1
    <2> QED BY <2>1, <1>1
  <1>3. a < b => a \div b = 0
    <2> SUFFICES ASSUME a < b PROVE a \div b = 0
      OBVIOUS
    <2>1. a \in 0 .. b - 1 /\ a = b * 0 + a
      OBVIOUS
    <2> QED BY <2>1, DivUnique
  <1>4. a >= b /\ a < 2 * b => a \div b = 1
    <2> SUFFICES ASSUME a >= b, a < 2 * b PROVE a \div b = 1
      OBVIOUS
    <2>1. a - b \in 0 .. b - 1 /\ a = b * 1 + (a - b)
      OBVIOUS
    <2> QED BY <2>1, DivUnique
  <1> QED BY <1>2, <1>3, <1>4

\* How many positions are named over a distance L: as many as are before its end, or, when the
\* arithmetic leaves 64 bits, none or a number below 0.
LEMMA Distance ==
  ASSUME NEW L, L \in Nat \ {0}, NEW w, w \in Nat \ {0}, L <= INT64_MAX, w <= INT64_MAX,
         NEW n, n = Quotient(Wrapped(L + w - 1), w)
  PROVE  /\ n \in Int /\ (n < 0 => w > INT64_MAX - L) /\ (w = 1 => n = L)
         /\ \A i \in 0 .. n - 1 : i * w \in 0 .. L - 1
         /\ w <= INT64_MAX - L \/ w = 1 => Counts(L, w, n)
  <1> DEFINE a == L + w - 1
  <1>1. a \in Nat /\ a \in Int /\ a <= 2 * INT64_MAX + 1 /\ n = Quotient(Wrapped(a), w)
    BY Limits
  <1>2. CASE a <= INT64_MAX
    <2>1. Wrapped(a) = a
      <3>1. a \in Int64
        BY <1>1, <1>2, Limits DEF Int64
      <3> HIDE DEF a
      <3> QED BY <3>1, <1>1, Wraps
    <2>2. n = a \div w
      <3> HIDE DEF a
      <3>1. w \in Int /\ w # 0 /\ w > 0 /\ a >= 0 /\ a \in Int
        BY <1>1
      <3>2. Quotient(a, w) = a \div w
        BY ONLY <3>1, Quotients
      <3> QED BY <2>1, <3>2, <1>1
    <2>3. /\ n \in Nat \ {0} /\ (w = 1 => n = L) /\ n * w >= L
          /\ \A i \in 0 .. n - 1 : i * w \in 0 .. L - 1
      BY <2>2, StepsBefore
    <2>4. Counts(L, w, n)
      BY <2>3 DEF Counts
    <2> QED BY <2>3, <2>4
  <1>3. CASE a > INT64_MAX
    <2> DEFINE b == a - 2 * INT64_MAX - 2
    <2>1. Wrapped(a) = b
      <3> HIDE DEF a
      <3> QED BY <1>1, <1>3, Wraps
    <2>2. b < 0 /\ b \in Int /\ -b \in Nat
      BY <1>1, Limits
    <2>3. n = -((-b) \div w)
      <3> HIDE DEF b
      <3> QED BY <2>1, <2>2, Quotients
    <2>4. (-b) \div w \in Nat
      <3> HIDE DEF b
      <3> QED BY <2>2, QuotientNat
    <2>5. n \in Int /\ n <= 0
      <3> HIDE DEF b
      <3> QED BY <2>3, <2>4
    <2>6. w > INT64_MAX - L /\ w # 1
      BY <1>3, Limits
    <2>7. ~(w <= INT64_MAX - L)
      BY <2>6, Limits
    <2>8. \A i \in 0 .. n - 1 : i * w \in 0 .. L - 1
      BY <2>5
    <2> QED BY <2>5, <2>6, <2>7, <2>8
  <1> QED BY <1>1, <1>2, <1>3, Limits

\* What a slice names is in the list, and its number is below 0 only for a step near the limits.
Measured(x, len) ==
  LET n == slice_len(x)
  IN /\ n \in Int
     /\ \A i \in 0 .. n - 1 : src_index(x, i) \in 0 .. len - 1
     /\ n < 0 => x.step > INT64_MAX - len \/ x.step < len - INT64_MAX
     /\ x.step = 1 => n \in 0 .. len /\ x.start \in 0 .. len /\ x.start + n <= len
     /\ x.step = -1 /\ n # 0 => n \in 1 .. len /\ x.stop + 1 \in 0 .. len /\ x.stop + 1 + n <= len

\* How many positions a slice names is never more than there are, but for a step so large that
\* the sum wraps; and all of them are in the list.
LEMMA SliceLen ==
  ASSUME NEW len, len \in 0 .. INT64_MAX, NEW x, Normalised(x, len)
  PROVE  Measured(x, len)
  <1> DEFINE n == slice_len(x)
  <1>1. /\ x.start \in Int /\ x.stop \in Int /\ x.step \in Int /\ x.step # 0
        /\ x.step <= INT64_MAX /\ x.step >= -INT64_MAX - 1 /\ len \in Nat /\ len <= INT64_MAX
        /\ INT64_MAX \in Nat \ {0}
    BY Limits DEF Normalised, Int64
  <1>2. x.step > 0 => x.start \in 0 .. len /\ x.stop \in 0 .. len
    BY Zenon DEF Normalised
  <1>3. x.step < 0 => x.start \in -1 .. len - 1 /\ x.stop \in -1 .. len - 1
    BY Zenon DEF Normalised
  <1>4. CASE x.step > 0 /\ x.stop > x.start
    <2> DEFINE L == x.stop - x.start
               w == x.step
    <2>1. L \in Nat \ {0} /\ w \in Nat \ {0} /\ w <= INT64_MAX /\ L <= len /\ L <= INT64_MAX
      BY <1>1, <1>2, <1>4
    <2>2. n = Quotient(Wrapped(L + w - 1), w)
      BY <1>4 DEF slice_len
    <2> HIDE DEF L, w, n
    <2>3. /\ n \in Int /\ (n < 0 => w > INT64_MAX - L) /\ (w = 1 => n = L)
          /\ \A i \in 0 .. n - 1 : i * w \in 0 .. L - 1
      BY <2>1, <2>2, Distance
    <2>4. ASSUME NEW i \in 0 .. n - 1 PROVE src_index(x, i) \in 0 .. len - 1
      <3>1. i * x.step \in 0 .. L - 1
        BY <2>3 DEF w
      <3> QED BY <3>1, <1>1, <1>2, <1>4 DEF src_index, L
    <2>5. x.step = 1 => n \in 0 .. len /\ x.start \in 0 .. len /\ x.start + n <= len
      <3>1. x.step = 1 => n = x.stop - x.start
        BY <2>3 DEF L, w
      <3> QED BY ONLY <3>1, <1>1, <1>2, <1>4
    <2>6. n < 0 => x.step > INT64_MAX - len
      BY <2>3, <2>1, <1>1 DEF w
    <2> QED BY <2>3, <2>4, <2>5, <2>6, <1>4 DEF Measured, n
  <1>5. CASE x.step < 0 /\ x.stop < x.start /\ x.step # INT64_MIN
    <2> DEFINE L == x.start - x.stop
               w == -x.step
    <2>1. /\ L \in Nat \ {0} /\ w \in Nat \ {0} /\ L <= len /\ L <= INT64_MAX /\ w <= INT64_MAX
          /\ w \in Int
      BY <1>1, <1>3, <1>5, Limits
    <2>2. w \in Int64
      <3> HIDE DEF w
      <3> QED BY <2>1, Limits DEF Int64
    <2>3. x.start - x.stop - x.step - 1 = L + w - 1
      BY <1>1
    <2>4. n = Quotient(Wrapped(L + w - 1), Wrapped(w))
      BY <1>5, <1>1, <2>3 DEF slice_len
    <2> HIDE DEF L, w, n
    <2>5. Wrapped(w) = w
      BY <2>1, <2>2, Wraps
    <2>6. n = Quotient(Wrapped(L + w - 1), w)
      BY <2>4, <2>5
    <2>7. /\ n \in Int /\ (n < 0 => w > INT64_MAX - L) /\ (w = 1 => n = L)
          /\ \A i \in 0 .. n - 1 : i * w \in 0 .. L - 1
      BY <2>1, <2>6, Distance
    <2>8. ASSUME NEW i \in 0 .. n - 1 PROVE src_index(x, i) \in 0 .. len - 1
      <3>1. i * w \in 0 .. L - 1 /\ i \in Int
        BY <2>7
      <3>2. i * x.step = -(i * w)
        BY <3>1, <1>1 DEF w
      <3> QED BY <3>1, <3>2, <1>1, <1>3, <1>5 DEF src_index, L
    <2>9. x.step = -1 => n \in 1 .. len /\ x.stop + 1 \in 0 .. len /\ x.stop + 1 + n <= len
      <3>0. x.step = -1 => w = 1
        <4>1. x.step \in Int /\ w = 0 - x.step
          BY <1>1 DEF w
        <4> QED BY ONLY <4>1
      <3>1. x.step = -1 => n = x.start - x.stop
        BY ONLY <3>0, <2>7 DEF L
      <3>2. L = x.start - x.stop
        BY DEF L
      <3> QED BY ONLY <3>1, <3>2, <2>1, <1>1, <1>3, <1>5
    <2>10. n < 0 => x.step < len - INT64_MAX
      BY <2>7, <2>1, <1>1 DEF w
    <2> QED BY <2>7, <2>8, <2>9, <2>10, <1>5 DEF Measured, n
  <1>6. CASE x.step < 0 /\ x.stop < x.start /\ x.step = INT64_MIN
    <2> DEFINE a == x.start - x.stop - x.step - 1
               b == a - 2 * INT64_MAX - 2
    <2>1. a \in Int /\ a > INT64_MAX /\ a <= 2 * INT64_MAX + 1
      BY <1>1, <1>3, <1>6, Limits
    <2>2. Wrapped(a) = b
      <3> HIDE DEF a
      <3> QED BY <2>1, Wraps
    <2>3. -x.step = INT64_MAX + 1 /\ Wrapped(-x.step) = INT64_MIN
      <3>1. -x.step = INT64_MAX + 1
        BY <1>6, Limits
      <3>2. INT64_MAX + 1 > INT64_MAX /\ INT64_MAX + 1 <= 2 * INT64_MAX + 1 /\ INT64_MAX + 1 \in Int
        BY <1>1
      <3>3. Wrapped(INT64_MAX + 1) = (INT64_MAX + 1) - 2 * INT64_MAX - 2
        BY <3>2, Wraps
      <3> QED BY <3>1, <3>3, Limits
    <2>4. n = Quotient(b, INT64_MIN)
      BY <1>6, <1>1, <2>2, <2>3 DEF slice_len
    <2>5. b \in Int /\ b < 0 /\ -b \in Nat /\ -b < 2 * (INT64_MAX + 1)
      BY <2>1, <1>1
    <2>6. -b >= INT64_MAX + 1 => x.start - x.stop = 1
      BY <1>1, <1>6, Limits
    <2> HIDE DEF a, b, n
    <2>7. INT64_MIN \in Int /\ INT64_MIN # 0 /\ INT64_MIN < 0 /\ -INT64_MIN = INT64_MAX + 1
      BY Limits
    <2>8. Quotient(b, INT64_MIN) = (-b) \div (INT64_MAX + 1)
      BY <2>5, <2>7, Quotients
    <2>9. n = 0 \/ (n = 1 /\ -b >= INT64_MAX + 1)
      <3> DEFINE c == -b
                 W == INT64_MAX + 1
      <3>1. c \in Nat /\ W \in Nat \ {0} /\ c < 2 * W
        BY <2>5, <1>1
      <3>2. n = c \div W
        BY <2>4, <2>8
      <3> HIDE DEF c, W
      <3>3. (c < W => n = 0) /\ (c >= W => n = 1)
        BY <3>1, <3>2, QuotientNat
      <3> QED BY <3>1, <3>3 DEF c, W
    <2>10. ASSUME NEW i \in 0 .. n - 1 PROVE src_index(x, i) \in 0 .. len - 1
      <3>1. i = 0 /\ i * x.step = 0
        BY <2>9, <1>1
      <3> QED BY <3>1, <1>1, <1>3, <1>6 DEF src_index
    <2>11. n \in Int /\ ~(n < 0) /\ x.step # 1 /\ x.step # -1
      BY <2>9, <1>1, <1>6, Limits
    <2> QED BY <2>10, <2>11 DEF Measured, n
  <1>7. CASE ~(x.step > 0 /\ x.stop > x.start) /\ ~(x.step < 0 /\ x.stop < x.start)
    <2>1. n = 0
      BY <1>7 DEF slice_len
    <2>2. x.step = 1 => x.start \in 0 .. len /\ x.start + 0 <= len
      BY <1>1, <1>2
    <2> HIDE DEF n
    <2>3. 0 \in 0 .. len /\ \A i \in 0 .. n - 1 : FALSE
      BY <2>1, <1>1
    <2> QED BY <2>1, <2>2, <2>3 DEF Measured, n
  <1> QED BY <1>4, <1>5, <1>6, <1>7

\* A range that has been advanced is a range.
LEMMA AfterIs ==
  ASSUME NEW r, r \in RangeObjects
  PROVE  /\ After(r, 0) = r
         /\ \A n \in Nat : After(r, n) \in RangeObjects /\ After(r, n + 1) = Advanced(After(r, n))
  <1> DEFINE step == [s \in RangeObjects |-> Advanced(s)]
  <1>1. ASSUME NEW s \in RangeObjects PROVE step[s] \in RangeObjects /\ step[s] = Advanced(s)
    <2>1. s.current + s.step \in Int
      BY DEF RangeObjects
    <2>2. Wrapped(s.current + s.step) \in Int
      <3>1. Wrapped(s.current + s.step) \in Int64
        BY <2>1, Wraps
      <3> QED BY <3>1, Limits DEF Int64
    <2>3. [s EXCEPT !.current = Wrapped(s.current + s.step)] \in RangeObjects
      BY <2>2 DEF RangeObjects
    <2> QED BY <2>3 DEF Advanced
  <1> HIDE DEF step
  <1>2. \A s \in RangeObjects : step[s] \in RangeObjects
    BY <1>1
  <1>3. /\ Iterate(step, r, 0) = r
        /\ \A n \in Nat : /\ Iterate(step, r, n) \in RangeObjects
                          /\ Iterate(step, r, n + 1) = step[Iterate(step, r, n)]
    BY <1>2, Rounding
  <1>4. \A n : After(r, n) = Iterate(step, r, n)
    BY DEF After, step
  <1> QED BY <1>1, <1>3, <1>4

\* A range yields a natural number of numbers, if it ends.
LEMMA EverythingIs ==
  ASSUME NEW r, r \in RangeObjects, ~Endless(r)
  PROVE  Everything(r) \in ItemLists
  <1> DEFINE ends == {n \in 0 .. INT64_MAX : Exhausted(After(r, n))}
  <1>1. Yielded(r) = IF ends = {} THEN INT64_MAX + 1 ELSE Min(ends)
    BY DEF Yielded
  <1>2. ends # {} => Min(ends) \in ends
    <2>1. ends \in SUBSET Nat
      OBVIOUS
    <2> HIDE DEF ends
    <2> QED BY <2>1, MinIs
  <1>3. Yielded(r) \in Nat /\ Yielded(r) <= INT64_MAX
    BY <1>1, <1>2, Limits DEF Endless
  <1>4. \A i \in 1 .. Yielded(r) : After(r, i - 1).current \in Stored
    <2> SUFFICES ASSUME NEW i \in 1 .. Yielded(r) PROVE After(r, i - 1).current \in Int
      BY DEF Stored
    <2>1. After(r, i - 1) \in RangeObjects
      BY <1>3, AfterIs, i - 1 \in Nat
    <2> QED BY <2>1 DEF RangeObjects
  <1> DEFINE k == Yielded(r)
             f == [i \in 1 .. k |-> After(r, i - 1).current]
  <1>5. Everything(r) = f
    BY DEF Everything
  <1>6. f \in Seq(Stored) /\ Len(f) = k
    <2> HIDE DEF Stored, k
    <2>1. k \in Nat /\ \A i \in 1 .. k : After(r, i - 1).current \in Stored
      BY <1>3, <1>4 DEF k
    <2>2. f \in [1 .. k -> Stored]
      BY <2>1
    <2> QED BY <2>1, <2>2
  <1> QED BY <1>3, <1>5, <1>6 DEF ItemLists

\* The numbers of a range up to its end, as long as its arithmetic stays in 64 bits.
LEMMA AfterUpTo ==
  ASSUME NEW r, IsRange(r), NEW m, m \in Nat,
         \A k \in 0 .. m : r.current + k * r.step \in Int64
  PROVE  /\ After(r, m).current = r.current + m * r.step
         /\ After(r, m).stop = r.stop /\ After(r, m).step = r.step
  <1> DEFINE At_(k) == [r EXCEPT !.current = r.current + k * r.step]
             T == {k \in Nat : k <= m => After(r, k) = At_(k)}
  <1>1. r \in RangeObjects /\ r.current \in Int /\ r.step \in Int /\ r.stop \in Int
    BY DEF IsRange, RangeObjects
  <1>2. After(r, 0) = r /\ \A n \in Nat : After(r, n + 1) = Advanced(After(r, n))
    BY <1>1, AfterIs
  <1>3. 0 \in T
    <2>1. r.current + 0 * r.step = r.current
      BY <1>1
    <2>2. At_(0) = r
      BY <1>1, <2>1 DEF RangeObjects
    <2> QED BY <1>2, <2>2
  <1>4. ASSUME NEW k \in Nat, k \in T PROVE k + 1 \in T
    <2> SUFFICES ASSUME k + 1 <= m PROVE After(r, k + 1) = At_(k + 1)
      OBVIOUS
    <2>1. After(r, k) = At_(k)
      BY <1>4
    <2>2. At_(k).current = r.current + k * r.step /\ At_(k).step = r.step
      BY <1>1 DEF RangeObjects
    <2>3. (r.current + k * r.step) + r.step = r.current + (k + 1) * r.step
      BY <1>1
    <2>4. Wrapped(r.current + (k + 1) * r.step) = r.current + (k + 1) * r.step
      <3>1. k + 1 \in 0 .. m
        OBVIOUS
      <3>2. r.current + (k + 1) * r.step \in Int64 /\ r.current + (k + 1) * r.step \in Int
        BY <1>1, <3>1
      <3> QED BY <3>2, Wraps
    <2>5. Advanced(At_(k)) = [At_(k) EXCEPT !.current = r.current + (k + 1) * r.step]
      BY <2>2, <2>3, <2>4 DEF Advanced
    <2>6. [At_(k) EXCEPT !.current = r.current + (k + 1) * r.step] = At_(k + 1)
      BY <1>1 DEF RangeObjects
    <2> HIDE DEF At_
    <2> QED BY <1>2, <2>1, <2>5, <2>6
  <1>5. \A k \in Nat : k \in T
    <2> HIDE DEF T
    <2> QED BY <1>3, <1>4, Induction
  <1>6. After(r, m) = At_(m)
    <2>1. m \in T
      BY <1>5
    <2> QED BY <2>1
  <1> QED BY <1>1, <1>6 DEF RangeObjects

\* How many steps of w lead past D.
LEMMA StepsPast ==
  ASSUME NEW D, D \in Nat, NEW w, w \in Nat \ {0}, NEW M, M \in Nat, D < M * w
  PROVE  \E m \in 1 .. M : m * w > D /\ \A k \in 0 .. m : k * w \in 0 .. D + w
  <1> DEFINE q == D \div w
             t == D % w
             m == q + 1
  <1>1. q \in Int /\ t \in 0 .. w - 1 /\ D = w * q + t
    BY Division
  <1>2. q \in Nat
    BY QuotientNat
  <1> HIDE DEF q, t
  <1>3. q < M
    <2> SUFFICES ASSUME q >= M PROVE FALSE
      BY <1>2
    <2>1. (q - M) * w >= 0
      BY <1>2
    <2>2. (q - M) * w = w * q - M * w
      BY <1>2
    <2>3. w * q \in Int /\ M * w \in Int
      BY <1>2
    <2> QED BY <2>1, <2>2, <2>3, <1>1
  <1>4. m \in 1 .. M
    BY <1>2, <1>3
  <1>5. m * w = w * q + w /\ w * q \in Int
    BY <1>2
  <1>6. ASSUME NEW k \in 0 .. m PROVE k * w \in 0 .. D + w
    <2>1. k \in Nat /\ m - k \in Nat
      BY <1>2
    <2>2. (m - k) * w >= 0 /\ k * w >= 0 /\ k * w \in Int
      BY <2>1
    <2>3. (m - k) * w = m * w - k * w
      BY <2>1, <1>2
    <2> HIDE DEF m
    <2> QED BY <2>2, <2>3, <1>5, <1>1
  <1>7. m * w > D
    BY <1>1, <1>5
  <1> HIDE DEF m
  <1> QED BY <1>4, <1>6, <1>7

\* A range of less than 2^63 - 1 numbers whose end is a step below the limits ends.
LEMMA RangeEnds ==
  ASSUME NEW r, IsRange(r), r.stop + r.step \in Int64,
         r.step > 0 => r.stop - r.current < INT64_MAX * r.step,
         r.step < 0 => r.stop - r.current > INT64_MAX * r.step
  PROVE  ~Endless(r)
  <1>1. /\ r \in RangeObjects /\ r.current \in Int /\ r.step \in Int /\ r.stop \in Int /\ r.step # 0
        /\ r.current \in Int64
    BY DEF IsRange, RangeObjects
  <1>2. ASSUME NEW m, m \in 0 .. INT64_MAX, Exhausted(After(r, m)) PROVE ~Endless(r)
    <2> DEFINE ends == {n \in 0 .. INT64_MAX : Exhausted(After(r, n))}
    <2>1. Yielded(r) = IF ends = {} THEN INT64_MAX + 1 ELSE Min(ends)
      BY DEF Yielded
    <2>2. ends \in SUBSET Nat /\ ends # {}
      BY <1>2
    <2>3. Min(ends) \in ends
      <3> HIDE DEF ends
      <3> QED BY <2>2, MinIs
    <2> QED BY <2>1, <2>2, <2>3, Limits DEF Endless
  <1>3. CASE (r.step > 0 /\ r.current > r.stop) \/ (r.step < 0 /\ r.current < r.stop)
    <2>1. After(r, 0) = r
      BY <1>1, AfterIs
    <2>2. Exhausted(After(r, 0))
      BY <2>1, <1>3 DEF Exhausted
    <2> QED BY <2>2, <1>2, Limits, 0 \in 0 .. INT64_MAX
  <1>4. CASE r.step > 0 /\ ~(r.current > r.stop)
    <2> DEFINE D == r.stop - r.current
               w == r.step
    <2>1. D \in Nat /\ w \in Nat \ {0} /\ D < INT64_MAX * w /\ INT64_MAX \in Nat
      BY <1>1, <1>4, Limits
    <2>2. PICK m \in 1 .. INT64_MAX : m * w > D /\ \A k \in 0 .. m : k * w \in 0 .. D + w
      <3> HIDE DEF D, w
      <3> QED BY <2>1, StepsPast
    <2>3. ASSUME NEW k \in 0 .. m PROVE r.current + k * r.step \in Int64
      <3>1. k * r.step \in 0 .. D + w
        BY <2>2
      <3> QED BY <3>1, <1>1, <2>1, Limits DEF Int64
    <2>4. m \in Nat /\ m \in 0 .. INT64_MAX
      BY <2>2
    <2>5. After(r, m).current = r.current + m * r.step /\ After(r, m).stop = r.stop
          /\ After(r, m).step = r.step
      BY <2>3, <2>4, AfterUpTo
    <2>6. After(r, m).current > r.stop
      <3>1. m * r.step > D /\ m * r.step \in Int
        BY <2>2, <2>4, <1>1
      <3> QED BY ONLY <3>1, <2>5, <1>1 DEF D
    <2>7. Exhausted(After(r, m))
      BY <2>5, <2>6, <1>4 DEF Exhausted
    <2> QED BY <2>4, <2>7, <1>2
  <1>5. CASE r.step < 0 /\ ~(r.current < r.stop)
    <2> DEFINE D == r.current - r.stop
               w == -r.step
    <2>1. D \in Nat /\ w \in Nat \ {0} /\ D < INT64_MAX * w /\ INT64_MAX \in Nat
      <3>1. INT64_MAX * w = -(INT64_MAX * r.step) /\ INT64_MAX * r.step \in Int
        BY <1>1, Limits
      <3>2. D < -(INT64_MAX * r.step)
        BY <3>1, <1>1, <1>5
      <3> QED BY <3>1, <3>2, <1>1, <1>5, Limits
    <2>2. PICK m \in 1 .. INT64_MAX : m * w > D /\ \A k \in 0 .. m : k * w \in 0 .. D + w
      <3> HIDE DEF D, w
      <3> QED BY <2>1, StepsPast
    <2>0. \A k \in 0 .. m : k \in Int /\ k * r.step = -(k * w) /\ k * w \in Int
      BY <1>1, <2>2
    <2>3. ASSUME NEW k \in 0 .. m PROVE r.current + k * r.step \in Int64
      <3>1. k * w \in 0 .. D + w /\ k * r.step = -(k * w)
        BY <2>2, <2>0
      <3> QED BY ONLY <3>1, <1>1, <2>1, Limits, r.stop + r.step \in Int64 DEF Int64, D, w
    <2>4. m \in Nat /\ m \in 0 .. INT64_MAX
      BY <2>2
    <2>5. After(r, m).current = r.current + m * r.step /\ After(r, m).stop = r.stop
          /\ After(r, m).step = r.step
      BY <2>3, <2>4, AfterUpTo
    <2>6. After(r, m).current < r.stop
      <3>1. m * w > D /\ m * r.step = -(m * w) /\ m * w \in Int
        BY <2>2, <2>0, <2>4, m \in 0 .. m
      <3> QED BY ONLY <3>1, <2>5, <1>1 DEF D
    <2>7. Exhausted(After(r, m))
      BY <2>5, <2>6, <1>5 DEF Exhausted
    <2> QED BY <2>4, <2>7, <1>2
  <1> QED BY <1>1, <1>3, <1>4, <1>5

-----------------------------------------------------------------------------
(* Buffers: what each method leaves in the array.                            *)

\* An array whose items are in its buffer, and are not slots that nobody has written.
Buffer(d) == d \in DArrays /\ d.size <= Len(d.data) /\ \A i \in 1 .. d.size : d.data[i] \in Stored

\* The items of d.
Held(d) == {d.data[i] : i \in 1 .. d.size}

\* A slot of e has an item of d or of e, or nothing, or what it had in d.
Leftover(d, e) ==
  \A i \in 1 .. Len(e.data) :
    \/ e.data[i] \in Held(d) \cup Held(e) \cup {Nowhere}
    \/ i <= Len(d.data) /\ e.data[i] = d.data[i]

\* What every method must leave of d: an array, in whose slots nothing new has come up.
Kept(d, e) == Buffer(e) /\ Leftover(d, e)

\* A slot has an item, or nothing; never both.
LEMMA SlotsAre == Stored \subseteq Slots /\ Nowhere \in Slots /\ Nowhere \notin Stored
  BY ArrayAssumption DEF Slots

\* The items of an array.
LEMMA ItemsAre ==
  ASSUME NEW d, Buffer(d)
  PROVE  /\ Items(d) \in Seq(Stored) /\ Len(Items(d)) = d.size
         /\ \A i \in 1 .. d.size : Items(d)[i] = d.data[i]
         /\ Range(Items(d)) = Held(d) /\ Held(d) \subseteq Stored
  <1>1. /\ d.data \in Seq(Slots) /\ d.size \in Nat /\ d.size <= Len(d.data)
        /\ \A i \in 1 .. d.size : d.data[i] \in Stored
    BY DEF Buffer, DArrays
  <1> DEFINE s == SubSeq(d.data, 1, d.size)
  <1>2. Items(d) = s
    BY DEF Items
  <1>3. s = [i \in 1 .. d.size |-> d.data[i]]
    <2> HIDE DEF Slots, Stored
    <2> QED BY <1>1
  <1>4. s \in Seq(Stored) /\ Len(s) = d.size /\ DOMAIN s = 1 .. d.size
    <2> HIDE DEF Stored, s
    <2>1. s \in [1 .. d.size -> Stored]
      BY <1>1, <1>3
    <2> QED BY <2>1, <1>1
  <1>5. \A i \in 1 .. d.size : s[i] = d.data[i]
    <2> HIDE DEF s
    <2> QED BY <1>3
  <1> HIDE DEF s
  <1>6. Range(s) = Held(d)
    BY <1>4, <1>5 DEF Range, Held
  <1> QED BY <1>1, <1>2, <1>4, <1>5, <1>6 DEF Held

\* A new array with room for n.
LEMMA ResizeIs ==
  ASSUME NEW d, d \in DArrays, NEW n, n \in Nat \ {0}, NEW e, e = darray_armem_resize(d, n)
  PROVE  /\ e \in DArrays /\ e.size = n /\ Len(e.data) = 2 * n
         /\ \A i \in 1 .. 2 * n : e.data[i] = IF i <= Len(d.data) THEN d.data[i] ELSE Nowhere
  <1> DEFINE f == [i \in 1 .. 2 * n |-> IF i <= Len(d.data) THEN d.data[i] ELSE Nowhere]
  <1>1. e = [data |-> f, size |-> n]
    BY DEF darray_armem_resize
  <1>2. 2 * n \in Nat /\ d.data \in Seq(Slots)
    BY DEF DArrays
  <1>3. f \in [1 .. 2 * n -> Slots]
    <2> HIDE DEF Slots
    <2> QED BY <1>2, SlotsAre
  <1>4. f \in Seq(Slots) /\ Len(f) = 2 * n
    <2> HIDE DEF Slots, f
    <2> QED BY <1>2, <1>3
  <1>5. \A i \in 1 .. 2 * n : f[i] = IF i <= Len(d.data) THEN d.data[i] ELSE Nowhere
    OBVIOUS
  <1> HIDE DEF f
  <1> QED BY <1>1, <1>4, <1>5 DEF DArrays

\* What memcpy and memmove leave in the slots.
Written(f, data, at, s) ==
  /\ f \in Seq(Slots) /\ Len(f) = Len(data)
  /\ \A i \in 1 .. Len(data) :
       f[i] = IF i \in at + 1 .. at + Len(s) THEN s[i - at] ELSE data[i]

\* memcpy of items stays in the block and leaves the rest as it was.
LEMMA WriteIs ==
  ASSUME NEW data, data \in Seq(Slots), NEW at, at \in Nat, NEW s, s \in Seq(Stored)
  PROVE  Written(Write(data, at, s), data, at, s)
  <1> DEFINE k == Len(data)
             f == [i \in 1 .. k |-> IF i \in at + 1 .. at + Len(s) THEN s[i - at] ELSE data[i]]
  <1>1. k \in Nat /\ DOMAIN data = 1 .. k /\ \A i \in 1 .. k : data[i] \in Slots
    <2> HIDE DEF Slots
    <2> QED OBVIOUS
  <1>2. Len(s) \in Nat /\ \A i \in 1 .. Len(s) : s[i] \in Slots
    <2> HIDE DEF Slots, Stored
    <2> QED BY SlotsAre
  <1>3. Write(data, at, s) = f
    BY <1>1 DEF Write
  <1>4. \A i \in 1 .. k : f[i] \in Slots
    <2> HIDE DEF Slots
    <2> SUFFICES ASSUME NEW i \in 1 .. k PROVE f[i] \in Slots
      OBVIOUS
    <2>1. CASE i \in at + 1 .. at + Len(s)
      <3>1. i - at \in 1 .. Len(s)
        BY <2>1, <1>2, <1>1
      <3> QED BY <3>1, <2>1, <1>2
    <2>2. CASE i \notin at + 1 .. at + Len(s)
      BY <2>2, <1>1
    <2> QED BY <2>1, <2>2
  <1>5. f \in [1 .. k -> Slots]
    <2> HIDE DEF Slots
    <2> QED BY <1>4
  <1>6. f \in Seq(Slots) /\ Len(f) = k
    <2> HIDE DEF Slots, f, k
    <2> QED BY <1>1, <1>5
  <1>7. \A i \in 1 .. k : f[i] = IF i \in at + 1 .. at + Len(s) THEN s[i - at] ELSE data[i]
    OBVIOUS
  <1> HIDE DEF f
  <1> QED BY <1>3, <1>6, <1>7 DEF k, Written

\* What memmove leaves in the slots.
Moved(f, data, at, from, n) ==
  /\ f \in Seq(Slots) /\ Len(f) = Len(data)
  /\ \A i \in 1 .. Len(data) :
       f[i] = IF i \in at + 1 .. at + n THEN data[i - at + from] ELSE data[i]

\* memmove within the block gives slots of the block.
LEMMA MoveIs ==
  ASSUME NEW data, data \in Seq(Slots), NEW at, at \in Int, NEW from, from \in Nat,
         NEW n, n \in Int, from + n <= Len(data)
  PROVE  Moved(Move(data, at, from, n), data, at, from, n)
  <1> DEFINE k == Len(data)
             f == [i \in 1 .. k |-> IF i \in at + 1 .. at + n THEN data[i - at + from] ELSE data[i]]
  <1>1. k \in Nat /\ DOMAIN data = 1 .. k /\ \A i \in 1 .. k : data[i] \in Slots
    <2> HIDE DEF Slots
    <2> QED OBVIOUS
  <1>2. Move(data, at, from, n) = f
    BY <1>1 DEF Move
  <1>3. \A i \in 1 .. k : f[i] \in Slots
    <2> HIDE DEF Slots
    <2> SUFFICES ASSUME NEW i \in 1 .. k PROVE f[i] \in Slots
      OBVIOUS
    <2>1. CASE i \in at + 1 .. at + n
      <3>1. i - at + from \in 1 .. k
        BY <2>1, <1>1
      <3> QED BY <3>1, <2>1, <1>1
    <2>2. CASE i \notin at + 1 .. at + n
      BY <2>2, <1>1
    <2> QED BY <2>1, <2>2
  <1>4. f \in [1 .. k -> Slots]
    <2> HIDE DEF Slots
    <2> QED BY <1>3
  <1>5. f \in Seq(Slots) /\ Len(f) = k
    <2> HIDE DEF Slots, f, k
    <2> QED BY <1>1, <1>4
  <1>6. \A i \in 1 .. k : f[i] = IF i \in at + 1 .. at + n THEN data[i - at + from] ELSE data[i]
    OBVIOUS
  <1> HIDE DEF f
  <1> QED BY <1>2, <1>5, <1>6 DEF k, Moved

\* An array that is not touched, and one made of slots f of which the first m are its items.
LEMMA KeptAsIs ==
  ASSUME NEW d, Buffer(d) PROVE Kept(d, d)
  BY DEF Kept, Leftover

\* An array whose slots are f, of which the first m are items, is what a method may leave.
LEMMA KeptBy ==
  ASSUME NEW d, NEW f, f \in Seq(Slots), NEW m, m \in Nat, m <= Len(f),
         \A i \in 1 .. Len(f) :
           /\ i <= m => f[i] \in Stored
           /\ i > m => \/ f[i] \in Held(d) \cup {Nowhere}
                       \/ i <= Len(d.data) /\ f[i] = d.data[i],
         NEW e, e.data = f, e.size = m, e \in DArrays
  PROVE  Kept(d, e)
  <1>1. Len(f) \in Nat
    BY LenProperties
  <1>2. \A i \in 1 .. m : e.data[i] \in Stored
    BY <1>1
  <1>3. Buffer(e)
    BY <1>2 DEF Buffer
  <1>4. ASSUME NEW i \in 1 .. Len(e.data)
        PROVE  \/ e.data[i] \in Held(d) \cup Held(e) \cup {Nowhere}
               \/ i <= Len(d.data) /\ e.data[i] = d.data[i]
    <2>1. CASE i <= m
      <3>1. i \in 1 .. e.size
        BY <2>1, <1>1
      <3>2. e.data[i] \in Held(e)
        BY <3>1 DEF Held
      <3> QED BY <3>2
    <2>2. CASE i > m
      BY <2>2
    <2> QED BY <2>1, <2>2, <1>1
  <1> QED BY <1>3, <1>4 DEF Kept, Leftover

\* What a buffer has.
LEMMA BufferHas ==
  ASSUME NEW d, Buffer(d)
  PROVE  /\ d \in DArrays /\ d.data \in Seq(Slots) /\ d.size \in Nat /\ Len(d.data) \in Nat
         /\ d.size <= Len(d.data) /\ \A i \in 1 .. d.size : d.data[i] \in Stored
         /\ d = [data |-> d.data, size |-> d.size]
  BY DEF Buffer, DArrays

\* A record of slots and a size is an array.
LEMMA ArrayOf ==
  ASSUME NEW f, f \in Seq(Slots), NEW m, m \in Nat
  PROVE  [data |-> f, size |-> m] \in DArrays
  BY DEF DArrays

\* append: the new buffer has the old items and then the new ones.
LEMMA AppendKeeps ==
  ASSUME NEW d, Buffer(d), NEW items, items \in Seq(Stored), NEW o, o = append(d, items)
  PROVE  /\ o.end = "returned" /\ Kept(d, o.arr) /\ o.out = <<>>
         /\ o.arr.size = d.size + Len(items)
         /\ \A i \in 1 .. d.size : o.arr.data[i] = d.data[i]
         /\ \A i \in 1 .. Len(items) : o.arr.data[d.size + i] = items[i]
  <1>1. CASE items = <<>>
    <2>1. o.end = "returned" /\ o.arr = d /\ o.out = <<>>
      BY <1>1 DEF append, Return, Ends
    <2>2. Len(items) = 0
      BY <1>1
    <2> QED BY <2>1, <2>2, BufferHas, KeptAsIs
  <1>2. CASE items # <<>>
    <2> DEFINE n == d.size + Len(items)
               big == darray_armem_resize(d, n)
               f == Write(big.data, d.size, items)
               e == [data |-> f, size |-> n]
    <2>1. Len(items) \in Nat \ {0} /\ n \in Nat \ {0}
      <3>1. Len(items) \in Nat /\ Len(items) # 0
        <4> HIDE DEF Stored
        <4> QED BY <1>2, EmptySeq, LenProperties
      <3> QED BY <3>1, BufferHas
    <2> HIDE DEF n
    <2>2. /\ big \in DArrays /\ big.size = n /\ Len(big.data) = 2 * n
          /\ \A i \in 1 .. 2 * n : big.data[i] = IF i <= Len(d.data) THEN d.data[i] ELSE Nowhere
      BY <2>1, BufferHas, ResizeIs
    <2>3. [big EXCEPT !.data = f] = e
      BY <2>2 DEF DArrays
    <2>4. o = Return(e, <<>>)
      BY <1>2, <2>3 DEF append, n
    <2> HIDE DEF big, f
    <2>5. /\ f \in Seq(Slots) /\ Len(f) = 2 * n
          /\ \A i \in 1 .. 2 * n :
               f[i] = IF i \in d.size + 1 .. d.size + Len(items) THEN items[i - d.size]
                      ELSE big.data[i]
      <3>1. big.data \in Seq(Slots) /\ d.size \in Nat
        BY <2>2, BufferHas DEF DArrays
      <3>2. Written(f, big.data, d.size, items)
        BY <3>1, WriteIs DEF f
      <3> QED BY <3>2, <2>2 DEF Written
    <2>6. ASSUME NEW i \in 1 .. Len(f)
          PROVE  /\ i <= n => f[i] \in Stored
                 /\ i > n => \/ f[i] \in Held(d) \cup {Nowhere}
                             \/ i <= Len(d.data) /\ f[i] = d.data[i]
      <3>1. i \in 1 .. 2 * n /\ i \in Nat
        BY <2>5, <2>1
      <3>2. CASE i <= d.size
        <4>1. f[i] = d.data[i] /\ i \in 1 .. d.size /\ i <= n
          BY <3>1, <3>2, <2>1, <2>2, <2>5, BufferHas DEF n
        <4> QED BY <4>1, <2>1, BufferHas, <3>1
      <3>3. CASE i > d.size /\ i <= n
        <4>1. i \in d.size + 1 .. d.size + Len(items) /\ i - d.size \in 1 .. Len(items)
          BY <3>1, <3>3, <2>1, BufferHas DEF n
        <4>2. items[i - d.size] \in Stored
          <5> HIDE DEF Stored
          <5> QED BY <4>1
        <4> QED BY <4>1, <4>2, <3>1, <3>3, <2>1, <2>5
      <3>4. CASE i > n
        <4>1. f[i] = big.data[i]
          BY <3>1, <3>4, <2>1, <2>5, BufferHas DEF n
        <4> QED BY <4>1, <3>1, <3>4, <2>1, <2>2
      <3> QED BY <3>1, <3>2, <3>3, <3>4, <2>1, BufferHas
    <2>7. e \in DArrays
      BY <2>1, <2>5, ArrayOf
    <2>8. e.data = f /\ e.size = n /\ n <= Len(f)
      BY <2>1, <2>5
    <2> HIDE DEF e
    <2>9. Kept(d, e)
      BY <2>1, <2>5, <2>6, <2>7, <2>8, KeptBy
    <2>10. ASSUME NEW i \in 1 .. d.size PROVE f[i] = d.data[i]
      <3>1. i \in 1 .. 2 * n /\ i \notin d.size + 1 .. d.size + Len(items) /\ i <= Len(d.data)
        BY <2>1, BufferHas DEF n
      <3> QED BY <3>1, <2>2, <2>5
    <2>11. ASSUME NEW i \in 1 .. Len(items) PROVE f[d.size + i] = items[i]
      <3> DEFINE k == d.size + i
      <3>1. /\ k \in 1 .. 2 * n /\ k \in d.size + 1 .. d.size + Len(items)
            /\ k - d.size = i
        BY <2>1, BufferHas DEF n
      <3> HIDE DEF k
      <3> QED BY <3>1, <2>5 DEF k
    <2> QED BY <2>4, <2>8, <2>9, <2>10, <2>11 DEF Return, Ends, n
  <1> QED BY <1>1, <1>2

\* An array with other slots, or another size too.
LEMMA Remade ==
  ASSUME NEW d, d \in DArrays, NEW f, NEW m
  PROVE  /\ [d EXCEPT !.data = f] = [data |-> f, size |-> d.size]
         /\ [d EXCEPT !.data = f, !.size = m] = [data |-> f, size |-> m]
  <1> DEFINE e == [data |-> f, size |-> d.size]
  <1>1. [d EXCEPT !.data = f] = e
    BY DEF DArrays
  <1>2. [e EXCEPT !.size = m] = [data |-> f, size |-> m]
    OBVIOUS
  <1> HIDE DEF e
  <1>3. [d EXCEPT !.data = f, !.size = m] = [data |-> f, size |-> m]
    BY <1>1, <1>2, Zenon
  <1> QED BY <1>1, <1>3 DEF e

\* Where a position goes when n others are removed at at, or put in at pos.
LEMMA ShiftedDown ==
  ASSUME NEW i, i \in Nat, NEW at, at \in Nat, NEW n, n \in Nat, NEW size, size \in Nat,
         i \in at + 1 .. at + (size - n - at)
  PROVE  i - at + (at + n) = i + n /\ i + n \in 1 .. size /\ i <= size - n
  OBVIOUS

\* The tail that makes room for n others goes up by n.
LEMMA ShiftedUp ==
  ASSUME NEW i, i \in Nat, NEW pos, pos \in Nat, NEW n, n \in Nat, NEW size, size \in Nat,
         pos <= size, i > pos + n, i <= size + n
  PROVE  /\ i \notin pos + 1 .. pos + n /\ i \in (pos + n) + 1 .. (pos + n) + (size - pos)
         /\ i - (pos + n) + pos = i - n /\ i - n \in 1 .. size
  OBVIOUS

\* What is in front of the room that is made stays.
LEMMA InFront ==
  ASSUME NEW i, i \in Nat, NEW pos, pos \in Nat, NEW n, n \in Nat, NEW size, size \in Nat,
         pos <= size, 1 <= i, i <= pos
  PROVE  /\ i \notin pos + 1 .. pos + n /\ i \notin (pos + n) + 1 .. (pos + n) + (size - pos)
         /\ i \in 1 .. size /\ i <= size + n
  OBVIOUS

\* What is behind the items has not been written to.
LEMMA Behind ==
  ASSUME NEW i, i \in Nat, NEW pos, pos \in Nat, NEW n, n \in Nat, NEW size, size \in Nat,
         pos <= size, i > size + n
  PROVE  i \notin pos + 1 .. pos + n /\ i \notin (pos + n) + 1 .. (pos + n) + (size - pos)
  OBVIOUS

\* A position among those that are written, and its item.
LEMMA Among ==
  ASSUME NEW i, i \in Nat, NEW start, start \in Nat, NEW len, len \in Nat, NEW size,
         size \in Nat, len > 0 => start + len <= size, i \in start + 1 .. start + len
  PROVE  i - start \in 1 .. len /\ i <= size
  OBVIOUS

\* The tail of an assignment to a slice comes from within the old array.
LEMMA FromTheTail ==
  ASSUME NEW i, i \in Nat, NEW start, start \in Nat, NEW n, n \in Nat, NEW len, len \in Nat,
         NEW size, size \in Nat, NEW M, M \in Nat, size <= M,
         i > start + len, i <= size - n + len
  PROVE  i - len + n \in 1 .. M
  OBVIOUS

\* What insert leaves and returns.
PutIn(d, pos, items, o) ==
  /\ o.out = <<>>
  /\ \/ (pos > d.size \/ items = <<>>) /\ o.arr = d
     \/ /\ ~(pos > d.size) /\ items # <<>> /\ pos \in 0 .. d.size
        /\ o.arr.size = d.size + Len(items)
        /\ \A i \in 1 .. o.arr.size :
             o.arr.data[i] = IF i <= pos THEN d.data[i]
                             ELSE IF i <= pos + Len(items) THEN items[i - pos]
                             ELSE d.data[i - Len(items)]

\* insert: so has it here, unless the position is negative, when the tail is moved from before
\* the block.
LEMMA InsertKeeps ==
  ASSUME NEW d, Buffer(d), NEW items, items \in Seq(Stored), NEW pos, pos \in Int,
         NEW o, o = insert(d, pos, items)
  PROVE  \/ o.end = "returned" /\ Kept(d, o.arr) /\ PutIn(d, pos, items, o)
         \/ o.end = "wild" /\ pos < 0
  <1>1. CASE (pos > d.size /\ 0 < pos) \/ items = <<>>
    <2>1. o.end = "returned" /\ o.arr = d /\ o.out = <<>>
      BY <1>1 DEF insert, Return, Ends
    <2>2. pos > d.size \/ items = <<>>
      BY <1>1
    <2> QED BY <2>1, <2>2, KeptAsIs DEF PutIn
  <1>2. CASE ~((pos > d.size /\ 0 < pos) \/ items = <<>>) /\ pos < 0
    BY <1>2 DEF insert, Dies, Ends
  <1>3. CASE ~((pos > d.size /\ 0 < pos) \/ items = <<>>) /\ ~(pos < 0)
    <2> DEFINE n == Len(items)
               m == d.size + n
               big == darray_armem_resize(d, m)
               gap == Move(big.data, pos + n, pos, d.size - pos)
               f == Write(gap, pos, items)
               e == [data |-> f, size |-> m]
    <2>1. n \in Nat \ {0}
      <3>1. Len(items) \in Nat /\ Len(items) # 0
        <4> HIDE DEF Stored
        <4> QED BY <1>3, EmptySeq, LenProperties
      <3> QED BY <3>1
    <2> HIDE DEF n
    <2>2. /\ pos \in Nat /\ pos <= d.size /\ d.size \in Nat /\ m \in Nat \ {0} /\ m = d.size + n
          /\ d.size - pos \in Nat
      BY <1>3, <2>1, BufferHas
    <2>0. d.size \in Nat /\ Len(d.data) \in Nat /\ d.size <= Len(d.data)
      BY BufferHas
    <2> HIDE DEF m
    <2>3. /\ big \in DArrays /\ big.size = m /\ Len(big.data) = 2 * m
          /\ \A i \in 1 .. 2 * m : big.data[i] = IF i <= Len(d.data) THEN d.data[i] ELSE Nowhere
      BY <2>2, BufferHas, ResizeIs
    <2>4. [big EXCEPT !.data = f] = e
      BY <2>3 DEF DArrays
    <2>5. o = Return(e, <<>>)
      BY <1>3, <2>4 DEF insert, m, n
    <2>6. big.data \in Seq(Slots)
      BY <2>3 DEF DArrays
    <2> HIDE DEF big, gap, f
    <2>7. /\ gap \in Seq(Slots) /\ Len(gap) = 2 * m
          /\ \A i \in 1 .. 2 * m :
               gap[i] = IF i \in (pos + n) + 1 .. (pos + n) + (d.size - pos)
                        THEN big.data[i - (pos + n) + pos] ELSE big.data[i]
      <3>1. pos + n \in Int /\ d.size - pos \in Int /\ pos + (d.size - pos) <= Len(big.data)
        <4>1. Len(big.data) = 2 * m
          BY <2>3
        <4> QED BY ONLY <4>1, <2>1, <2>2
      <3>2. Moved(gap, big.data, pos + n, pos, d.size - pos)
        BY <3>1, <2>2, <2>6, MoveIs DEF gap
      <3> QED BY <3>2, <2>3 DEF Moved
    <2>8. /\ f \in Seq(Slots) /\ Len(f) = 2 * m
          /\ \A i \in 1 .. 2 * m :
               f[i] = IF i \in pos + 1 .. pos + n THEN items[i - pos] ELSE gap[i]
      <3>1. Written(f, gap, pos, items)
        BY <2>2, <2>7, WriteIs DEF f
      <3> QED BY <3>1, <2>7 DEF Written, n
    <2>9. ASSUME NEW i \in 1 .. Len(f)
          PROVE  /\ i <= m =>
                      /\ f[i] \in Stored
                      /\ f[i] = IF i <= pos THEN d.data[i]
                                ELSE IF i <= pos + n THEN items[i - pos] ELSE d.data[i - n]
                 /\ i > m => \/ f[i] \in Held(d) \cup {Nowhere}
                             \/ i <= Len(d.data) /\ f[i] = d.data[i]
      <3>1. i \in 1 .. 2 * m /\ i \in Nat
        BY <2>8, <2>2
      <3>2. CASE i <= pos
        <4>1. i \notin pos + 1 .. pos + n /\ i \notin (pos + n) + 1 .. (pos + n) + (d.size - pos)
              /\ i <= Len(d.data) /\ i \in 1 .. d.size /\ i <= m
          <5>1. n \in Nat /\ 1 <= i
            BY <2>1, <3>1
          <5>2. /\ i \notin pos + 1 .. pos + n
                /\ i \notin (pos + n) + 1 .. (pos + n) + (d.size - pos)
                /\ i \in 1 .. d.size /\ i <= d.size + n
            BY ONLY <5>1, <3>1, <3>2, <2>2, InFront
          <5>3. i <= Len(d.data)
            BY ONLY <5>2, <3>1, <2>0
          <5>4. i <= m
            BY ONLY <5>2, <2>2
          <5> QED BY ONLY <5>2, <5>3, <5>4
        <4>2. f[i] = d.data[i]
          BY <4>1, <3>1, <2>3, <2>7, <2>8
        <4>3. d.data[i] \in Stored /\ ~(i > m)
          BY <4>1, <3>1, <2>2, BufferHas
        <4> QED BY ONLY <4>1, <4>2, <4>3, <3>2
      <3>3. CASE i > pos /\ i <= pos + n
        <4>1. i \in pos + 1 .. pos + n /\ i - pos \in 1 .. Len(items) /\ i <= m
          BY ONLY <3>1, <3>3, <2>0, <2>1, <2>2 DEF n
        <4>2. items[i - pos] \in Stored
          <5> HIDE DEF Stored
          <5> QED BY <4>1
        <4>3. f[i] = items[i - pos]
          BY <4>1, <3>1, <2>8
        <4>4. ~(i <= pos) /\ ~(i > m)
          BY ONLY <3>1, <3>3, <4>1, <2>2
        <4> QED BY ONLY <4>1, <4>2, <4>3, <4>4, <3>3
      <3>4. CASE i > pos + n /\ i <= m
        <4>1. /\ i \notin pos + 1 .. pos + n /\ i \in (pos + n) + 1 .. (pos + n) + (d.size - pos)
              /\ i - (pos + n) + pos = i - n /\ i - n \in 1 .. d.size /\ i - n \in 1 .. 2 * m
              /\ i - n <= Len(d.data)
          <5>1. n \in Nat /\ i <= d.size + n
            BY <2>1, <2>2, <3>4
          <5>2. /\ i \notin pos + 1 .. pos + n
                /\ i \in (pos + n) + 1 .. (pos + n) + (d.size - pos)
                /\ i - (pos + n) + pos = i - n /\ i - n \in 1 .. d.size
            BY ONLY <5>1, <3>1, <3>4, <2>2, ShiftedUp
          <5>3. i - n <= Len(d.data)
            BY ONLY <5>2, <2>0
          <5>4. d.size <= 2 * m
            BY ONLY <5>1, <2>2
          <5>5. i - n \in 1 .. 2 * m
            BY ONLY <5>2, <5>4, <2>2
          <5> QED BY ONLY <5>2, <5>3, <5>5
        <4>2. f[i] = d.data[i - n]
          BY <4>1, <3>1, <2>3, <2>7, <2>8
        <4>3. ~(i <= pos) /\ ~(i <= pos + n) /\ ~(i > m)
          BY ONLY <3>1, <3>4, <2>1, <2>2
        <4> QED BY <4>1, <4>2, <4>3, BufferHas
      <3>5. CASE i > m
        <4>1. i \notin pos + 1 .. pos + n /\ i \notin (pos + n) + 1 .. (pos + n) + (d.size - pos)
          <5>1. n \in Nat /\ i > d.size + n
            BY ONLY <3>5, <2>1, <2>2
          <5> QED BY ONLY <5>1, <3>1, <2>2, Behind
        <4>2. f[i] = big.data[i]
          BY <4>1, <3>1, <2>7, <2>8
        <4>3. ~(i <= m)
          BY ONLY <3>1, <3>5, <2>2
        <4> QED BY <4>2, <4>3, <3>1, <2>3
      <3>6. i <= pos \/ (i > pos /\ i <= pos + n) \/ (i > pos + n /\ i <= m) \/ i > m
        BY ONLY <3>1, <2>1, <2>2
      <3> HIDE DEF f
      <3> QED BY ONLY <3>2, <3>3, <3>4, <3>5, <3>6
    <2>10. e \in DArrays
      BY <2>2, <2>8, ArrayOf
    <2>11. e.data = f /\ e.size = m /\ m <= Len(f)
      BY <2>2, <2>8
    <2> HIDE DEF e
    <2>12. Kept(d, e)
      BY <2>2, <2>8, <2>9, <2>10, <2>11, KeptBy
    <2>13. o.end = "returned" /\ o.arr = e /\ o.out = <<>>
      BY <2>5 DEF Return, Ends
    <2>14. \A i \in 1 .. m : i \in 1 .. Len(f) /\ i <= m
      BY <2>2, <2>8
    <2>15. \A i \in 1 .. m : e.data[i] = IF i <= pos THEN d.data[i]
                                         ELSE IF i <= pos + n THEN items[i - pos]
                                         ELSE d.data[i - n]
      BY <2>9, <2>11, <2>14
    <2>16. ~(pos > d.size) /\ items # <<>> /\ pos \in 0 .. d.size /\ e.size = d.size + n
      BY <1>3, <2>2, <2>11
    <2> QED BY <2>11, <2>12, <2>13, <2>15, <2>16 DEF PutIn, n
  <1> QED BY <1>1, <1>2, <1>3

\* e has the items of d but the n from at on.
Closed(d, at, n, e) ==
  /\ e.size = d.size - n
  /\ \A i \in 1 .. e.size : e.data[i] = IF i <= at THEN d.data[i] ELSE d.data[i + n]

\* The items from at + n on go down to at.
LEMMA CloseKeeps ==
  ASSUME NEW d, Buffer(d), NEW at, at \in Nat, NEW n, n \in Nat, at + n <= d.size,
         NEW e, e = [data |-> Move(d.data, at, at + n, d.size - n - at), size |-> d.size - n]
  PROVE  Kept(d, e) /\ Closed(d, at, n, e)
  <1> DEFINE from == at + n
             k == d.size - n - at
             f == Move(d.data, at, from, k)
             m == d.size - n
             N == Len(d.data)
  <1>1. /\ d.data \in Seq(Slots) /\ d.size \in Nat /\ N \in Nat /\ d.size <= N
        /\ \A i \in 1 .. d.size : d.data[i] \in Stored
    BY BufferHas
  <1>2. from \in Nat /\ k \in Int /\ from + k = d.size /\ at \in Int /\ m \in Nat /\ at + k = m
    BY <1>1
  <1>3. e = [data |-> f, size |-> m]
    OBVIOUS
  <1> HIDE DEF from, k
  <1>4. /\ f \in Seq(Slots) /\ Len(f) = N
        /\ \A i \in 1 .. N : f[i] = IF i \in at + 1 .. at + k THEN d.data[i - at + from]
                                    ELSE d.data[i]
    <2>1. from + k <= Len(d.data)
      BY <1>1, <1>2
    <2>2. Moved(Move(d.data, at, from, k), d.data, at, from, k)
      BY <2>1, <1>1, <1>2, MoveIs
    <2> QED BY <2>2 DEF Moved
  <1> HIDE DEF f
  <1>5. ASSUME NEW i \in 1 .. Len(f)
        PROVE  /\ i <= m => f[i] \in Stored
               /\ i > m => \/ f[i] \in Held(d) \cup {Nowhere}
                           \/ i <= Len(d.data) /\ f[i] = d.data[i]
    <2>1. i \in 1 .. N /\ i \in Nat
      BY <1>1, <1>4
    <2>2. CASE i \in at + 1 .. at + k
      <3>1. i - at + from = i + n /\ i + n \in 1 .. d.size /\ i <= m
        BY <2>1, <2>2, <1>1, ShiftedDown DEF from, k
      <3>2. f[i] = d.data[i + n]
        BY ONLY <3>1, <2>1, <2>2, <1>4
      <3>3. d.data[i + n] \in Stored
        BY ONLY <3>1, <1>1
      <3> QED BY ONLY <3>1, <3>2, <3>3, <2>1, <1>2
    <2>3. CASE i \notin at + 1 .. at + k
      <3>1. f[i] = d.data[i] /\ i <= N
        BY ONLY <2>1, <2>3, <1>4
      <3>2. ASSUME i <= m PROVE f[i] \in Stored
        <4>1. i \in 1 .. d.size
          BY <3>2, <2>1, <1>1
        <4> QED BY ONLY <4>1, <3>1, <1>1
      <3> QED BY ONLY <3>1, <3>2
    <2> QED BY <2>2, <2>3
  <1>6. m <= Len(f)
    BY <1>1, <1>4
  <1> HIDE DEF m
  <1>7. e.data = f /\ e.size = m /\ e \in DArrays
    BY <1>2, <1>3, <1>4, ArrayOf
  <1>8. Kept(d, e)
    BY <1>2, <1>4, <1>5, <1>6, <1>7, KeptBy
  <1>9. ASSUME NEW i \in 1 .. m PROVE f[i] = IF i <= at THEN d.data[i] ELSE d.data[i + n]
    <2>1. i \in 1 .. N /\ i \in Nat
      BY <1>1, <1>2, <1>4, <1>6
    <2>2. CASE i <= at
      <3>1. i \notin at + 1 .. at + k
        BY <2>1, <2>2, <1>2
      <3> QED BY <3>1, <2>1, <2>2, <1>4
    <2>3. CASE ~(i <= at)
      <3>1. i \in at + 1 .. at + k /\ i - at + from = i + n
        BY <2>1, <2>3, <1>2 DEF from
      <3> QED BY <3>1, <2>1, <2>3, <1>4
    <2> QED BY <2>2, <2>3
  <1>10. e.size = d.size - n
    BY <1>7 DEF m
  <1> QED BY <1>7, <1>8, <1>9, <1>10 DEF Closed

\* The position that pop takes.
Popped(pos, size) == IF pos < 0 \/ pos >= size THEN size - 1 ELSE pos

\* pop and del of an index close the gap with the tail; getitem and setitem stay in the array.
LEMMA PopKeeps ==
  ASSUME NEW d, Buffer(d), NEW pos, pos \in Int, NEW o, o = pop(d, pos)
  PROVE  /\ o.end \in {"returned", "thrown"} /\ Kept(d, o.arr)
         /\ o.end = "thrown" => d.size = 0 /\ o.arr = d
         /\ o.end = "returned" =>
              /\ d.size # 0 /\ o.out = <<d.data[Popped(pos, d.size) + 1]>>
              /\ Closed(d, Popped(pos, d.size), 1, o.arr)
  <1>1. CASE d.size = 0
    BY <1>1, KeptAsIs DEF pop, Throw, Ends
  <1>2. CASE d.size # 0
    <2> DEFINE at == IF pos < 0 \/ pos >= d.size THEN d.size - 1 ELSE pos
               e == [data |-> Move(d.data, at, at + 1, d.size - 1 - at), size |-> d.size - 1]
    <2>1. at \in Nat /\ at + 1 <= d.size /\ d.size - at - 1 = d.size - 1 - at
      BY <1>2, BufferHas
    <2>2. darray_armem_pop(d, pos) = e
      <3>1. darray_armem_pop(d, pos)
              = [d EXCEPT !.data = Move(d.data, at, at + 1, d.size - at - 1), !.size = d.size - 1]
        BY DEF darray_armem_pop
      <3> HIDE DEF at
      <3>2. d.size - at - 1 = d.size - 1 - at /\ d \in DArrays
        BY <2>1, BufferHas
      <3> QED BY <3>1, <3>2, Remade
    <2> HIDE DEF at
    <2>3. Kept(d, e) /\ Closed(d, at, 1, e)
      BY <2>1, CloseKeeps, 1 \in Nat
    <2>4. at = Popped(pos, d.size)
      BY DEF at, Popped
    <2>5. (IF pos < 0 \/ pos >= d.size THEN d.size ELSE pos + 1) = at + 1
      BY BufferHas DEF at
    <2>6. o.end = "returned" /\ o.arr = e /\ o.out = <<d.data[at + 1]>>
      BY <1>2, <2>2, <2>5 DEF pop, Return, Ends
    <2> QED BY <1>2, <2>3, <2>4, <2>6
  <1> QED BY <1>1, <1>2

\* getitem reads an item of the array, or throws.
LEMMA GetitemKeeps ==
  ASSUME NEW d, Buffer(d), NEW index, NEW o, o = getitem(d, index)
  PROVE  /\ o.end \in {"returned", "thrown"} /\ Kept(d, o.arr) /\ o.arr = d
         /\ o.end = "returned" <=> InRange(d, index)
         /\ o.end = "returned" => o.out = <<d.data[At(d, index) + 1]>>
  BY KeptAsIs DEF getitem, Return, Throw, Ends

\* setitem writes over an item of the array, or throws.
LEMMA SetitemKeeps ==
  ASSUME NEW d, Buffer(d), NEW index, NEW v, v \in Stored, NEW o, o = setitem(d, index, v)
  PROVE  /\ o.end \in {"returned", "thrown"} /\ Kept(d, o.arr)
         /\ o.end = "returned" <=> InRange(d, index)
         /\ o.end = "thrown" => o.arr = d
         /\ o.end = "returned" =>
              /\ o.out = <<v>> /\ o.arr.size = d.size
              /\ \A i \in 1 .. d.size :
                   o.arr.data[i] = IF i = At(d, index) + 1 THEN v ELSE d.data[i]
  <1>1. CASE ~InRange(d, index)
    BY <1>1, KeptAsIs DEF setitem, Throw, Ends
  <1>2. CASE InRange(d, index)
    <2> DEFINE p == At(d, index) + 1
               f == [d.data EXCEPT ![p] = v]
               e == [data |-> f, size |-> d.size]
               N == Len(d.data)
    <2>1. p \in 1 .. d.size
      BY <1>2, BufferHas DEF InRange
    <2> HIDE DEF p
    <2>2. o = Return(e, <<v>>)
      <3>1. o = Return([d EXCEPT !.data = f], <<v>>)
        BY <1>2, Zenon DEF setitem, p
      <3> HIDE DEF f
      <3> QED BY <3>1, BufferHas, Remade
    <2>3. d.data \in Seq(Slots) /\ N \in Nat /\ d.size \in Nat /\ d.size <= N
      BY BufferHas
    <2>4. f \in Seq(Slots) /\ Len(f) = N
      <3>1. v \in Slots
        BY SlotsAre
      <3> HIDE DEF Slots
      <3> QED BY <2>1, <2>3, <3>1
    <2>5. \A i \in 1 .. N : f[i] = IF i = p THEN v ELSE d.data[i]
      <3> HIDE DEF Slots
      <3> QED BY <2>3
    <2> HIDE DEF f
    <2>6. ASSUME NEW i \in 1 .. Len(f)
          PROVE  /\ i <= d.size => f[i] \in Stored
                 /\ i > d.size => \/ f[i] \in Held(d) \cup {Nowhere}
                                  \/ i <= Len(d.data) /\ f[i] = d.data[i]
      <3>1. i \in 1 .. N /\ i \in Nat /\ (i <= d.size => i \in 1 .. d.size)
        BY <2>3, <2>4
      <3> QED BY <3>1, <2>1, <2>3, <2>4, <2>5, BufferHas
    <2>7. e.data = f /\ e.size = d.size /\ d.size <= Len(f) /\ e \in DArrays
      BY <2>3, <2>4, ArrayOf
    <2> HIDE DEF e
    <2>8. Kept(d, e)
      BY <2>3, <2>4, <2>6, <2>7, KeptBy
    <2>9. o.end = "returned" /\ o.arr = e /\ o.out = <<v>>
      BY <2>2 DEF Return, Ends
    <2>10. \A i \in 1 .. d.size : i \in 1 .. N
      BY <2>3
    <2> QED BY <1>2, <2>5, <2>7, <2>8, <2>9, <2>10 DEF p
  <1> QED BY <1>1, <1>2

\* del of an index moves the items after it, and no more, or throws.
LEMMA DelitemKeeps ==
  ASSUME NEW d, Buffer(d), NEW index, NEW o, o = delitem(d, index)
  PROVE  /\ o.end \in {"returned", "thrown"} /\ Kept(d, o.arr)
         /\ o.end = "returned" <=> InRange(d, index)
         /\ o.end = "thrown" => o.arr = d
         /\ o.end = "returned" => o.out = <<>> /\ Closed(d, At(d, index), 1, o.arr)
  <1>1. CASE ~InRange(d, index)
    BY <1>1, KeptAsIs DEF delitem, Throw, Ends
  <1>2. CASE InRange(d, index)
    <2> DEFINE at == At(d, index)
               e == [data |-> Move(d.data, at, at + 1, d.size - 1 - at), size |-> d.size - 1]
    <2>1. at \in Nat /\ at + 1 <= d.size /\ d.size - at - 1 = d.size - 1 - at
      BY <1>2, BufferHas DEF InRange
    <2>2. o = Return(e, <<>>)
      BY <1>2, <2>1 DEF delitem
    <2> HIDE DEF at
    <2>3. Kept(d, e) /\ Closed(d, at, 1, e)
      BY <2>1, CloseKeeps, 1 \in Nat
    <2> QED BY <1>2, <2>2, <2>3 DEF Return, Ends, at
  <1> QED BY <1>1, <1>2

\* A step that is near enough to the limits for the arithmetic on a list of len to leave 64 bits.
Steep(s, len) == s.step # ARGON_NULL /\ (s.step > INT64_MAX - len \/ s.step < len - INT64_MAX)

\* All positions that a slice names are positions of the list.
LEMMA SliceIs ==
  ASSUME NEW s, IsSlice(s), NEW len, len \in 0 .. INT64_MAX, NEW x, x = slice_indices(s, len)
  PROVE  /\ Measured(x, len) /\ Chosen(x) \subseteq 0 .. len - 1
         /\ slice_len(x) < 0 => Steep(s, len)
  <1>1. Normalised(x, len) /\ x.step = IF s.step = ARGON_NULL THEN 1 ELSE s.step
    BY IndicesAre
  <1>2. Measured(x, len)
    BY <1>1, SliceLen
  <1>3. Chosen(x) \subseteq 0 .. len - 1
    BY <1>2 DEF Measured, Chosen
  <1>4. ASSUME slice_len(x) < 0 PROVE Steep(s, len)
    <2>1. x.step > INT64_MAX - len \/ x.step < len - INT64_MAX
      BY <1>2, <1>4 DEF Measured
    <2>2. x.step # 1
      <3>1. x.step = 1 => slice_len(x) \in 0 .. len
        BY <1>2 DEF Measured
      <3> QED BY <3>1, <1>4
    <2> QED BY <1>1, <2>1, <2>2 DEF Steep
  <1> QED BY <1>2, <1>3, <1>4

\* What indices name in f.
SlicedBy(f, x) == [i \in 1 .. slice_len(x) |-> f[src_index(x, i - 1) + 1]]

\* A slice reads items of the array only; a steep step makes its length wrap below 0.
LEMMA GetsliceKeeps ==
  ASSUME NEW d, Buffer(d), d.size <= INT64_MAX, NEW s, IsSlice(s), NEW o, o = getslice(d, s)
  PROVE  \/ /\ o.end = "returned" /\ Kept(d, o.arr) /\ o.arr = d
            /\ o.out = SlicedBy(d.data, slice_indices(s, d.size))
         \/ o.end = "huge" /\ Steep(s, d.size)
  <1> DEFINE x == slice_indices(s, d.size)
             n == slice_len(x)
  <1>1. d.size \in 0 .. INT64_MAX
    BY BufferHas, Limits
  <1>2. Chosen(x) \subseteq 0 .. d.size - 1 /\ (n < 0 => Steep(s, d.size))
    BY <1>1, SliceIs
  <1>3. Gets(d, Chosen(x))
    BY <1>2 DEF Gets
  <1>4. o = IF n < 0 THEN Dies(d, "huge")
            ELSE IF ~Gets(d, Chosen(x)) THEN Dies(d, "exit")
            ELSE Return(d, [i \in 1 .. n |-> d.data[src_index(x, i - 1) + 1]])
    BY Zenon DEF getslice
  <1> HIDE DEF x, n
  <1>5. CASE n < 0
    BY <1>2, <1>4, <1>5 DEF Dies, Ends
  <1>6. CASE ~(n < 0)
    <2>1. /\ o.end = "returned" /\ o.arr = d
          /\ o.out = [i \in 1 .. n |-> d.data[src_index(x, i - 1) + 1]]
      BY <1>3, <1>4, <1>6 DEF Return, Ends
    <2> QED BY <2>1, KeptAsIs DEF n, x, SlicedBy
  <1> QED BY <1>5, <1>6

\* What is iterated over is a list of items, or does not end.
LEMMA CollectedIs ==
  ASSUME NEW d, Buffer(d), d.size <= INT64_MAX, NEW from, IsIterable(from), ~NeverEnds(from)
  PROVE  collected(Items(d), from) \in ItemLists
  <1>1. CASE from.k = "list"
    BY <1>1 DEF collected, IsIterable
  <1>2. CASE from.k = "range"
    <2>1. from.range \in RangeObjects /\ ~Endless(from.range)
      BY <1>2 DEF IsIterable, IsRange, NeverEnds
    <2>2. Everything(from.range) \in ItemLists
      BY <2>1, EverythingIs
    <2> QED BY <1>2, <2>2 DEF collected
  <1>3. CASE from.k = "self"
    <2>1. Items(d) \in ItemLists
      BY ItemsAre DEF ItemLists
    <2> QED BY <1>3, <2>1 DEF collected
  <1> QED BY <1>1, <1>2, <1>3 DEF IsIterable

\* A range that does not end has 2^63 - 1 numbers or more, or leaves 64 bits.
Far(r) ==
  \/ r.stop + r.step \notin Int64
  \/ IF r.step > 0 THEN r.stop - r.current >= INT64_MAX * r.step
     ELSE r.stop - r.current <= INT64_MAX * r.step

\* So what is iterated over for ever is such a range.
LEMMA NeverEndsIs ==
  ASSUME NEW from, IsIterable(from), NeverEnds(from)
  PROVE  from.k = "range" /\ Far(from.range)
  <1>1. from.k = "range" /\ IsRange(from.range) /\ Endless(from.range)
    BY DEF NeverEnds, IsIterable
  <1> DEFINE r == from.range
  <1> HIDE DEF r
  <1>2. IsRange(r) /\ Endless(r)
    BY <1>1 DEF r
  <1>3. r.step \in Int /\ r.stop - r.current \in Int /\ INT64_MAX * r.step \in Int
    BY <1>2, Limits DEF IsRange, RangeObjects
  <1>4. SUFFICES ASSUME ~Far(r) PROVE FALSE
    BY <1>1 DEF r
  <1>5. /\ r.stop + r.step \in Int64
        /\ r.step > 0 => r.stop - r.current < INT64_MAX * r.step
        /\ r.step < 0 => r.stop - r.current > INT64_MAX * r.step
    BY ONLY <1>3, <1>4 DEF Far
  <1>6. ~Endless(r)
    BY ONLY <1>2, <1>5, RangeEnds
  <1> QED BY <1>2, <1>6

\* array(iterable) leaves the array that it is given alone.
LEMMA NewKeeps ==
  ASSUME NEW d, Buffer(d), NEW from, IsIterable(from), NEW o, o = new(d, from)
  PROVE  \/ /\ o.end = "returned" /\ Kept(d, o.arr) /\ o.arr = d
            /\ ~NeverEnds(from) /\ o.out = collected(Items(d), from)
         \/ o.end = "endless" /\ from.k = "range" /\ Far(from.range)
  <1>1. CASE NeverEnds(from)
    BY <1>1, NeverEndsIs DEF new, Dies, Ends
  <1>2. CASE ~NeverEnds(from)
    BY <1>2, KeptAsIs DEF new, Return, Ends
  <1> QED BY <1>1, <1>2

\* A slice of a tuple, which is read without a check, reads items of the tuple only.
LEMMA TupleKeeps ==
  ASSUME NEW d, Buffer(d), d.size <= INT64_MAX, NEW from, IsIterable(from), NEW s, IsSlice(s),
         NEW o, o = tuple_getslice(d, from, s)
  PROVE  \/ /\ o.end = "returned" /\ Kept(d, o.arr) /\ o.arr = d /\ ~NeverEnds(from)
            /\ LET tuple == collected(Items(d), from)
               IN o.out = SlicedBy(tuple, slice_indices(s, Len(tuple)))
         \/ o.end = "huge" /\ Steep(s, Len(collected(Items(d), from)))
         \/ o.end = "endless" /\ from.k = "range" /\ Far(from.range)
  <1> DEFINE tuple == collected(Items(d), from)
             x == slice_indices(s, Len(tuple))
             n == slice_len(x)
  <1>1. o = IF NeverEnds(from) THEN Dies(d, "endless")
            ELSE IF n < 0 THEN Dies(d, "huge")
            ELSE IF \E p \in Chosen(x) : p \notin 0 .. Len(tuple) - 1 THEN Dies(d, "wild")
            ELSE Return(d, [i \in 1 .. n |-> tuple[src_index(x, i - 1) + 1]])
    BY Zenon DEF tuple_getslice, tuple_of
  <1>2. CASE NeverEnds(from)
    BY <1>1, <1>2, NeverEndsIs DEF Dies, Ends
  <1>3. CASE ~NeverEnds(from)
    <2>1. tuple \in ItemLists
      BY <1>3, CollectedIs
    <2>2. Len(tuple) \in 0 .. INT64_MAX
      <3> HIDE DEF tuple, Stored
      <3> QED BY <2>1, Limits DEF ItemLists
    <2>3. Chosen(x) \subseteq 0 .. Len(tuple) - 1 /\ (n < 0 => Steep(s, Len(tuple)))
      <3> HIDE DEF tuple
      <3> QED BY <2>2, SliceIs
    <2> HIDE DEF tuple, x, n
    <2>4. CASE n < 0
      BY <1>1, <1>3, <2>3, <2>4 DEF Dies, Ends, tuple
    <2>5. CASE ~(n < 0)
      <3>1. /\ o.end = "returned" /\ o.arr = d
            /\ o.out = [i \in 1 .. n |-> tuple[src_index(x, i - 1) + 1]]
        BY <1>1, <1>3, <2>3, <2>5 DEF Return, Ends
      <3> QED BY <1>3, <3>1, KeptAsIs DEF n, x, tuple, SlicedBy
    <2> QED BY <2>4, <2>5
  <1> QED BY <1>2, <1>3

\* A new buffer has room for what is to be put in it, and nothing in it yet.
LEMMA InitIs ==
  ASSUME NEW n, n \in Nat, NEW e, e = darray_armem_init(n)
  PROVE  /\ e \in DArrays /\ e.size = n /\ n <= Len(e.data)
         /\ \A i \in 1 .. Len(e.data) : e.data[i] = Nowhere
  <1> DEFINE a == n + CHUNK - 1
             k == (a \div CHUNK) * CHUNK
             f == [i \in 1 .. k |-> Nowhere]
  <1>1. CHUNK \in Nat \ {0}
    BY ArrayAssumption
  <1>2. k \in Nat /\ n <= k
    <2>1. a \in Int
      BY <1>1
    <2> HIDE DEF a
    <2> DEFINE q == a \div CHUNK
               r == a % CHUNK
    <2>2. q \in Int /\ r \in 0 .. CHUNK - 1 /\ a = CHUNK * q + r
      BY <1>1, <2>1, Division
    <2> HIDE DEF q, r
    <2>3. CHUNK * q = q * CHUNK /\ q * CHUNK \in Int
      BY <1>1, <2>2
    <2>4. q * CHUNK >= n
      BY <1>1, <2>2, <2>3 DEF a
    <2> QED BY <2>3, <2>4 DEF q
  <1>3. e = [data |-> f, size |-> n]
    <2>1. ~(n < 0)
      OBVIOUS
    <2>2. darray_armem_init(n)
            = [data |-> [i \in 1 .. (IF n < 0 THEN 0 ELSE k) |-> Nowhere], size |-> n]
      BY Zenon DEF darray_armem_init
    <2> HIDE DEF k
    <2> QED BY <2>1, <2>2, Zenon
  <1> HIDE DEF k
  <1>4. f \in Seq(Slots) /\ Len(f) = k
    <2>1. f \in [1 .. k -> Slots]
      <3> HIDE DEF Slots
      <3> QED BY SlotsAre
    <2> HIDE DEF Slots, f
    <2> QED BY <1>2, <2>1
  <1>5. \A i \in 1 .. k : f[i] = Nowhere
    OBVIOUS
  <1> HIDE DEF f
  <1> QED BY <1>2, <1>3, <1>4, <1>5, ArrayOf

\* A new array with the items s.
LEMMA FilledIs ==
  ASSUME NEW s, s \in Seq(Stored), NEW d,
         NEW e, e = [darray_armem_init(Len(s)) EXCEPT !.data = Write(@, 0, s)]
  PROVE  Kept(d, e) /\ e.size = Len(s) /\ \A i \in 1 .. Len(s) : e.data[i] = s[i]
  <1> DEFINE n == Len(s)
             b == darray_armem_init(n)
             f == Write(b.data, 0, s)
  <1>1. n \in Nat /\ \A i \in 1 .. n : s[i] \in Stored
    <2> HIDE DEF Stored
    <2> QED OBVIOUS
  <1>2. e = [b EXCEPT !.data = f]
    OBVIOUS
  <1> HIDE DEF n
  <1>3. /\ b \in DArrays /\ b.size = n /\ n <= Len(b.data)
        /\ \A i \in 1 .. Len(b.data) : b.data[i] = Nowhere
    BY <1>1, InitIs
  <1> HIDE DEF b
  <1>4. b.data \in Seq(Slots) /\ Len(b.data) \in Nat
    BY <1>3, LenProperties DEF DArrays
  <1>5. Written(f, b.data, 0, s)
    BY <1>4, WriteIs
  <1>6. e = [data |-> f, size |-> n]
    <2> HIDE DEF f
    <2> QED BY <1>2, <1>3, Remade
  <1> HIDE DEF f
  <1>7. /\ f \in Seq(Slots) /\ Len(f) = Len(b.data)
        /\ \A i \in 1 .. Len(f) : f[i] = IF i \in 0 + 1 .. 0 + n THEN s[i - 0] ELSE b.data[i]
    BY <1>5 DEF Written, n
  <1>8. ASSUME NEW i \in 1 .. Len(f)
        PROVE  /\ i <= n => f[i] \in Stored
               /\ i > n => \/ f[i] \in Held(d) \cup {Nowhere}
                           \/ i <= Len(d.data) /\ f[i] = d.data[i]
    <2>1. CASE i <= n
      <3>1. i \in 0 + 1 .. 0 + n /\ i - 0 = i /\ i \in 1 .. n
        BY <2>1, <1>1, <1>7, <1>4
      <3> QED BY <3>1, <1>1, <1>7
    <2>2. CASE i > n
      <3>1. i \notin 0 + 1 .. 0 + n
        BY <2>2, <1>1, <1>7, <1>4
      <3> QED BY <2>2, <3>1, <1>3, <1>7, <1>1, <1>4
    <2> QED BY <2>1, <2>2, <1>1, <1>4, <1>7
  <1>9. e.data = f /\ e.size = n /\ n <= Len(f) /\ e \in DArrays
    <2>1. n <= Len(f)
      BY ONLY <1>3, <1>7
    <2>2. [data |-> f, size |-> n] \in DArrays
      BY ONLY <1>1, <1>7, ArrayOf
    <2> HIDE DEF f
    <2> QED BY ONLY <1>6, <2>1, <2>2
  <1>10. Kept(d, e)
    BY <1>1, <1>7, <1>8, <1>9, KeptBy
  <1>11. ASSUME NEW i \in 1 .. n PROVE f[i] = s[i]
    <2>1. i \in 1 .. Len(f) /\ i \in 0 + 1 .. 0 + n /\ i - 0 = i
      BY <1>1, <1>4, <1>7, <1>9
    <2> QED BY <1>7, <2>1
  <1> QED BY <1>9, <1>10, <1>11 DEF n

\* array.of_size fills as many slots as it has made room for; a negative size is a huge one.
LEMMA OfSizeKeeps ==
  ASSUME NEW d, NEW n, n \in Int, NEW o, o = of_size(n)
  PROVE  \/ /\ o.end = "returned" /\ Kept(d, o.arr) /\ o.out = <<>> /\ n \in Nat
            /\ o.arr.size = n /\ \A i \in 1 .. n : o.arr.data[i] = ARGON_NULL
         \/ o.end = "huge" /\ n < 0
  <1>1. CASE n < 0
    BY <1>1 DEF of_size, Dies, Ends
  <1>2. CASE ~(n < 0)
    <2> DEFINE s == [i \in 1 .. n |-> ARGON_NULL]
               e == [darray_armem_init(Len(s)) EXCEPT !.data = Write(@, 0, s)]
    <2>1. s \in Seq(Stored) /\ Len(s) = n
      <3>1. s \in [1 .. n -> Stored]
        BY DEF Stored
      <3> HIDE DEF s, Stored
      <3> QED BY <1>2, <3>1
    <2>2. o = Return(e, <<>>)
      <3>1. o = Return([darray_armem_init(n) EXCEPT !.data = Write(@, 0, s)], <<>>)
        BY <1>2, Zenon DEF of_size
      <3> HIDE DEF s
      <3> QED BY <3>1, <2>1
    <2>3. \A i \in 1 .. n : s[i] = ARGON_NULL
      OBVIOUS
    <2> HIDE DEF s
    <2>4. Kept(d, e) /\ e.size = n /\ \A i \in 1 .. n : e.data[i] = s[i]
      BY <2>1, FilledIs
    <2> HIDE DEF e
    <2> QED BY <1>2, <2>2, <2>3, <2>4 DEF Return, Ends
  <1> QED BY <1>1, <1>2

\* t goes up through all of S.
Rising(t, n, S) ==
  /\ \A p \in S : \E i \in 1 .. n : t[i] = p
  /\ \A i, j \in 1 .. n : i < j => t[i] < t[j]

\* out is what s has at the positions of S, in order.
Picked(s, S, out) ==
  \E n \in Nat : \E t \in [1 .. n -> S] : Rising(t, n, S) /\ out = [i \in 1 .. n |-> s[t[i]]]

\* The first w of the slots f.
Prefix(f, w) == [i \in 1 .. w |-> f[i]]

\* One slot more.
LEMMA PrefixMore ==
  ASSUME NEW f, NEW w \in Nat, NEW g, \A i \in 1 .. w : g[i] = f[i], NEW v, g[w + 1] = v
  PROVE  Prefix(g, w + 1) = Append(Prefix(f, w), v)
  <1> DEFINE V == {f[i] : i \in 1 .. w} \cup {v}
             a == Prefix(f, w)
  <1>1. a \in [1 .. w -> V]
    BY DEF Prefix
  <1>2. a \in Seq(V) /\ Len(a) = w
    <2> HIDE DEF a, V
    <2> QED BY <1>1
  <1>3. v \in V
    OBVIOUS
  <1> DEFINE b == Append(a, v)
  <1>4. /\ b \in Seq(V) /\ Len(b) = w + 1
        /\ \A i \in 1 .. w : b[i] = a[i]
        /\ b[w + 1] = v
    <2> HIDE DEF a, V
    <2> QED BY <1>2, <1>3, AppendProperties
  <1>5. \A i \in 1 .. w : a[i] = g[i]
    BY DEF Prefix
  <1>6. b = [i \in 1 .. w + 1 |-> b[i]]
    <2> HIDE DEF b, V
    <2> QED BY <1>4
  <1> HIDE DEF a, b
  <1>7. \A i \in 1 .. w + 1 : b[i] = g[i]
    BY <1>4, <1>5
  <1> QED BY <1>6, <1>7 DEF Prefix, a, b

\* Nothing is picked of nothing.
LEMMA PickedNone ==
  ASSUME NEW s PROVE Picked(s, {}, <<>>)
  <1> DEFINE t == [i \in 1 .. 0 |-> 0]
  <1>1. t \in [1 .. 0 -> {}] /\ Rising(t, 0, {}) /\ <<>> = [i \in 1 .. 0 |-> s[t[i]]]
    BY DEF Rising
  <1> HIDE DEF t
  <1> QED BY <1>1, 0 \in Nat DEF Picked

\* The next position.
LEMMA PickedMore ==
  ASSUME NEW s, NEW S, S \subseteq Int, NEW out, Picked(s, S, out),
         NEW p \in Int, \A q \in S : q < p, NEW T, T = S \cup {p}
  PROVE  Picked(s, T, Append(out, s[p]))
  <1>0. PICK n \in Nat :
          \E t \in [1 .. n -> S] : Rising(t, n, S) /\ out = [i \in 1 .. n |-> s[t[i]]]
    BY DEF Picked
  <1>1. PICK t \in [1 .. n -> S] : Rising(t, n, S) /\ out = [i \in 1 .. n |-> s[t[i]]]
    BY <1>0
  <1> DEFINE u == [i \in 1 .. n + 1 |-> IF i = n + 1 THEN p ELSE t[i]]
             a == [i \in 1 .. n |-> s[t[i]]]
             b == [i \in 1 .. n + 1 |-> s[u[i]]]
  <1>2. \A i \in 1 .. n : i \in 1 .. n + 1 /\ i # n + 1
    OBVIOUS
  <1>3. u \in [1 .. n + 1 -> T] /\ u[n + 1] = p /\ \A i \in 1 .. n : u[i] = t[i]
    BY <1>2
  <1>4. Rising(u, n + 1, T)
    <2>1. ASSUME NEW q \in T PROVE \E i \in 1 .. n + 1 : u[i] = q
      <3>1. CASE q = p
        BY <1>3, <3>1
      <3>2. CASE q # p
        <4>1. PICK i \in 1 .. n : t[i] = q
          BY <1>1, <3>2 DEF Rising
        <4> QED BY <1>2, <1>3, <4>1
      <3> QED BY <3>1, <3>2
    <2>2. ASSUME NEW i \in 1 .. n + 1, NEW j \in 1 .. n + 1, i < j PROVE u[i] < u[j]
      <3>1. i \in 1 .. n
        BY <2>2
      <3>2. CASE j = n + 1
        BY <1>3, <3>1, <3>2
      <3>3. CASE j # n + 1
        <4>1. j \in 1 .. n
          BY <3>3
        <4>2. t[i] < t[j]
          BY <1>1, <2>2, <3>1, <4>1 DEF Rising
        <4> QED BY <1>3, <3>1, <4>1, <4>2
      <3> QED BY <3>2, <3>3
    <2> HIDE DEF u
    <2> QED BY <2>1, <2>2 DEF Rising
  <1> HIDE DEF u
  <1>5. /\ a = Prefix(a, n) /\ b = Prefix(b, n + 1) /\ b[n + 1] = s[p]
        /\ \A i \in 1 .. n : b[i] = a[i]
    BY <1>2, <1>3 DEF Prefix
  <1>6. b = Append(a, s[p])
    <2> HIDE DEF a, b
    <2> QED BY <1>5, PrefixMore
  <1>7. n + 1 \in Nat /\ Append(out, s[p]) = b
    <2> HIDE DEF b
    <2>1. n + 1 \in Nat
      BY ONLY n \in Nat
    <2> QED BY <1>1, <1>6, <2>1, Zenon
  <1>8. \E v \in [1 .. n + 1 -> T] :
          Rising(v, n + 1, T) /\ Append(out, s[p]) = [i \in 1 .. n + 1 |-> s[v[i]]]
    BY <1>3, <1>4, <1>7
  <1> QED BY <1>7, <1>8 DEF Picked

\* It does not matter what s has elsewhere.
LEMMA PickedAlike ==
  ASSUME NEW s, NEW S, NEW out, Picked(s, S, out), NEW r, \A p \in S : r[p] = s[p]
  PROVE  Picked(r, S, out)
  <1>0. PICK n \in Nat :
          \E t \in [1 .. n -> S] : Rising(t, n, S) /\ out = [i \in 1 .. n |-> s[t[i]]]
    BY DEF Picked
  <1>1. PICK t \in [1 .. n -> S] : Rising(t, n, S) /\ out = [i \in 1 .. n |-> s[t[i]]]
    BY <1>0
  <1>2. [i \in 1 .. n |-> s[t[i]]] = [i \in 1 .. n |-> r[t[i]]]
    OBVIOUS
  <1> QED BY <1>1, <1>2 DEF Picked

\* The slots up to r that are not NULL.
Filled(data, r) == {i \in 1 .. r : data[i] # Nowhere}

\* What is left when the slots that are NULL have been squeezed out: the items, and above them what
\* was there before.
SqueezedTo(e, b) ==
  /\ Picked(b.data, Filled(b.data, b.size), Prefix(e.data, e.size))
  /\ e \in DArrays /\ Len(e.data) = Len(b.data) /\ e.size <= Len(e.data)
  /\ \A i \in 1 .. Len(e.data) : /\ i <= e.size => e.data[i] \in Stored
                                 /\ i > e.size => e.data[i] = b.data[i]

\* Squeezing writes below what it reads, so what is left are the items that were not NULL.
LEMMA SqueezedIs ==
  ASSUME NEW b, b \in DArrays, b.size <= Len(b.data)
  PROVE  SqueezedTo(Squeezed(b), b)
  <1> DEFINE N == Len(b.data)
             Down == [s \in [data : Seq(Slots), write : Nat, read : Nat] |->
                 IF s.read >= b.size THEN s
                 ELSE IF s.data[s.read + 1] = Nowhere THEN [s EXCEPT !.read = @ + 1]
                 ELSE [data |-> [s.data EXCEPT ![s.write + 1] = s.data[s.read + 1]],
                       write |-> s.write + 1, read |-> s.read + 1]]
             first == [data |-> b.data, write |-> 0, read |-> 0]
             Upto(f, w) == \A i \in 1 .. N : /\ i <= w => f[i] \in Stored
                                             /\ i > w => f[i] = b.data[i]
             Has_(r, f, w) == Picked(b.data, Filled(b.data, r), Prefix(f, w))
             S == {s \in [data : Seq(Slots), write : Nat, read : Nat] :
                     /\ Len(s.data) = N /\ s.write <= s.read /\ s.read <= b.size
                     /\ Upto(s.data, s.write) /\ Has_(s.read, s.data, s.write)}
             end == Iterate(Down, first, b.size)
  <1>1. b.data \in Seq(Slots) /\ b.size \in Nat /\ N \in Nat /\ b.size <= N
    BY LenProperties DEF DArrays
  <1>2. Squeezed(b) = [data |-> end.data, size |-> end.write]
    BY Zenon DEF Squeezed
  <1>3. first \in S
    <2>1. first \in [data : Seq(Slots), write : Nat, read : Nat]
      <3> HIDE DEF Slots
      <3> QED BY <1>1
    <2> HIDE DEF N
    <2>2. Upto(first.data, 0)
      BY <1>1
    <2>3. Has_(0, first.data, 0)
      <3>1. Filled(b.data, 0) = {} /\ Prefix(first.data, 0) = <<>>
        BY DEF Filled, Prefix
      <3> QED BY <3>1, PickedNone
    <2> HIDE DEF Upto, Has_
    <2> QED BY <1>1, <2>1, <2>2, <2>3 DEF N
  <1>4. ASSUME NEW s, s \in S PROVE Down[s] \in S
    <2> DEFINE f == s.data
               w == s.write
               r == s.read
    <2>1. /\ f \in Seq(Slots) /\ w \in Nat /\ r \in Nat /\ Len(f) = N /\ w <= r /\ r <= b.size
          /\ Upto(f, w) /\ Has_(r, f, w) /\ s \in [data : Seq(Slots), write : Nat, read : Nat]
      <3> HIDE DEF Upto, Has_
      <3> QED BY <1>4
    <2>2. s = [data |-> f, write |-> w, read |-> r]
      BY <2>1
    <2>3. Down[s] = IF r >= b.size THEN s
                    ELSE IF f[r + 1] = Nowhere THEN [s EXCEPT !.read = @ + 1]
                    ELSE [data |-> [f EXCEPT ![w + 1] = f[r + 1]], write |-> w + 1, read |-> r + 1]
      BY <2>1, Zenon
    <2> HIDE DEF f, w, r, Down
    <2>4. CASE r >= b.size
      BY <1>4, <2>3, <2>4
    <2>5. CASE ~(r >= b.size) /\ f[r + 1] = Nowhere
      <3> DEFINE t == [data |-> f, write |-> w, read |-> r + 1]
      <3>1. Down[s] = t
        BY <2>2, <2>3, <2>5
      <3>2. r + 1 \in Nat /\ r + 1 <= b.size /\ w <= r + 1
        BY <2>1, <2>5, <1>1
      <3>3. t \in [data : Seq(Slots), write : Nat, read : Nat]
        <4> HIDE DEF Slots
        <4> QED BY <2>1, <3>2
      <3>4. Has_(r + 1, f, w)
        <4>1. r + 1 \in 1 .. N /\ r + 1 > w
          BY <1>1, <2>1, <3>2
        <4>2. b.data[r + 1] = Nowhere
          BY <2>1, <2>5, <4>1
        <4>3. Filled(b.data, r + 1) = Filled(b.data, r)
          BY <2>1, <4>2 DEF Filled
        <4> QED BY <2>1, <4>3
      <3>5. t \in S
        <4> HIDE DEF Upto, N, Has_
        <4> QED BY <2>1, <3>2, <3>3, <3>4
      <3> QED BY <3>1, <3>5
    <2>6. CASE ~(r >= b.size) /\ f[r + 1] # Nowhere
      <3> DEFINE g == [f EXCEPT ![w + 1] = f[r + 1]]
                 t == [data |-> g, write |-> w + 1, read |-> r + 1]
      <3>1. Down[s] = t
        BY <2>3, <2>6
      <3>2. r + 1 \in Nat /\ r + 1 <= b.size /\ w + 1 <= r + 1 /\ w + 1 \in Nat
            /\ r + 1 \in 1 .. N /\ w + 1 \in 1 .. N
        BY <2>1, <2>6, <1>1
      <3>3. f[r + 1] \in Slots /\ f[r + 1] \in Stored
        <4>1. f[r + 1] \in Slots
          <5> HIDE DEF Slots, N
          <5> QED BY <2>1, <3>2
        <4> QED BY <4>1, <2>6 DEF Slots
      <3>4. /\ g \in Seq(Slots) /\ Len(g) = N
            /\ \A i \in 1 .. N : g[i] = IF i = w + 1 THEN f[r + 1] ELSE f[i]
        <4> HIDE DEF Slots, N
        <4> QED BY <2>1, <3>2, <3>3
      <3> HIDE DEF g
      <3>5. Upto(g, w + 1)
        <4> SUFFICES ASSUME NEW i \in 1 .. N
                     PROVE  /\ i <= w + 1 => g[i] \in Stored
                            /\ i > w + 1 => g[i] = b.data[i]
          OBVIOUS
        <4>1. i \in Int
          OBVIOUS
        <4>2. (i <= w => f[i] \in Stored) /\ (i > w => f[i] = b.data[i])
          BY <2>1
        <4>3. g[i] = IF i = w + 1 THEN f[r + 1] ELSE f[i]
          BY <3>4
        <4> QED BY ONLY <4>1, <4>2, <4>3, <3>3, <2>1
      <3>6. t \in [data : Seq(Slots), write : Nat, read : Nat]
        <4> HIDE DEF Slots
        <4> QED BY <3>2, <3>4
      <3>7. Has_(r + 1, g, w + 1)
        <4> DEFINE q == r + 1
                   v == f[q]
        <4>1. q \in 1 .. N /\ q > w /\ q \in Int
          BY <1>1, <2>1, <3>2
        <4>2. b.data[q] = v /\ v # Nowhere
          BY <2>1, <2>6, <4>1
        <4>3. Filled(b.data, q) = Filled(b.data, r) \cup {q}
          BY <2>1, <4>2 DEF Filled
        <4>4. Filled(b.data, r) \subseteq Int /\ \A k \in Filled(b.data, r) : k < q
          BY <2>1 DEF Filled
        <4>5. Prefix(g, w + 1) = Append(Prefix(f, w), v)
          <5>1. w + 1 \in 1 .. N /\ \A i \in 1 .. w : i \in 1 .. N /\ i # w + 1
            BY <1>1, <2>1, <3>2
          <5>2. g[w + 1] = v /\ \A i \in 1 .. w : g[i] = f[i]
            BY <3>4, <5>1
          <5> HIDE DEF v
          <5> QED BY <2>1, <5>2, PrefixMore
        <4> HIDE DEF q, v
        <4>6. Picked(b.data, Filled(b.data, q), Append(Prefix(f, w), b.data[q]))
          BY <2>1, <4>1, <4>3, <4>4, PickedMore
        <4> QED BY <4>2, <4>5, <4>6 DEF q
      <3>8. t \in S
        <4> HIDE DEF Upto, N, Has_
        <4> QED BY <3>2, <3>4, <3>5, <3>6, <3>7
      <3> QED BY <3>1, <3>8
    <2> QED BY <2>4, <2>5, <2>6
  <1>5. end \in S
    <2> HIDE DEF S, Down, first
    <2> QED BY <1>1, <1>3, <1>4, Rounding
  <1>8. end.read = b.size
    <2> DEFINE left == [s \in S |-> b.size - s.read]
    <2>1. \A s \in S : s.read \in Nat /\ s.read <= b.size
      OBVIOUS
    <2>2. left \in [S -> Nat] /\ left[first] <= b.size /\ \A s \in S : left[s] = b.size - s.read
      <3>1. first.read = 0
        OBVIOUS
      <3> HIDE DEF S, first
      <3> QED BY <1>1, <1>3, <2>1, <3>1
    <2>3. ASSUME NEW s \in S PROVE left[Down[s]] < left[s] \/ left[Down[s]] = 0
      <3>1. s \in [data : Seq(Slots), write : Nat, read : Nat] /\ Down[s] \in S
        BY <1>4
      <3>2. s.read >= b.size => Down[s] = s
        BY <3>1
      <3>3. s.read < b.size => Down[s].read = s.read + 1
        BY <1>1, <3>1, <2>1
      <3> HIDE DEF S, Down, left
      <3> QED BY <1>1, <2>1, <2>2, <3>1, <3>2, <3>3
    <2> HIDE DEF S, Down, first, left
    <2>4. left[end] = 0
      <3>1. /\ first \in S /\ left \in [S -> Nat] /\ b.size \in Nat /\ left[first] <= b.size
            /\ \A s \in S : Down[s] \in S
            /\ \A s \in S : left[Down[s]] < left[s] \/ left[Down[s]] = 0
        BY <1>1, <1>3, <1>4, <2>2, <2>3
      <3> QED BY ONLY <3>1, RunsOut
    <2> QED BY <1>1, <1>5, <2>1, <2>2, <2>4
  <1> HIDE DEF end
  <1>6. /\ end.data \in Seq(Slots) /\ Len(end.data) = N /\ end.write \in Nat /\ end.write <= N
        /\ Upto(end.data, end.write) /\ Has_(b.size, end.data, end.write)
    <2>1. /\ end.data \in Seq(Slots) /\ Len(end.data) = N /\ end.write \in Nat /\ end.read \in Nat
          /\ end.write <= end.read /\ end.read <= b.size /\ Upto(end.data, end.write)
          /\ Has_(b.size, end.data, end.write)
      <3> HIDE DEF Upto, Has_
      <3> QED BY <1>5, <1>8
    <2> QED BY ONLY <1>1, <2>1
  <1>7. [data |-> end.data, size |-> end.write] \in DArrays
    BY <1>6, ArrayOf
  <1> QED BY <1>2, <1>6, <1>7 DEF SqueezedTo

\* The array without what a slice names: closed over it, or picked.
Deleted(d, x, e) ==
  LET n == slice_len(x)
      start == IF x.step = 1 THEN x.start ELSE x.stop + 1
  IN \/ n = 0 /\ e = d
     \/ n \in Nat /\ n # 0 /\ x.step \in {1, -1} /\ Closed(d, start, n, e)
     \/ /\ n # 0 /\ x.step \notin {1, -1}
        /\ Picked(d.data, {i \in 1 .. d.size : i - 1 \notin Chosen(x)}, Prefix(e.data, e.size))

\* del of a slice, either way: by moving the tail or by squeezing.
LEMMA DelsliceKeeps ==
  ASSUME NEW d, Buffer(d), d.size <= INT64_MAX, NEW s, IsSlice(s), NEW o, o = delslice(d, s)
  PROVE  /\ o.end = "returned" /\ Kept(d, o.arr) /\ o.out = <<>>
         /\ Deleted(d, slice_indices(s, d.size), o.arr)
  <1> DEFINE x == slice_indices(s, d.size)
             n == slice_len(x)
             start == IF x.step = 1 THEN x.start ELSE x.stop + 1
             marked == [i \in DOMAIN d.data |-> IF i - 1 \in Chosen(x) THEN Nowhere ELSE d.data[i]]
             b == [d EXCEPT !.data = marked]
             c == [data |-> Move(d.data, start, start + n, d.size - n - start), size |-> d.size - n]
  <1>1. d.size \in 0 .. INT64_MAX
    BY BufferHas, Limits
  <1>2. Measured(x, d.size) /\ Chosen(x) \subseteq 0 .. d.size - 1
    BY <1>1, SliceIs
  <1>3. Gets(d, Chosen(x))
    BY <1>2 DEF Gets
  <1>4. o = IF n = 0 THEN Return(d, <<>>)
            ELSE IF x.step \in {1, -1} THEN Return(c, <<>>)
            ELSE IF ~Gets(d, Chosen(x)) THEN Dies(d, "exit")
            ELSE Return(Squeezed(b), <<>>)
    BY Zenon DEF delslice
  <1> HIDE DEF x
  <1>0. slice_indices(s, d.size) = x
    BY DEF x
  <1>5. CASE n = 0
    BY <1>0, <1>4, <1>5, KeptAsIs DEF Return, Ends, Deleted
  <1>6. CASE n # 0 /\ x.step \in {1, -1}
    <2>1. n \in Nat /\ start \in Nat /\ start + n <= d.size
      <3>1. CASE x.step = 1
        BY <1>2, <1>6, <3>1 DEF Measured
      <3>2. CASE x.step # 1
        BY <1>2, <1>6, <3>2 DEF Measured
      <3> QED BY <3>1, <3>2
    <2>2. o.end = "returned" /\ o.arr = c /\ o.out = <<>>
      BY <1>4, <1>6 DEF Return, Ends
    <2>3. Kept(d, c) /\ Closed(d, start, n, c)
      <3> HIDE DEF n, start
      <3> QED BY <2>1, CloseKeeps
    <2> HIDE DEF c
    <2>4. Deleted(d, x, c)
      BY <1>6, <2>1, <2>3 DEF Deleted
    <2> QED BY <1>0, <2>2, <2>3, <2>4
  <1>7. CASE n # 0 /\ x.step \notin {1, -1}
    <2>1. o.end = "returned" /\ o.arr = Squeezed(b) /\ o.out = <<>>
      BY <1>3, <1>4, <1>7 DEF Return, Ends
    <2>2. /\ d.data \in Seq(Slots) /\ Len(d.data) \in Nat /\ DOMAIN d.data = 1 .. Len(d.data)
          /\ d.size \in Nat /\ d.size <= Len(d.data) /\ d \in DArrays
      <3> HIDE DEF Slots
      <3> QED BY BufferHas
    <2>3. marked \in Seq(Slots) /\ Len(marked) = Len(d.data)
      <3>1. marked \in [1 .. Len(d.data) -> Slots]
        <4> HIDE DEF Slots
        <4> QED BY <2>2, SlotsAre
      <3> HIDE DEF Slots, marked
      <3> QED BY <2>2, <3>1
    <2>4. \A i \in 1 .. Len(d.data) : marked[i] \in {Nowhere, d.data[i]}
      BY <2>2
    <2>5. b = [data |-> marked, size |-> d.size]
      <3> HIDE DEF marked
      <3> QED BY <2>2, Remade
    <2> HIDE DEF marked
    <2> DEFINE T == {i \in 1 .. d.size : i - 1 \notin Chosen(x)}
    <2>11. Filled(marked, d.size) = T /\ \A i \in T : marked[i] = d.data[i]
      <3>1. \A i \in 1 .. d.size : d.data[i] # Nowhere /\ i \in DOMAIN d.data
        BY <2>2, BufferHas, SlotsAre
      <3> QED BY <3>1 DEF Filled, marked
    <2>6. b \in DArrays /\ b.size <= Len(b.data) /\ b.data = marked /\ b.size = d.size
      BY <2>2, <2>3, <2>5, ArrayOf
    <2> DEFINE e == Squeezed(b)
    <2> HIDE DEF b
    <2>7. SqueezedTo(e, b)
      BY <2>6, SqueezedIs
    <2> HIDE DEF e
    <2>8. /\ e \in DArrays /\ e.data \in Seq(Slots) /\ Len(e.data) = Len(d.data) /\ e.size \in Nat
          /\ e.size <= Len(e.data)
      BY <2>3, <2>6, <2>7 DEF SqueezedTo, DArrays
    <2>9. ASSUME NEW i \in 1 .. Len(e.data)
          PROVE  /\ i <= e.size => e.data[i] \in Stored
                 /\ i > e.size => \/ e.data[i] \in Held(d) \cup {Nowhere}
                                  \/ i <= Len(d.data) /\ e.data[i] = d.data[i]
      <3>1. (i <= e.size => e.data[i] \in Stored) /\ (i > e.size => e.data[i] = marked[i])
        BY <2>6, <2>7 DEF SqueezedTo
      <3>2. i \in Nat /\ i <= Len(d.data) /\ marked[i] \in {Nowhere, d.data[i]}
        BY <2>2, <2>4, <2>8
      <3> QED BY <3>1, <3>2
    <2>10. Kept(d, e)
      BY <2>8, <2>9, KeptBy
    <2>12. Picked(d.data, T, Prefix(e.data, e.size))
      <3>1. Picked(marked, T, Prefix(e.data, e.size))
        BY <2>6, <2>7, <2>11 DEF SqueezedTo
      <3> QED BY <2>11, <3>1, PickedAlike
    <2>13. Deleted(d, x, e)
      BY <1>7, <2>12 DEF Deleted
    <2> QED BY <1>0, <2>1, <2>10, <2>13 DEF e
  <1> QED BY <1>5, <1>6, <1>7

\* One more at the end of an array.
Pushed(e, d, v) ==
  /\ e \in DArrays /\ e.size = d.size + 1 /\ e.size <= Len(e.data) /\ Len(d.data) <= Len(e.data)
  /\ \A i \in 1 .. Len(e.data) :
       e.data[i] = IF i = d.size + 1 THEN v ELSE IF i <= Len(d.data) THEN d.data[i] ELSE Nowhere

\* darray_armem_insert makes room when there is none, and writes the new item there.
LEMMA PushIs ==
  ASSUME NEW d, d \in DArrays, NEW v, v \in Stored
  PROVE  Pushed(darray_armem_insert(d, v), d, v)
  <1> DEFINE n == d.size
             N == Len(d.data)
             big == IF n >= N THEN darray_armem_resize(d, n + 1) ELSE [d EXCEPT !.size = @ + 1]
             f == [big.data EXCEPT ![n + 1] = v]
             e == [big EXCEPT !.data = f]
  <1>1. d.data \in Seq(Slots) /\ n \in Nat /\ N \in Nat /\ v \in Slots
    BY SlotsAre, LenProperties DEF DArrays
  <1>2. darray_armem_insert(d, v) = e
    BY Zenon DEF darray_armem_insert
  <1> DEFINE M == IF n >= N THEN 2 * (n + 1) ELSE N
  <1>3. /\ big \in DArrays /\ big.size = n + 1 /\ Len(big.data) = M
        /\ \A i \in 1 .. M : big.data[i] = IF i <= N THEN d.data[i] ELSE Nowhere
    <2>1. CASE n >= N
      <3> DEFINE k == n + 1
                 r == darray_armem_resize(d, k)
      <3>1. k \in Nat \ {0}
        BY <1>1
      <3>2. big = r
        BY <2>1
      <3> HIDE DEF k, big
      <3>3. /\ r \in DArrays /\ r.size = k /\ Len(r.data) = 2 * k
            /\ \A i \in 1 .. 2 * k : r.data[i] = IF i <= Len(d.data) THEN d.data[i] ELSE Nowhere
        BY ONLY <3>1, d \in DArrays, ResizeIs
      <3> HIDE DEF r
      <3> QED BY <2>1, <3>2, <3>3 DEF k
    <2>2. CASE ~(n >= N)
      <3>1. big = [data |-> d.data, size |-> n + 1]
        BY <2>2 DEF DArrays
      <3>2. [data |-> d.data, size |-> n + 1] \in DArrays
        BY <1>1, ArrayOf
      <3> QED BY <2>2, <3>1, <3>2
    <2> QED BY <2>1, <2>2
  <1>4. M \in Nat /\ n + 1 \in 1 .. M /\ N <= M
    BY <1>1
  <1> HIDE DEF big, M
  <1>5. /\ f \in Seq(Slots) /\ Len(f) = M
        /\ \A i \in 1 .. M : f[i] = IF i = n + 1 THEN v ELSE big.data[i]
    <2>1. big.data \in Seq(Slots)
      BY <1>3 DEF DArrays
    <2> HIDE DEF Slots
    <2> QED BY <1>1, <1>3, <1>4, <2>1
  <1> HIDE DEF f
  <1>6. e = [data |-> f, size |-> n + 1]
    BY <1>3, Remade
  <1>7. [data |-> f, size |-> n + 1] \in DArrays
    BY <1>1, <1>5, ArrayOf
  <1> HIDE DEF e
  <1>8. e.data = f /\ e.size = n + 1 /\ e \in DArrays
    BY <1>6, <1>7
  <1>9. \A i \in 1 .. M : f[i] = IF i = n + 1 THEN v ELSE IF i <= N THEN d.data[i] ELSE Nowhere
    BY <1>3, <1>5
  <1>10. n + 1 <= Len(f) /\ N <= Len(f)
    BY <1>4, <1>5
  <1>11. Pushed(e, d, v)
    BY <1>5, <1>8, <1>9, <1>10 DEF Pushed
  <1> QED BY <1>2, <1>11

\* k more at the end, all null.
Grown(e, d, k) ==
  /\ e \in DArrays /\ e.size = d.size + k /\ e.size <= Len(e.data) /\ Len(d.data) <= Len(e.data)
  /\ \A i \in 1 .. Len(e.data) :
       e.data[i] = IF i \in d.size + 1 .. d.size + k THEN ARGON_NULL
                   ELSE IF i <= Len(d.data) THEN d.data[i] ELSE Nowhere

\* So k of them in a row add k.
LEMMA GrowIs ==
  ASSUME NEW d, Buffer(d), NEW k, k \in Nat
  PROVE  Grown(Iterate([e \in DArrays |-> darray_armem_insert(e, ARGON_NULL)], d, k), d, k)
  <1> DEFINE push == [e \in DArrays |-> darray_armem_insert(e, ARGON_NULL)]
             G(n) == Iterate(push, d, n)
             T == {n \in Nat : Grown(G(n), d, n)}
             N == Len(d.data)
  <1>1. d \in DArrays /\ d.size \in Nat /\ N \in Nat /\ d.size <= N
    BY BufferHas
  <1>2. \A e \in DArrays : Pushed(push[e], e, ARGON_NULL)
    BY PushIs DEF Stored
  <1>3. \A e \in DArrays : push[e] \in DArrays
    BY <1>2 DEF Pushed
  <1> HIDE DEF push
  <1>4. G(0) = d /\ \A n \in Nat : G(n) \in DArrays /\ G(n + 1) = push[G(n)]
    <2>1. /\ Iterate(push, d, 0) = d
          /\ \A n \in Nat : /\ Iterate(push, d, n) \in DArrays
                            /\ Iterate(push, d, n + 1) = push[Iterate(push, d, n)]
      <3> HIDE DEF G, T, N
      <3> QED BY ONLY <1>1, <1>3, Rounding
    <2> QED BY <2>1
  <1> HIDE DEF G
  <1>5. 0 \in T
    <2>1. \A i \in 1 .. N : i \notin d.size + 1 .. d.size + 0 /\ i <= N
      BY <1>1
    <2>2. d.size = d.size + 0 /\ N <= N
      BY <1>1
    <2>3. Grown(d, d, 0)
      BY <1>1, <2>1, <2>2 DEF Grown
    <2> QED BY <1>4, <2>3
  <1>6. ASSUME NEW n \in Nat, n \in T PROVE n + 1 \in T
    <2> DEFINE a == G(n)
               b == G(n + 1)
    <2>1. Grown(a, d, n) /\ Pushed(b, a, ARGON_NULL)
      BY <1>2, <1>4, <1>6
    <2> HIDE DEF a, b
    <2>2. /\ a \in DArrays /\ a.size = d.size + n /\ a.size <= Len(a.data) /\ N <= Len(a.data)
          /\ \A i \in 1 .. Len(a.data) :
               a.data[i] = IF i \in d.size + 1 .. d.size + n THEN ARGON_NULL
                           ELSE IF i <= N THEN d.data[i] ELSE Nowhere
      BY <2>1 DEF Grown
    <2>3. /\ b \in DArrays /\ b.size = a.size + 1 /\ b.size <= Len(b.data)
          /\ Len(a.data) <= Len(b.data)
          /\ \A i \in 1 .. Len(b.data) :
               b.data[i] = IF i = a.size + 1 THEN ARGON_NULL
                           ELSE IF i <= Len(a.data) THEN a.data[i] ELSE Nowhere
      BY <2>1 DEF Pushed
    <2>4. Len(a.data) \in Nat /\ Len(b.data) \in Nat
      BY <2>2, <2>3, LenProperties DEF DArrays
    <2>5. ASSUME NEW i \in 1 .. Len(b.data)
          PROVE  b.data[i] = IF i \in d.size + 1 .. d.size + (n + 1) THEN ARGON_NULL
                             ELSE IF i <= N THEN d.data[i] ELSE Nowhere
      <3>1. i \in Nat /\ i >= 1
        BY <2>4
      <3>2. CASE i = a.size + 1
        <4>1. i \in d.size + 1 .. d.size + (n + 1)
          BY ONLY <1>1, <1>6, <2>2, <3>1, <3>2
        <4> QED BY <2>3, <3>2, <4>1
      <3>3. CASE i # a.size + 1 /\ i <= Len(a.data)
        <4>1. i \in 1 .. Len(a.data)
          BY <2>4, <3>1, <3>3
        <4>2. i \in d.size + 1 .. d.size + (n + 1) <=> i \in d.size + 1 .. d.size + n
          BY ONLY <1>1, <1>6, <2>2, <3>1, <3>3
        <4> QED BY <2>2, <2>3, <3>3, <4>1, <4>2
      <3>4. CASE i # a.size + 1 /\ ~(i <= Len(a.data))
        <4>1. i \notin d.size + 1 .. d.size + (n + 1) /\ ~(i <= N)
          <5>1. i > d.size + n /\ i # d.size + n + 1 /\ i > N
            BY ONLY <1>1, <1>6, <2>2, <2>4, <3>1, <3>4
          <5> QED BY ONLY <1>1, <1>6, <3>1, <5>1
        <4> QED BY <2>3, <3>4, <4>1
      <3> QED BY <3>2, <3>3, <3>4
    <2>6. b.size = d.size + (n + 1) /\ N <= Len(b.data)
      BY ONLY <1>1, <1>6, <2>2, <2>3, <2>4
    <2>7. Grown(b, d, n + 1)
      BY <2>3, <2>5, <2>6 DEF Grown
    <2> QED BY <2>7 DEF b
  <1>7. k \in T
    <2> HIDE DEF T
    <2> QED BY <1>5, <1>6, Induction
  <1> QED BY <1>7 DEF G, push

\* Whether n indices x name the slot p, and then the item that goes there.
Names(x, n, p) == \E i \in 0 .. n - 1 : src_index(x, i) + 1 = p
Renewed(x, n, items, p) == items[1 + CHOOSE i \in 0 .. n - 1 : src_index(x, i) + 1 = p]

\* An array with items in the place of n that indices x name.
Assigned(d, x, n, items, e) ==
  \/ /\ x.step # 1 /\ Len(items) = n /\ e.size = d.size
     /\ \A p \in 1 .. d.size : e.data[p] = IF Names(x, n, p) THEN Renewed(x, n, items, p)
                                          ELSE d.data[p]
  \/ /\ x.step = 1 /\ e.size = d.size - n + Len(items)
     /\ x.start + n <= d.size =>
          \A p \in 1 .. e.size : e.data[p] = IF p <= x.start THEN d.data[p]
                                           ELSE IF p <= x.start + Len(items) THEN items[p - x.start]
                                           ELSE d.data[p - Len(items) + n]

\* Replacing the items that indices name, which were computed for an array of m.
LEMMA AssignKeeps ==
  ASSUME NEW d, Buffer(d), NEW m, m \in 0 .. INT64_MAX, NEW x, Normalised(x, m),
         NEW items, items \in Seq(Stored), NEW o, o = assign(d, x, slice_len(x), items)
  PROVE  \/ /\ o.end = "returned" /\ Kept(d, o.arr) /\ o.out = items
            /\ Assigned(d, x, slice_len(x), items, o.arr)
         \/ /\ o.end = "thrown" /\ Kept(d, o.arr) /\ o.arr = d
            /\ x.step # 1 /\ Len(items) # slice_len(x)
         \/ o.end \in {"exit", "huge"} /\ d.size < m
  <1> DEFINE n == slice_len(x)
             len == Len(items)
             size == d.size - n + len
             grown == IF len > n
                      THEN Iterate([e \in DArrays |-> darray_armem_insert(e, ARGON_NULL)], d,
                                   len - n)
                      ELSE d
             moved == [i \in DOMAIN grown.data |->
                         IF i > x.start + len /\ i <= size THEN grown.data[i - len + n]
                         ELSE grown.data[i]]
             Is(i, p) == src_index(x, i) + 1 = p
             set == [p \in DOMAIN d.data |->
                       IF \E i \in 0 .. n - 1 : Is(i, p)
                       THEN items[1 + CHOOSE i \in 0 .. n - 1 : Is(i, p)] ELSE d.data[p]]
             f == Write(moved, x.start, items)
             N == Len(d.data)
  <1>1. /\ d \in DArrays /\ d.data \in Seq(Slots) /\ d.size \in Nat /\ N \in Nat /\ d.size <= N
        /\ \A i \in 1 .. d.size : d.data[i] \in Stored
    BY BufferHas
  <1>2. /\ n \in Int /\ m \in Nat
        /\ \A i \in 0 .. n - 1 : src_index(x, i) \in 0 .. m - 1
        /\ x.step = 1 => n \in 0 .. m /\ x.start \in 0 .. m /\ x.start + n <= m
    <2>1. Measured(x, m)
      BY SliceLen
    <2>2. m \in Nat
      BY Limits
    <2> HIDE DEF len
    <2> QED BY <2>1, <2>2 DEF Measured
  <1>3. len \in Nat /\ \A i \in 1 .. len : items[i] \in Stored
    <2> HIDE DEF Stored
    <2> QED OBVIOUS
  <1>4. o = IF x.step # 1
            THEN IF len # n THEN Throw(d)
                 ELSE IF ~Gets(d, Chosen(x)) THEN Dies(d, "exit")
                 ELSE Return([d EXCEPT !.data = set], items)
            ELSE IF size < 0 THEN Dies(d, "huge")
            ELSE IF len > 0 /\ x.start + len > size THEN Dies(d, "exit")
            ELSE Return([data |-> f, size |-> size], items)
    BY Zenon DEF assign
  <1> HIDE DEF n, len, size, f, moved, grown, set
  <1>0. slice_len(x) = n /\ Len(items) = len
    BY DEF n, len
  <1>5. CASE x.step # 1 /\ len # n
    BY <1>0, <1>4, <1>5, KeptAsIs DEF Throw, Ends
  <1>6. CASE x.step # 1 /\ len = n /\ ~Gets(d, Chosen(x))
    <2>1. PICK p \in Chosen(x) : p \notin 0 .. d.size - 1
      BY <1>6 DEF Gets
    <2>2. p \in 0 .. m - 1
      BY <1>2, <2>1 DEF Chosen, n
    <2>3. d.size < m
      BY <1>1, <1>2, <2>1, <2>2
    <2> QED BY <1>4, <1>6, <2>3 DEF Dies, Ends
  <1>7. CASE x.step # 1 /\ len = n /\ Gets(d, Chosen(x))
    <2> DEFINE e == [data |-> set, size |-> d.size]
    <2>1. o.end = "returned" /\ o.arr = e /\ o.out = items
      <3>1. [d EXCEPT !.data = set] = e
        BY <1>1, Remade
      <3> HIDE DEF e
      <3> QED BY <1>4, <1>7, <3>1 DEF Return, Ends
    <2>2. ASSUME NEW p \in 1 .. N
          PROVE  \/ set[p] \in Stored /\ p <= d.size
                 \/ set[p] = d.data[p]
      <3>1. DOMAIN d.data = 1 .. N
        <4> HIDE DEF Slots
        <4> QED BY <1>1
      <3>2. set[p] = IF \E i \in 0 .. n - 1 : Is(i, p)
                     THEN items[1 + CHOOSE i \in 0 .. n - 1 : Is(i, p)] ELSE d.data[p]
        <4> HIDE DEF Is
        <4> QED BY <3>1 DEF set
      <3>3. CASE \E i \in 0 .. n - 1 : Is(i, p)
        <4> DEFINE c == CHOOSE i \in 0 .. n - 1 : Is(i, p)
        <4>1. c \in 0 .. n - 1 /\ Is(c, p)
          <5> HIDE DEF Is
          <5> QED BY <3>3
        <4>2. set[p] = items[1 + c]
          BY <3>2, <3>3
        <4> HIDE DEF c
        <4>3. 1 + c \in 1 .. len
          BY <1>2, <1>3, <1>7, <4>1
        <4>4. src_index(x, c) \in 0 .. d.size - 1
          BY <1>7, <4>1 DEF Gets, Chosen, n
        <4>5. p <= d.size
          BY <1>1, <4>1, <4>4
        <4> QED BY <1>3, <4>2, <4>3, <4>5
      <3>4. CASE ~\E i \in 0 .. n - 1 : Is(i, p)
        BY <3>2, <3>4
      <3> QED BY <3>3, <3>4
    <2>3. set \in Seq(Slots) /\ Len(set) = N
      <3>1. DOMAIN set = 1 .. N /\ \A p \in 1 .. N : d.data[p] \in Slots
        <4> HIDE DEF Slots
        <4> QED BY <1>1 DEF set
      <3>2. \A p \in 1 .. N : set[p] \in Slots
        <4> HIDE DEF Slots, Stored
        <4> QED BY <2>2, <3>1, SlotsAre
      <3>3. set = [p \in 1 .. N |-> set[p]]
        BY <3>1 DEF set
      <3>4. set \in [1 .. N -> Slots]
        <4> HIDE DEF Slots
        <4> QED BY <3>2, <3>3
      <3> HIDE DEF Slots
      <3> QED BY <1>1, <3>4
    <2>4. ASSUME NEW i \in 1 .. Len(set)
          PROVE  /\ i <= d.size => set[i] \in Stored
                 /\ i > d.size => \/ set[i] \in Held(d) \cup {Nowhere}
                                  \/ i <= Len(d.data) /\ set[i] = d.data[i]
      <3>1. i \in 1 .. N /\ i \in Nat /\ (i <= d.size => i \in 1 .. d.size)
        BY <1>1, <2>3
      <3>2. (set[i] \in Stored /\ i <= d.size) \/ set[i] = d.data[i]
        BY <2>2, <3>1
      <3> QED BY <1>1, <3>1, <3>2
    <2>5. e \in DArrays /\ e.data = set /\ e.size = d.size /\ d.size <= Len(set)
      BY <1>1, <2>3, ArrayOf
    <2> HIDE DEF e
    <2>6. Kept(d, e)
      BY <1>1, <2>3, <2>4, <2>5, KeptBy
    <2>7. ASSUME NEW p \in 1 .. d.size
          PROVE  set[p] = IF Names(x, n, p) THEN Renewed(x, n, items, p) ELSE d.data[p]
      <3>1. p \in DOMAIN d.data
        <4> HIDE DEF Slots
        <4> QED BY <1>1
      <3> QED BY <3>1 DEF set, Names, Renewed
    <2>8. Assigned(d, x, n, items, e)
      BY <1>0, <1>7, <2>5, <2>7 DEF Assigned
    <2> QED BY <1>0, <2>1, <2>6, <2>8
  <1>8. CASE x.step = 1
    <2>1. /\ n \in Nat /\ n <= m /\ x.start \in Nat /\ x.start + n <= m /\ size = d.size - n + len
          /\ size \in Int
      BY <1>1, <1>2, <1>3, <1>8 DEF size
    <2>2. CASE size < 0
      <3>1. d.size < m
        BY <1>1, <1>2, <1>3, <2>1, <2>2
      <3> QED BY <1>4, <1>8, <2>2, <3>1 DEF Dies, Ends
    <2>3. CASE ~(size < 0) /\ len > 0 /\ x.start + len > size
      <3>1. d.size < m
        BY <1>1, <1>2, <1>3, <2>1, <2>3
      <3> QED BY <1>4, <1>8, <2>3, <3>1 DEF Dies, Ends
    <2>4. CASE ~(size < 0) /\ ~(len > 0 /\ x.start + len > size)
      <3> DEFINE e == [data |-> f, size |-> size]
                 M == Len(grown.data)
      <3>1. o.end = "returned" /\ o.arr = e /\ o.out = items
        BY <1>4, <1>8, <2>4 DEF Return, Ends
      <3>2. size \in Nat /\ (len > 0 => x.start + len <= size)
        BY <1>3, <2>1, <2>4
      <3>3. /\ grown \in DArrays /\ grown.data \in Seq(Slots) /\ M \in Nat
            /\ size <= M /\ d.size <= M
            /\ \A i \in 1 .. M : /\ i <= d.size => grown.data[i] = d.data[i]
                                 /\ i <= size => grown.data[i] \in Stored
                                 /\ i > size => \/ grown.data[i] = Nowhere
                                                \/ i <= N /\ grown.data[i] = d.data[i]
        <4>1. CASE len > n
          <5> DEFINE k == len - n
                     g == Iterate([a \in DArrays |-> darray_armem_insert(a, ARGON_NULL)], d, k)
          <5>1. k \in Nat /\ size = d.size + k
            <6>1. d.size \in Int /\ n \in Int /\ len \in Int /\ len > n /\ size = d.size - n + len
              BY ONLY <1>1, <1>3, <2>1, <4>1
            <6> QED BY ONLY <6>1
          <5>2. grown = g
            BY <4>1, Zenon DEF grown
          <5> HIDE DEF k
          <5>3. Grown(g, d, k)
            BY <5>1, GrowIs
          <5> HIDE DEF g
          <5>4. /\ g \in DArrays /\ g.size = size /\ size <= Len(g.data) /\ N <= Len(g.data)
                /\ \A i \in 1 .. Len(g.data) :
                     g.data[i] = IF i \in d.size + 1 .. size THEN ARGON_NULL
                                 ELSE IF i <= N THEN d.data[i] ELSE Nowhere
            BY <5>1, <5>3 DEF Grown
          <5>5. g.data \in Seq(Slots) /\ Len(g.data) \in Nat
            BY <5>4, LenProperties DEF DArrays
          <5>6. ASSUME NEW i \in 1 .. Len(g.data)
                PROVE  /\ i <= d.size => g.data[i] = d.data[i]
                       /\ i <= size => g.data[i] \in Stored
                       /\ i > size => \/ g.data[i] = Nowhere
                                      \/ i <= N /\ g.data[i] = d.data[i]
            <6>1. i \in Nat /\ i >= 1
              BY <5>5
            <6>2. CASE i <= d.size
              <7>1. i \notin d.size + 1 .. size /\ i <= N /\ i <= size /\ i \in 1 .. d.size
                BY ONLY <1>1, <5>1, <6>1, <6>2
              <7>2. g.data[i] = d.data[i]
                BY <5>4, <7>1
              <7> QED BY ONLY <1>1, <3>2, <6>1, <7>1, <7>2
            <6>3. CASE ~(i <= d.size) /\ i <= size
              <7>1. i \in d.size + 1 .. size
                BY ONLY <1>1, <3>2, <6>1, <6>3
              <7>2. g.data[i] = ARGON_NULL
                BY <5>4, <7>1
              <7> QED BY <6>3, <7>2, <3>2, <6>1 DEF Stored
            <6>4. CASE ~(i <= d.size) /\ ~(i <= size)
              <7>1. i \notin d.size + 1 .. size
                BY ONLY <1>1, <3>2, <6>1, <6>4
              <7>2. g.data[i] = IF i <= N THEN d.data[i] ELSE Nowhere
                BY <5>4, <7>1
              <7> QED BY <6>4, <7>2
            <6> QED BY <6>2, <6>3, <6>4
          <5>7. d.size <= Len(g.data)
            BY ONLY <1>1, <5>4, <5>5
          <5> QED BY <5>2, <5>4, <5>5, <5>6, <5>7
        <4>2. CASE ~(len > n)
          <5>1. grown = d /\ size <= d.size
            BY <1>1, <1>3, <2>1, <4>2 DEF grown
          <5>2. size <= N
            BY ONLY <1>1, <3>2, <5>1
          <5>3. \A i \in 1 .. N : i <= size => i \in 1 .. d.size
            BY ONLY <1>1, <3>2, <5>1
          <5> QED BY <1>1, <5>1, <5>2, <5>3
        <4> QED BY <4>1, <4>2
      <3>4. /\ moved \in Seq(Slots) /\ Len(moved) = M
            /\ \A i \in 1 .. M : moved[i] = IF i > x.start + len /\ i <= size
                                            THEN grown.data[i - len + n] ELSE grown.data[i]
        <4>1. DOMAIN grown.data = 1 .. M /\ \A i \in 1 .. M : grown.data[i] \in Slots
          <5> HIDE DEF Slots
          <5> QED BY <3>3
        <4>2. moved = [i \in 1 .. M |-> IF i > x.start + len /\ i <= size
                                        THEN grown.data[i - len + n] ELSE grown.data[i]]
          BY <4>1 DEF moved
        <4>3. ASSUME NEW i \in 1 .. M, i > x.start + len, i <= size PROVE i - len + n \in 1 .. M
          <5>1. n \in Nat /\ len \in Nat /\ x.start \in Nat /\ i \in Nat /\ M \in Nat
            BY <1>3, <2>1, <3>3
          <5>2. d.size \in Nat /\ d.size <= M /\ i <= d.size - n + len
            BY ONLY <1>1, <2>1, <3>3, <4>3
          <5> QED BY ONLY <5>1, <5>2, <4>3, FromTheTail
        <4>4. moved \in [1 .. M -> Slots]
          <5> HIDE DEF Slots
          <5> QED BY <4>1, <4>2, <4>3
        <4>5. \A i \in 1 .. M : moved[i] = IF i > x.start + len /\ i <= size
                                           THEN grown.data[i - len + n] ELSE grown.data[i]
          BY <4>2
        <4>6. moved \in Seq(Slots) /\ Len(moved) = M
          <5> HIDE DEF Slots
          <5> QED BY <3>3, <4>4
        <4> QED BY <4>5, <4>6
      <3>5. Written(f, moved, x.start, items)
        BY <2>1, <3>4, WriteIs DEF f
      <3>6. /\ f \in Seq(Slots) /\ Len(f) = M
            /\ \A i \in 1 .. M : f[i] = IF i \in x.start + 1 .. x.start + len
                                        THEN items[i - x.start] ELSE moved[i]
        BY <3>4, <3>5 DEF Written, len
      <3>7. ASSUME NEW i \in 1 .. Len(f)
            PROVE  /\ i <= size => f[i] \in Stored
                   /\ i > size => \/ f[i] \in Held(d) \cup {Nowhere}
                                  \/ i <= Len(d.data) /\ f[i] = d.data[i]
        <4>1. i \in 1 .. M /\ i \in Nat /\ i >= 1
          BY <3>3, <3>6
        <4>2. CASE i \in x.start + 1 .. x.start + len
          <5>1. i - x.start \in 1 .. len /\ i <= size
            <6>1. len \in Nat /\ x.start \in Nat
              BY <1>3, <2>1
            <6> QED BY ONLY <6>1, <3>2, <4>1, <4>2, Among
          <5>2. f[i] = items[i - x.start]
            BY <3>6, <4>1, <4>2
          <5> QED BY <5>1, <5>2, <1>3, <3>2, <4>1
        <4>3. CASE i \notin x.start + 1 .. x.start + len /\ i > x.start + len /\ i <= size
          <5> DEFINE j == i - len + n
          <5>0. j \in Int /\ j >= 1 /\ j <= d.size /\ d.size <= M
            BY ONLY <1>1, <1>3, <2>1, <3>2, <3>3, <4>1, <4>3 DEF j
          <5>1. j \in 1 .. d.size /\ j \in 1 .. M
            BY ONLY <5>0, <1>1, <3>3
          <5>2. f[i] = grown.data[i - len + n]
            BY <3>4, <3>6, <4>1, <4>3
          <5>3. grown.data[i - len + n] = d.data[i - len + n]
            BY <3>3, <5>1
          <5> QED BY <1>1, <4>3, <5>1, <5>2, <5>3, <3>2, <4>1
        <4>4. CASE i \notin x.start + 1 .. x.start + len /\ ~(i > x.start + len /\ i <= size)
          <5>1. f[i] = grown.data[i]
            BY <3>4, <3>6, <4>1, <4>4
          <5> QED BY <3>3, <4>1, <5>1
        <4> QED BY <4>2, <4>3, <4>4
      <3>8. e \in DArrays /\ e.data = f /\ e.size = size /\ size <= Len(f)
        BY <3>2, <3>3, <3>6, ArrayOf
      <3> HIDE DEF e
      <3>9. Kept(d, e)
        BY <3>2, <3>6, <3>7, <3>8, KeptBy
      <3>10. ASSUME x.start + n <= d.size, NEW i \in 1 .. size
             PROVE  f[i] = IF i <= x.start THEN d.data[i]
                           ELSE IF i <= x.start + len THEN items[i - x.start]
                           ELSE d.data[i - len + n]
        <4>1. i \in 1 .. M /\ i \in Nat /\ i >= 1 /\ i <= size /\ x.start \in Nat /\ len \in Nat
          BY <1>3, <2>1, <3>2, <3>3
        <4>2. CASE i <= x.start
          <5>1. /\ i \notin x.start + 1 .. x.start + len /\ ~(i > x.start + len /\ i <= size)
                /\ i <= d.size
            BY ONLY <1>1, <2>1, <3>10, <4>1, <4>2
          <5> QED BY <3>3, <3>4, <3>6, <4>1, <4>2, <5>1
        <4>3. CASE ~(i <= x.start) /\ i <= x.start + len
          <5>1. i \in x.start + 1 .. x.start + len
            BY ONLY <4>1, <4>3
          <5> QED BY <3>6, <4>1, <4>3, <5>1
        <4>4. CASE ~(i <= x.start) /\ ~(i <= x.start + len)
          <5> DEFINE j == i - len + n
          <5>1. i \notin x.start + 1 .. x.start + len /\ i > x.start + len
            BY ONLY <4>1, <4>4
          <5>2. j \in Int /\ j >= 1 /\ j <= d.size /\ d.size <= M
            BY ONLY <1>1, <1>3, <2>1, <3>2, <3>3, <4>1, <4>4 DEF j
          <5>3. j \in 1 .. M
            BY ONLY <5>2, <1>1, <3>3
          <5>4. f[i] = grown.data[i - len + n]
            BY <3>4, <3>6, <4>1, <5>1
          <5>5. grown.data[i - len + n] = d.data[i - len + n]
            BY <3>3, <5>2, <5>3
          <5> QED BY <4>4, <5>4, <5>5
        <4> QED BY <4>2, <4>3, <4>4
      <3>11. Assigned(d, x, n, items, e)
        BY <1>0, <1>8, <2>1, <3>8, <3>10 DEF Assigned
      <3> QED BY <1>0, <3>1, <3>9, <3>11
    <2> QED BY <2>2, <2>3, <2>4
  <1> QED BY <1>5, <1>6, <1>7, <1>8

\* An assignment to a slice whose indices are those of the array as it is.
LEMMA SetsliceKeeps ==
  ASSUME NEW d, Buffer(d), d.size <= INT64_MAX, NEW s, IsSlice(s), NEW from, IsIterable(from),
         NEW o, o = setslice(d, s, from)
  PROVE  LET x == slice_indices(s, d.size)
             items == collected(Items(d), from)
         IN \/ /\ o.end = "returned" /\ Kept(d, o.arr) /\ o.out = items /\ ~NeverEnds(from)
               /\ Assigned(d, x, slice_len(x), items, o.arr)
            \/ /\ o.end = "thrown" /\ Kept(d, o.arr) /\ o.arr = d /\ ~NeverEnds(from)
               /\ x.step # 1 /\ Len(items) # slice_len(x)
            \/ o.end = "endless" /\ from.k = "range" /\ Far(from.range)
  <1> DEFINE x == slice_indices(s, d.size)
             items == collected(Items(d), from)
  <1>1. o = IF NeverEnds(from) THEN Dies(d, "endless") ELSE assign(d, x, slice_len(x), items)
    BY Zenon DEF setslice
  <1>2. CASE NeverEnds(from)
    BY <1>1, <1>2, NeverEndsIs DEF Dies, Ends
  <1>3. CASE ~NeverEnds(from)
    <2>1. d.size \in 0 .. INT64_MAX /\ ~(d.size < d.size)
      BY BufferHas, Limits
    <2>2. Normalised(x, d.size)
      BY <2>1, IndicesAre
    <2>3. items \in Seq(Stored)
      <3>1. items \in ItemLists
        BY <1>3, CollectedIs
      <3> HIDE DEF items
      <3> QED BY <3>1 DEF ItemLists
    <2>4. o = assign(d, x, slice_len(x), items)
      BY <1>1, <1>3
    <2> HIDE DEF x, items
    <2>5. \/ /\ o.end = "returned" /\ Kept(d, o.arr) /\ o.out = items
             /\ Assigned(d, x, slice_len(x), items, o.arr)
          \/ /\ o.end = "thrown" /\ Kept(d, o.arr) /\ o.arr = d
             /\ x.step # 1 /\ Len(items) # slice_len(x)
      BY <2>1, <2>2, <2>3, <2>4, AssignKeeps
    <2> QED BY <1>3, <2>5 DEF x, items
  <1> QED BY <1>2, <1>3

\* What a method that does not call the program leaves, and how it may end.
Keeps(op, d, o) ==
  \/ o.end \in {"returned", "thrown"} /\ Kept(d, o.arr)
  \/ o.end = "wild" /\ op.m = "insert" /\ op.pos < 0
  \/ o.end = "huge" /\ ((op.m = "of_size" /\ op.n < 0) \/ HugeStep(op, Items(d)))
  \/ o.end = "endless" /\ OverTheEdge(op)

\* Every method that does not call the program, by its lemma.
LEMMA RunKeeps ==
  ASSUME NEW d, Buffer(d), d.size <= INT64_MAX, NEW op, IsInvocation(op), ~CallsBack(op)
  PROVE  Keeps(op, d, Run(op, d))
  <1> DEFINE o == Run(op, d)
  <1> SUFFICES Keeps(op, d, o)
    OBVIOUS
  <1>1. CASE op.m = "append"
    <2>1. o = append(d, op.items) /\ op.items \in Seq(Stored)
      BY <1>1 DEF Run, IsInvocation, ItemLists
    <2> HIDE DEF o
    <2> QED BY <2>1, AppendKeeps DEF Keeps
  <1>2. CASE op.m = "insert"
    <2>1. o = insert(d, op.pos, op.items) /\ op.items \in Seq(Stored) /\ op.pos \in Int
      BY <1>2, Limits DEF Run, IsInvocation, ItemLists, Int64
    <2> HIDE DEF o
    <2>2. \/ o.end = "returned" /\ Kept(d, o.arr)
          \/ o.end = "wild" /\ op.pos < 0
      BY <2>1, InsertKeeps
    <2> QED BY <1>2, <2>2 DEF Keeps
  <1>3. CASE op.m = "pop"
    <2>1. o = pop(d, op.pos) /\ op.pos \in Int
      BY <1>3, Limits DEF Run, IsInvocation, Int64
    <2> HIDE DEF o
    <2> QED BY <2>1, PopKeeps DEF Keeps
  <1>4. CASE op.m = "getitem"
    <2>1. o = getitem(d, op.index)
      BY <1>4 DEF Run
    <2> HIDE DEF o
    <2> QED BY <2>1, GetitemKeeps DEF Keeps
  <1>5. CASE op.m = "setitem"
    <2>1. o = setitem(d, op.index, op.value) /\ op.value \in Stored
      BY <1>5 DEF Run, IsInvocation
    <2> HIDE DEF o
    <2> QED BY <2>1, SetitemKeeps DEF Keeps
  <1>6. CASE op.m = "delitem"
    <2>1. o = delitem(d, op.index)
      BY <1>6 DEF Run
    <2> HIDE DEF o
    <2> QED BY <2>1, DelitemKeeps DEF Keeps
  <1>7. CASE op.m = "getslice"
    <2>1. o = getslice(d, op.s) /\ IsSlice(op.s)
      BY <1>7 DEF Run, IsInvocation
    <2> HIDE DEF o
    <2>2. \/ o.end = "returned" /\ Kept(d, o.arr)
          \/ o.end = "huge" /\ Steep(op.s, d.size)
      BY <2>1, GetsliceKeeps
    <2>3. Steep(op.s, d.size) => HugeStep(op, Items(d))
      BY <1>7, ItemsAre DEF Steep, HugeStep
    <2> QED BY <2>2, <2>3 DEF Keeps
  <1>8. CASE op.m = "delslice"
    <2>1. o = delslice(d, op.s) /\ IsSlice(op.s)
      BY <1>8 DEF Run, IsInvocation
    <2> HIDE DEF o
    <2> QED BY <2>1, DelsliceKeeps DEF Keeps
  <1>9. CASE op.m \in {"setslice", "new", "tuple"}
    <2>1. IsIterable(op.from)
      BY <1>9 DEF IsInvocation, CallsBack
    <2>2. op.from.k = "range" /\ Far(op.from.range) => OverTheEdge(op)
      BY <1>9 DEF OverTheEdge, Far
    <2>3. CASE op.m = "setslice"
      <3>1. o = setslice(d, op.s, op.from) /\ IsSlice(op.s)
        BY <2>3 DEF Run, IsInvocation
      <3> HIDE DEF o
      <3>2. \/ o.end \in {"returned", "thrown"} /\ Kept(d, o.arr)
            \/ o.end = "endless" /\ op.from.k = "range" /\ Far(op.from.range)
        <4> HIDE DEF o
        <4> QED BY <2>1, <3>1, SetsliceKeeps
      <3> QED BY <2>2, <3>2 DEF Keeps
    <2>4. CASE op.m = "new"
      <3>1. o = new(d, op.from)
        BY <2>4 DEF Run
      <3> HIDE DEF o
      <3>2. \/ o.end = "returned" /\ Kept(d, o.arr)
            \/ o.end = "endless" /\ op.from.k = "range" /\ Far(op.from.range)
        BY <2>1, <3>1, NewKeeps
      <3> QED BY <2>2, <3>2 DEF Keeps
    <2>5. CASE op.m = "tuple"
      <3>1. o = tuple_getslice(d, op.from, op.s) /\ IsSlice(op.s)
        BY <2>5 DEF Run, IsInvocation
      <3> HIDE DEF o
      <3>2. \/ o.end = "returned" /\ Kept(d, o.arr)
            \/ o.end = "huge" /\ Steep(op.s, Len(collected(Items(d), op.from)))
            \/ o.end = "endless" /\ op.from.k = "range" /\ Far(op.from.range)
        BY <2>1, <3>1, TupleKeeps
      <3>3. Steep(op.s, Len(collected(Items(d), op.from))) => HugeStep(op, Items(d))
        BY <2>5 DEF Steep, HugeStep
      <3> QED BY <2>2, <3>2, <3>3 DEF Keeps
    <2> QED BY <1>9, <2>3, <2>4, <2>5
  <1>10. CASE op.m = "of_size"
    <2>1. o = of_size(op.n) /\ op.n \in Int
      BY <1>10, Limits DEF Run, IsInvocation, Int64
    <2> HIDE DEF o
    <2>2. \/ o.end = "returned" /\ Kept(d, o.arr)
          \/ o.end = "huge" /\ op.n < 0
      BY <2>1, OfSizeKeeps
    <2> QED BY <1>10, <2>2 DEF Keeps
  <1> QED BY <1>1, <1>2, <1>3, <1>4, <1>5, <1>6, <1>7, <1>8, <1>9, <1>10
          DEF IsInvocation, CallsBack

-----------------------------------------------------------------------------
(* The sort works on a copy of numbers. It puts them in another order, and,  *)
(* by a comparison that is an order, in that one.                            *)

\* Lists of n numbers, and the ways to compare them.
Numbers(n) == {a \in Seq(Int) : Len(a) = n}

\* The comparisons that sort is called with.
Orders == {"ascending", "descending", "less", "greater", "none"}

\* What a list of n numbers is, and which functions are one.
LEMMA NumbersAre ==
  ASSUME NEW n, n \in Nat, NEW a, a \in Numbers(n)
  PROVE  DOMAIN a = 1 .. n /\ a \in Seq(Int) /\ Len(a) = n /\ \A i \in 1 .. n : a[i] \in Int
  BY DEF Numbers

\* A function on 1 .. n into the integers is such a list.
LEMMA IsNumbers ==
  ASSUME NEW n, n \in Nat, NEW a, a \in [1 .. n -> Int]
  PROVE  a \in Numbers(n)
  BY DEF Numbers

\* A comparison gives a number, and only less puts an item before itself.
LEMMA Compares ==
  ASSUME NEW a, a \in Int, NEW b, b \in Int, NEW by, by \in Orders
  PROVE  /\ argon_array_compare(a, b, by) \in Int
         /\ by = "less" => argon_array_compare(a, b, by) < 0
         /\ by # "less" => ~(argon_array_compare(a, a, by) < 0)
  BY DEF argon_array_compare, Orders

\* A swap within the list leaves as many numbers.
LEMMA SwappedIs ==
  ASSUME NEW n, n \in Nat, NEW a, a \in Numbers(n), NEW i, i \in 1 .. n, NEW j, j \in 1 .. n
  PROVE  Swapped(a, i, j) \in Numbers(n)
  <1>1. DOMAIN a = 1 .. n /\ \A k \in 1 .. n : a[k] \in Int
    BY NumbersAre
  <1>2. a = [k \in 1 .. n |-> a[k]]
    BY <1>1 DEF Numbers
  <1>3. Swapped(a, i, j) \in [1 .. n -> Int]
    BY <1>1, <1>2 DEF Swapped
  <1> QED BY <1>3, IsNumbers

\* So does a swap that is made only if it has to be.
LEMMA InOrderIs ==
  ASSUME NEW n, n \in Nat, NEW a, a \in Numbers(n), NEW i, i \in 1 .. n, NEW j, j \in 1 .. n, NEW by
  PROVE  InOrder(a, i, j, by) \in Numbers(n)
  BY SwappedIs DEF InOrder

\* An item that goes down to its place leaves as many numbers.
LEMMA SinkIs ==
  ASSUME NEW n, n \in Nat, NEW a, a \in Numbers(n), NEW lo, lo \in 1 .. n, NEW j, j \in lo .. n,
         NEW key, key \in Int, NEW by
  PROVE  Sink(a, lo, j, key, by) \in Numbers(n)
  <1> DEFINE T == {q \in lo .. j : \A r \in q .. j - 1 : argon_array_compare(a[r], key, by) > 0}
             p == Min(T)
             f == [k \in DOMAIN a |-> IF k = p THEN key ELSE IF k \in p + 1 .. j THEN a[k - 1]
                                      ELSE a[k]]
  <1>1. DOMAIN a = 1 .. n /\ \A i \in 1 .. n : a[i] \in Int
    BY NumbersAre
  <1>2. j \in T
    <2>1. j \in lo .. j /\ j .. j - 1 = {}
      OBVIOUS
    <2> QED BY <2>1
  <1>3. T \in SUBSET Nat /\ T \subseteq lo .. j
    OBVIOUS
  <1>4. p \in lo .. j
    <2> HIDE DEF T
    <2> QED BY <1>2, <1>3, MinIs
  <1>5. Sink(a, lo, j, key, by) = f
    BY Zenon DEF Sink
  <1> HIDE DEF p
  <1>6. ASSUME NEW k \in 1 .. n, k \in p + 1 .. j PROVE k - 1 \in 1 .. n
    BY <1>4, <1>6
  <1>7. f \in [1 .. n -> Int]
    BY <1>1, <1>6
  <1> HIDE DEF f
  <1> QED BY <1>5, <1>7, IsNumbers

\* b has the items of a: those within lo .. hi in another order, the others where they were.
Shuffled(a, b, n, lo, hi) ==
  \E f \in [1 .. n -> 1 .. n] :
    /\ \A i, j \in 1 .. n : f[i] = f[j] => i = j
    /\ \A j \in 1 .. n : \E i \in 1 .. n : f[i] = j
    /\ \A k \in 1 .. n : b[k] = a[f[k]] /\ (k \notin lo .. hi => f[k] = k)

\* No change is one.
LEMMA ShuffledAsIs ==
  ASSUME NEW n \in Nat, NEW a, NEW lo, NEW hi
  PROVE  Shuffled(a, a, n, lo, hi)
  <1> DEFINE f == [k \in 1 .. n |-> k]
  <1>1. f \in [1 .. n -> 1 .. n]
    OBVIOUS
  <1> QED BY <1>1 DEF Shuffled

\* One change after another is one.
LEMMA ShuffledOn ==
  ASSUME NEW n \in Nat, NEW a, NEW b, NEW c, NEW lo, NEW hi,
         Shuffled(a, b, n, lo, hi), Shuffled(b, c, n, lo, hi)
  PROVE  Shuffled(a, c, n, lo, hi)
  <1> DEFINE P == 1 .. n
             In == lo .. hi
  <1>1. PICK f \in [P -> P] :
          /\ \A i, j \in P : f[i] = f[j] => i = j
          /\ \A j \in P : \E i \in P : f[i] = j
          /\ \A k \in P : b[k] = a[f[k]] /\ (k \notin In => f[k] = k)
    BY DEF Shuffled
  <1>2. PICK g \in [P -> P] :
          /\ \A i, j \in P : g[i] = g[j] => i = j
          /\ \A j \in P : \E i \in P : g[i] = j
          /\ \A k \in P : c[k] = b[g[k]] /\ (k \notin In => g[k] = k)
    BY DEF Shuffled
  <1> DEFINE h == [k \in P |-> f[g[k]]]
  <1> HIDE DEF P, In
  <1>3. h \in [P -> P] /\ \A k \in P : h[k] = f[g[k]] /\ g[k] \in P
    BY <1>1, <1>2
  <1> HIDE DEF h
  <1>4. \A i, j \in P : h[i] = h[j] => i = j
    BY <1>1, <1>2, <1>3
  <1>5. \A j \in P : \E i \in P : h[i] = j
    <2> SUFFICES ASSUME NEW j \in P PROVE \E i \in P : h[i] = j
      OBVIOUS
    <2>1. PICK m \in P : f[m] = j
      BY <1>1
    <2>2. PICK i \in P : g[i] = m
      BY <1>2
    <2> QED BY <1>3, <2>1, <2>2
  <1>6. \A k \in P : c[k] = a[h[k]] /\ (k \notin In => h[k] = k)
    <2> SUFFICES ASSUME NEW k \in P PROVE c[k] = a[h[k]] /\ (k \notin In => h[k] = k)
      OBVIOUS
    <2>1. c[k] = b[g[k]] /\ b[g[k]] = a[f[g[k]]] /\ h[k] = f[g[k]]
      BY <1>1, <1>2, <1>3, Zenon
    <2> QED BY <1>1, <1>2, <2>1, Zenon
  <1> QED BY <1>3, <1>4, <1>5, <1>6 DEF Shuffled, P, In

\* A change within lo .. hi is one within more.
LEMMA ShuffledWider ==
  ASSUME NEW n \in Nat, NEW a, NEW b, NEW lo \in Int, NEW hi \in Int,
         NEW low \in Int, low <= lo, NEW high \in Int, hi <= high, Shuffled(a, b, n, lo, hi)
  PROVE  Shuffled(a, b, n, low, high)
  <1>1. \A k \in 1 .. n : k \in lo .. hi => k \in low .. high
    OBVIOUS
  <1> QED BY <1>1 DEF Shuffled

\* What is in a place afterwards was there before, or in one of those that were changed.
LEMMA ShuffledFrom ==
  ASSUME NEW n \in Nat, NEW a, NEW b, NEW lo, NEW hi, Shuffled(a, b, n, lo, hi), NEW k \in 1 .. n
  PROVE  /\ k \notin lo .. hi => b[k] = a[k]
         /\ k \in lo .. hi => \E m \in 1 .. n : m \in lo .. hi /\ b[k] = a[m]
  <1> DEFINE In == lo .. hi
  <1>1. PICK f \in [1 .. n -> 1 .. n] :
          /\ \A i, j \in 1 .. n : f[i] = f[j] => i = j
          /\ \A i \in 1 .. n : b[i] = a[f[i]] /\ (i \notin In => f[i] = i)
    BY DEF Shuffled
  <1> HIDE DEF In
  <1>2. f[k] \in 1 .. n
    BY <1>1
  <1>3. k \in In => f[k] \in In
    BY <1>1, <1>2
  <1> QED BY <1>1, <1>2, <1>3 DEF In

\* A swap is one.
LEMMA SwapShuffles ==
  ASSUME NEW n \in Nat, NEW a, DOMAIN a = 1 .. n, NEW lo \in 1 .. n, NEW hi \in 1 .. n,
         NEW i \in lo .. hi, NEW j \in lo .. hi
  PROVE  Shuffled(a, Swapped(a, i, j), n, lo, hi)
  <1> DEFINE f == [k \in 1 .. n |-> IF k = i THEN j ELSE IF k = j THEN i ELSE k]
             b == Swapped(a, i, j)
  <1>1. i \in 1 .. n /\ j \in 1 .. n
    OBVIOUS
  <1>2. f \in [1 .. n -> 1 .. n]
    BY <1>1
  <1>3. \A k \in 1 .. n : f[k] = IF k = i THEN j ELSE IF k = j THEN i ELSE k
    OBVIOUS
  <1>4. \A k \in 1 .. n : b[k] = IF k = j THEN a[i] ELSE IF k = i THEN a[j] ELSE a[k]
    BY <1>1 DEF Swapped
  <1> HIDE DEF f, b
  <1>5. \A k \in 1 .. n : b[k] = a[f[k]]
    BY <1>3, <1>4
  <1>6. \A k \in 1 .. n : k \notin lo .. hi => f[k] = k
    BY <1>3
  <1>7. \A k, m \in 1 .. n : f[k] = f[m] => k = m
    BY <1>3
  <1>8. \A m \in 1 .. n : \E k \in 1 .. n : f[k] = m
    <2> SUFFICES ASSUME NEW m \in 1 .. n PROVE \E k \in 1 .. n : f[k] = m
      OBVIOUS
    <2>1. f[f[m]] = m /\ f[m] \in 1 .. n
      BY <1>1, <1>2, <1>3
    <2> QED BY <2>1
  <1> QED BY <1>2, <1>5, <1>6, <1>7, <1>8 DEF Shuffled, b

\* No item comes up more or less often.
LEMMA ShuffledCounts ==
  ASSUME NEW n \in Nat, NEW a, NEW b, DOMAIN a = 1 .. n, DOMAIN b = 1 .. n,
         NEW lo, NEW hi, Shuffled(a, b, n, lo, hi), NEW v
  PROVE  Count(v, b) = Count(v, a)
  <1> DEFINE S == {i \in 1 .. n : b[i] = v}
             T == {i \in 1 .. n : a[i] = v}
  <1>1. PICK f \in [1 .. n -> 1 .. n] :
          /\ \A i, j \in 1 .. n : f[i] = f[j] => i = j
          /\ \A j \in 1 .. n : \E i \in 1 .. n : f[i] = j
          /\ \A k \in 1 .. n : b[k] = a[f[k]]
    BY DEF Shuffled
  <1> DEFINE g == [i \in S |-> f[i]]
  <1>2. g \in [S -> T]
    BY <1>1
  <1>3. \A i, j \in S : g[i] = g[j] => i = j
    BY <1>1
  <1>4. \A j \in T : \E i \in S : g[i] = j
    BY <1>1
  <1>5. g \in Bijection(S, T)
    <2> HIDE DEF g, S, T
    <2> QED BY <1>2, <1>3, <1>4 DEF Bijection, Injection, Surjection, IsInjective
  <1>6. IsFiniteSet(S)
    BY FS_Interval, FS_Subset, S \subseteq 1 .. n
  <1>7. Cardinality(T) = Cardinality(S)
    <2> HIDE DEF g, S, T
    <2> QED BY <1>5, <1>6, FS_Bijection DEF ExistsBijection
  <1> QED BY <1>7 DEF Count

\* The comparisons by which items have an order.
Linear == {"ascending", "descending"}

\* u does not come after v.
Le(u, v, by) == argon_array_compare(u, v, by) <= 0

\* The items from lo to hi are in order.
Sorted(a, lo, hi, by) == \A x, y \in lo .. hi : x < y => Le(a[x], a[y], by)

\* What the comparisons say in terms of that order, which is one.
LEMMA OrderIs ==
  ASSUME NEW by \in Linear, NEW u \in Int, NEW v \in Int
  PROVE  /\ Le(u, u, by) /\ (Le(u, v, by) \/ Le(v, u, by))
         /\ \A w \in Int : Le(u, v, by) /\ Le(v, w, by) => Le(u, w, by)
         /\ argon_array_compare(u, v, by) > 0 <=> ~Le(u, v, by)
         /\ ~(argon_array_compare(u, v, by) < 0) <=> Le(v, u, by)
  BY DEF Linear, Le, argon_array_compare

\* A swap that is made only if it has to be puts two items in order.
LEMMA InOrderSorts ==
  ASSUME NEW n \in Nat, NEW a \in Numbers(n), NEW i \in 1 .. n, NEW j \in 1 .. n, i < j,
         NEW by \in Linear, NEW b, b = InOrder(a, i, j, by)
  PROVE  /\ Le(b[i], b[j], by)
         /\ \A k \in 1 .. n : k # i /\ k # j => b[k] = a[k]
         /\ (b[i] = a[i] /\ b[j] = a[j]) \/ (b[i] = a[j] /\ b[j] = a[i])
  <1>1. DOMAIN a = 1 .. n /\ a[i] \in Int /\ a[j] \in Int
    BY NumbersAre
  <1>2. CASE Le(a[i], a[j], by)
    <2>1. b = a
      BY <1>1, <1>2, OrderIs DEF InOrder
    <2> QED BY <1>2, <2>1
  <1>3. CASE ~Le(a[i], a[j], by)
    <2>1. b = Swapped(a, i, j)
      BY <1>1, <1>3, OrderIs DEF InOrder
    <2>2. /\ b[i] = a[j] /\ b[j] = a[i]
          /\ \A k \in 1 .. n : k # i /\ k # j => b[k] = a[k]
      BY <1>1, <2>1 DEF Swapped
    <2>3. Le(a[j], a[i], by)
      BY <1>1, <1>3, OrderIs
    <2> QED BY <2>2, <2>3
  <1> QED BY <1>2, <1>3

\* So is it within the part that it is made in.
LEMMA InOrderShuffles ==
  ASSUME NEW n \in Nat, NEW a \in Numbers(n), NEW lo \in 1 .. n, NEW hi \in 1 .. n,
         NEW i \in lo .. hi, NEW j \in lo .. hi, NEW by
  PROVE  Shuffled(a, InOrder(a, i, j, by), n, lo, hi)
  BY NumbersAre, SwapShuffles, ShuffledAsIs DEF InOrder

\* An item that goes down to its place passes those that come after it, and no others.
LEMMA SinkSorts ==
  ASSUME NEW n \in Nat, NEW a \in Numbers(n), NEW lo \in 1 .. n, NEW j \in lo .. n,
         NEW by, NEW b, b = Sink(a, lo, j, a[j], by)
  PROVE  /\ b \in Numbers(n) /\ Shuffled(a, b, n, lo, j)
         /\ by \in Linear /\ Sorted(a, lo, j - 1, by) => Sorted(b, lo, j, by)
  <1> DEFINE key == a[j]
             T == {q \in lo .. j : \A r \in q .. j - 1 : argon_array_compare(a[r], key, by) > 0}
             p == Min(T)
             g == [k \in DOMAIN a |-> IF k = p THEN key ELSE IF k \in p + 1 .. j THEN a[k - 1]
                                      ELSE a[k]]
             f == [k \in 1 .. n |-> IF k = p THEN j ELSE IF k \in p + 1 .. j THEN k - 1 ELSE k]
  <1>1. DOMAIN a = 1 .. n /\ (\A i \in 1 .. n : a[i] \in Int) /\ key \in Int /\ j \in 1 .. n
    BY NumbersAre
  <1>2. j \in T
    <2>1. j \in lo .. j /\ j .. j - 1 = {}
      OBVIOUS
    <2> QED BY <2>1
  <1>3. T \in SUBSET Nat /\ T \subseteq lo .. j
    OBVIOUS
  <1>4. p \in T /\ p \in lo .. j /\ \A q \in T : p <= q
    <2> HIDE DEF T
    <2> QED BY <1>2, <1>3, MinIs
  <1>5. b = g
    BY Zenon DEF Sink
  <1>6. \A r \in p .. j - 1 : argon_array_compare(a[r], key, by) > 0
    <2> HIDE DEF p
    <2> QED BY <1>4
  <1>7. ASSUME p > lo PROVE ~(argon_array_compare(a[p - 1], key, by) > 0)
    <2> HIDE DEF p
    <2>1. p - 1 \in lo .. j /\ p - 1 \notin T
      BY <1>4, <1>7
    <2>2. PICK r \in p - 1 .. j - 1 : ~(argon_array_compare(a[r], key, by) > 0)
      BY <2>1
    <2>3. r = p - 1
      BY <1>4, <1>6, <2>2
    <2> QED BY <2>2, <2>3
  <1> HIDE DEF p, T
  <1>8. b \in Numbers(n)
    BY <1>1, SinkIs
  <1>9. /\ f \in [1 .. n -> 1 .. n]
        /\ \A k \in 1 .. n : f[k] = IF k = p THEN j ELSE IF k \in p + 1 .. j THEN k - 1 ELSE k
    BY <1>1, <1>4
  <1>10. \A k \in 1 .. n : b[k] = a[f[k]]
    BY <1>1, <1>5, <1>9
  <1> HIDE DEF f, g
  <1>11. Shuffled(a, b, n, lo, j)
    <2>1. ASSUME NEW x \in 1 .. n, NEW y \in 1 .. n, f[x] = f[y] PROVE x = y
      <3>1. p \in Int /\ j \in Int /\ p <= j /\ x \in Int /\ y \in Int
        BY <1>1, <1>4
      <3>2. /\ f[x] = (IF x = p THEN j ELSE IF x \in p + 1 .. j THEN x - 1 ELSE x)
            /\ f[y] = (IF y = p THEN j ELSE IF y \in p + 1 .. j THEN y - 1 ELSE y)
        BY <1>9
      <3> QED BY ONLY <3>1, <3>2, <2>1
    <2>2. \A y \in 1 .. n : \E x \in 1 .. n : f[x] = y
      <3> SUFFICES ASSUME NEW y \in 1 .. n PROVE \E x \in 1 .. n : f[x] = y
        OBVIOUS
      <3>1. CASE y \in p .. j - 1
        <4>1. y + 1 \in 1 .. n /\ f[y + 1] = y
          BY <1>4, <1>9, <3>1
        <4> QED BY <4>1
      <3>2. CASE y = j
        <4>1. p \in 1 .. n /\ f[p] = j
          BY <1>1, <1>4, <1>9
        <4> QED BY <3>2, <4>1
      <3>3. CASE y \notin p .. j
        <4>1. f[y] = y
          BY <1>4, <1>9, <3>3
        <4> QED BY <4>1
      <3> QED BY <3>1, <3>2, <3>3, <1>4
    <2>3. \A k \in 1 .. n : k \notin lo .. j => f[k] = k
      BY <1>4, <1>9
    <2> QED BY <1>9, <1>10, <2>1, <2>2, <2>3 DEF Shuffled
  <1>12. ASSUME by \in Linear, Sorted(a, lo, j - 1, by),
                NEW x \in lo .. j, NEW y \in lo .. j, x < y
         PROVE  Le(b[x], b[y], by)
    <2>0. \A u, v \in lo .. j - 1 : u < v => Le(a[u], a[v], by)
      BY <1>12 DEF Sorted
    <2>1. x \in 1 .. n /\ y \in 1 .. n /\ x \in Int /\ y \in Int /\ j \in Int /\ lo \in Int
          /\ p \in Int
      BY <1>1, <1>4
    <2>2. \A r \in p .. j - 1 : Le(key, a[r], by)
      <3> SUFFICES ASSUME NEW r \in p .. j - 1 PROVE Le(key, a[r], by)
        OBVIOUS
      <3>1. argon_array_compare(a[r], key, by) > 0 /\ a[r] \in Int
        BY <1>1, <1>4, <1>6
      <3> QED BY <1>1, <1>12, <3>1, OrderIs
    <2>3. ASSUME NEW r \in lo .. p - 1 PROVE Le(a[r], key, by)
      <3>1. p > lo /\ p - 1 \in 1 .. n /\ r \in 1 .. n /\ p - 1 \in lo .. j - 1
            /\ r \in lo .. j - 1
        BY <1>1, <1>4, <2>3
      <3>2. Le(a[p - 1], key, by)
        BY <1>1, <1>7, <1>12, <3>1, OrderIs
      <3>3. r = p - 1 \/ Le(a[r], a[p - 1], by)
        BY <2>0, <2>1, <3>1
      <3> QED BY <1>1, <1>12, <3>1, <3>2, <3>3, OrderIs
    <2>4. b[x] = (IF x = p THEN key ELSE IF x \in p + 1 .. j THEN a[x - 1] ELSE a[x])
          /\ b[y] = (IF y = p THEN key ELSE IF y \in p + 1 .. j THEN a[y - 1] ELSE a[y])
      BY <1>9, <1>10, <2>1
    <2>5. CASE y < p
      <3>1. b[x] = a[x] /\ b[y] = a[y] /\ x \in lo .. j - 1 /\ y \in lo .. j - 1
        BY <1>12, <1>4, <2>1, <2>4, <2>5
      <3> QED BY <1>12, <2>0, <3>1
    <2>6. CASE y = p
      <3>1. b[x] = a[x] /\ b[y] = key /\ x \in lo .. p - 1
        BY <1>12, <1>4, <2>1, <2>4, <2>6
      <3> QED BY <2>3, <3>1
    <2>7. CASE y > p /\ x = p
      <3>1. b[x] = key /\ b[y] = a[y - 1] /\ y - 1 \in p .. j - 1
        BY <1>12, <1>4, <2>1, <2>4, <2>7
      <3> QED BY <2>2, <3>1
    <2>8. CASE y > p /\ x > p
      <3>1. b[x] = a[x - 1] /\ b[y] = a[y - 1] /\ x - 1 \in lo .. j - 1 /\ y - 1 \in lo .. j - 1
        BY <1>12, <1>4, <2>1, <2>4, <2>8
      <3> QED BY <1>12, <2>0, <2>1, <3>1
    <2>9. CASE y > p /\ x < p
      <3>1. b[x] = a[x] /\ b[y] = a[y - 1] /\ x \in lo .. j - 1 /\ y - 1 \in lo .. j - 1
            /\ x < y - 1
        BY <1>12, <1>4, <2>1, <2>4, <2>9
      <3> QED BY <1>12, <2>0, <3>1
    <2> QED BY <2>1, <2>5, <2>6, <2>7, <2>8, <2>9
  <1> QED BY <1>8, <1>11, <1>12 DEF Sorted

\* The sort by insertion of a part puts its items in order, and leaves the others.
LEMMA InsertionSorts ==
  ASSUME NEW n \in Nat, NEW a \in Numbers(n), NEW lo \in 1 .. n, NEW hi \in lo .. n, NEW by,
         NEW b, b = argon_insertion_sort(a, lo, hi, by)
  PROVE  /\ b \in Numbers(n) /\ Shuffled(a, b, n, lo, hi)
         /\ by \in Linear => Sorted(b, lo, hi, by)
  <1> DEFINE Insert == [s \in [a : Seq(Int), i : Nat] |->
                          IF s.i > hi THEN s
                          ELSE [a |-> Sink(s.a, lo, s.i, s.a[s.i], by), i |-> s.i + 1]]
             S == {s \in [a : Seq(Int), i : Nat] :
                     /\ s.a \in Numbers(n) /\ s.i \in lo + 1 .. hi + 1
                     /\ Shuffled(a, s.a, n, lo, hi)
                     /\ by \in Linear => Sorted(s.a, lo, s.i - 1, by)}
             first == [a |-> a, i |-> lo + 1]
             left == [s \in S |-> hi + 1 - s.i]
             end == Iterate(Insert, first, hi - lo)
  <1>1. b = end.a
    BY Zenon DEF argon_insertion_sort
  <1>2. first \in S
    <2>1. a \in Seq(Int) /\ Shuffled(a, a, n, lo, hi) /\ lo + 1 \in lo + 1 .. hi + 1
      BY NumbersAre, ShuffledAsIs
    <2>2. Sorted(a, lo, lo + 1 - 1, by)
      BY DEF Sorted
    <2> QED BY <2>1, <2>2
  <1>3. ASSUME NEW s \in S
        PROVE  /\ Insert[s] \in S
               /\ Insert[s].i = IF s.i > hi THEN s.i ELSE s.i + 1
    <2>1. /\ s \in [a : Seq(Int), i : Nat] /\ s.a \in Numbers(n) /\ s.i \in lo + 1 .. hi + 1
          /\ Shuffled(a, s.a, n, lo, hi)
          /\ by \in Linear => Sorted(s.a, lo, s.i - 1, by)
      OBVIOUS
    <2>2. Insert[s] = IF s.i > hi THEN s
                      ELSE [a |-> Sink(s.a, lo, s.i, s.a[s.i], by), i |-> s.i + 1]
      BY <2>1, Zenon
    <2> HIDE DEF Insert
    <2>3. CASE s.i > hi
      BY <2>2, <2>3
    <2>4. CASE ~(s.i > hi)
      <3> DEFINE j == s.i
                 c == Sink(s.a, lo, j, s.a[j], by)
                 t == [a |-> c, i |-> j + 1]
      <3>1. j \in lo .. n /\ j \in lo .. hi /\ j + 1 \in lo + 1 .. hi + 1 /\ (j + 1) - 1 = j
        BY <2>1, <2>4
      <3>2. /\ c \in Numbers(n) /\ Shuffled(s.a, c, n, lo, j)
            /\ by \in Linear => Sorted(c, lo, j, by)
        <4>1. /\ s.a \in Numbers(n) /\ c = Sink(s.a, lo, j, s.a[j], by)
              /\ by \in Linear => Sorted(s.a, lo, j - 1, by)
          BY <2>1
        <4> HIDE DEF S, c, j
        <4> QED BY <3>1, <4>1, SinkSorts
      <3> HIDE DEF c
      <3>3. Shuffled(s.a, c, n, lo, hi)
        BY <3>1, <3>2, ShuffledWider
      <3>4. Shuffled(a, c, n, lo, hi)
        BY <2>1, <3>3, ShuffledOn
      <3>5. c \in Seq(Int)
        BY <3>2, NumbersAre
      <3>6. t \in S
        BY <2>1, <3>1, <3>2, <3>4, <3>5
      <3> QED BY <2>2, <2>4, <3>6 DEF c
    <2> QED BY <2>3, <2>4
  <1>4. /\ left \in [S -> Nat]
        /\ \A s \in S : left[s] = hi + 1 - s.i /\ s.i \in lo + 1 .. hi + 1
    OBVIOUS
  <1>5. first.i = lo + 1 /\ hi - lo \in Nat
    OBVIOUS
  <1> HIDE DEF S, Insert, first, left
  <1>6. ASSUME NEW s \in S PROVE left[Insert[s]] < left[s] \/ left[Insert[s]] = 0
    <2> DEFINE t == Insert[s]
    <2>1. t \in S /\ t.i = IF s.i > hi THEN s.i ELSE s.i + 1
      BY <1>3
    <2> HIDE DEF t
    <2>2. /\ left[s] = hi + 1 - s.i /\ left[t] = hi + 1 - t.i
          /\ s.i \in lo + 1 .. hi + 1 /\ t.i \in lo + 1 .. hi + 1
      BY <1>4, <2>1
    <2> QED BY <2>1, <2>2 DEF t
  <1>7. end \in S
    BY <1>2, <1>3, <1>5, Rounding
  <1>8. left[first] <= hi - lo
    BY <1>2, <1>4, <1>5
  <1>9. left[end] = 0
    <2> HIDE DEF end
    <2> SUFFICES left[Iterate(Insert, first, hi - lo)] = 0
      BY DEF end
    <2> QED BY <1>2, <1>3, <1>4, <1>5, <1>6, <1>8, RunsOut
  <1> HIDE DEF end
  <1>10. end.i - 1 = hi
    BY <1>4, <1>7, <1>9
  <1> QED BY <1>1, <1>7, <1>10 DEF S

\* The pivot holds the scan upwards, whatever the comparison: only one by which it comes before
\* itself lets the scan leave the copy.  If the first item is not after the pivot, and the last not
\* before it, so are all to the left of where the scans cross, and all from there on.
LEMMA PartitionSplits ==
  ASSUME NEW n \in Nat, NEW a \in Numbers(n), NEW lo \in Nat \ {0}, NEW hi \in 1 .. n,
         lo + 2 <= hi, NEW by \in Orders, NEW p, p = Partition(a, lo, hi, by)
  PROVE  /\ p.a \in Numbers(n) /\ p.i \in {0} \cup lo .. hi - 1 /\ (by # "less" => p.i # 0)
         /\ Shuffled(a, p.a, n, lo, hi)
         /\ (by \in Linear /\ Le(a[lo], a[hi - 1], by) /\ Le(a[hi - 1], a[hi], by)) =>
              /\ p.a[hi - 1] = a[hi - 1]
              /\ \A k \in lo .. p.i - 1 : Le(p.a[k], a[hi - 1], by)
              /\ \A k \in p.i .. hi : Le(a[hi - 1], p.a[k], by)
  <1> DEFINE pivot == a[hi - 1]
             Good == by \in Linear /\ Le(a[lo], pivot, by) /\ Le(pivot, a[hi], by)
             Below(b, to) == \A k \in lo .. to : Le(b[k], pivot, by)
             Above(b, from) == \A k \in from .. hi : Le(pivot, b[k], by)
             Up(s) == {k \in DOMAIN s.a : k > s.i /\ ~(argon_array_compare(s.a[k], pivot, by) < 0)}
             Down(s) == {k \in lo .. s.j - 1 : ~(argon_array_compare(pivot, s.a[k], by) < 0)}
                          \cup {lo}
             Scan == [s \in [a : Seq(Int), i : Nat, j : Nat, over : BOOLEAN] |->
                        IF s.over THEN s
                        ELSE IF Up(s) = {} THEN [s EXCEPT !.i = 0, !.over = TRUE]
                        ELSE IF Min(Up(s)) >= Max(Down(s))
                        THEN [s EXCEPT !.i = Min(Up(s)), !.over = TRUE]
                        ELSE [s EXCEPT !.a = Swapped(@, Min(Up(s)), Max(Down(s))),
                                       !.i = Min(Up(s)), !.j = Max(Down(s))]]
             S == {s \in [a : Seq(Int), i : Nat, j : Nat, over : BOOLEAN] :
                     /\ s.a \in Numbers(n) /\ s.i \in {0} \cup lo .. hi - 1 /\ s.j \in lo .. hi - 1
                     /\ by # "less" => s.i # 0
                     /\ ~s.over => s.i \in lo .. hi - 2 /\ s.i < s.j
                     /\ s.a[hi - 1] = pivot
                     /\ Shuffled(a, s.a, n, lo, hi)
                     /\ Good /\ s.over => Below(s.a, s.i - 1) /\ Above(s.a, s.i)
                     /\ Good /\ ~s.over => Below(s.a, s.i) /\ Above(s.a, s.j)}
             first == [a |-> a, i |-> lo, j |-> hi - 1, over |-> FALSE]
             left == [s \in S |-> IF s.over THEN 0 ELSE s.j - s.i]
             end == Iterate(Scan, first, Len(a))
  <1>1. p = end
    BY Zenon DEF Partition
  <1>2. hi - 1 \in 1 .. n /\ pivot \in Int /\ lo \in 1 .. n /\ hi - 1 \in Nat
    BY NumbersAre
  <1>3. first \in S
    <2>1. a \in Seq(Int) /\ a[lo] \in Int /\ a[hi] \in Int
      BY <1>2, NumbersAre
    <2>2. first \in [a : Seq(Int), i : Nat, j : Nat, over : BOOLEAN]
      BY <1>2, <2>1
    <2>3. lo \in lo .. hi - 1 /\ hi - 1 \in lo .. hi - 1 /\ lo \in lo .. hi - 2 /\ lo # 0
          /\ lo < hi - 1
      BY <1>2
    <2>4. Shuffled(a, a, n, lo, hi)
      BY ShuffledAsIs
    <2>5. ASSUME Good
          PROVE  Below(a, lo) /\ Above(a, hi - 1)
      <3>1. Le(pivot, pivot, by)
        BY <1>2, <2>5, OrderIs
      <3>2. \A k \in lo .. lo : k = lo
        OBVIOUS
      <3>3. \A k \in hi - 1 .. hi : k = hi \/ k = hi - 1
        OBVIOUS
      <3> HIDE DEF pivot
      <3> QED BY <2>5, <3>1, <3>2, <3>3 DEF pivot
    <2> HIDE DEF Good, Below, Above
    <2> QED BY <2>2, <2>3, <2>4, <2>5
  <1> HIDE DEF pivot, Good
  <1>4. ASSUME NEW s \in S
        PROVE  /\ Scan[s] \in S
               /\ Scan[s].over \/ (Scan[s].i > s.i /\ Scan[s].j < s.j /\ ~s.over)
    <2> DEFINE i == Min(Up(s))
               j == Max(Down(s))
    <2>1. /\ s \in [a : Seq(Int), i : Nat, j : Nat, over : BOOLEAN]
          /\ s.a \in Numbers(n) /\ s.i \in {0} \cup lo .. hi - 1 /\ s.j \in lo .. hi - 1
          /\ s.i \in Nat /\ s.j \in Nat /\ s.over \in BOOLEAN
          /\ by # "less" => s.i # 0
          /\ ~s.over => s.i \in lo .. hi - 2 /\ s.i < s.j
          /\ s.a[hi - 1] = pivot
          /\ Shuffled(a, s.a, n, lo, hi)
      OBVIOUS
    <2>2. Scan[s] = IF s.over THEN s
                    ELSE IF Up(s) = {} THEN [s EXCEPT !.i = 0, !.over = TRUE]
                    ELSE IF i >= j THEN [s EXCEPT !.i = i, !.over = TRUE]
                    ELSE [s EXCEPT !.a = Swapped(@, i, j), !.i = i, !.j = j]
      BY <2>1, Zenon
    <2>3. DOMAIN s.a = 1 .. n /\ \A k \in 1 .. n : s.a[k] \in Int
      BY <2>1, NumbersAre
    <2>4. Up(s) \in SUBSET Nat
      BY <2>3
    <2>5. by = "less" => Up(s) = {}
      <3> SUFFICES ASSUME by = "less", NEW k \in Up(s) PROVE FALSE
        BY Zenon
      <3>1. k \in 1 .. n /\ ~(argon_array_compare(s.a[k], pivot, by) < 0)
        BY <2>3
      <3>2. s.a[k] \in Int
        BY <2>3, <3>1
      <3> QED BY <1>2, <3>1, <3>2, Compares
    <2>6. ~s.over /\ by # "less" => hi - 1 \in Up(s)
      <3> SUFFICES ASSUME ~s.over, by # "less" PROVE hi - 1 \in Up(s)
        OBVIOUS
      <3>1. s.a[hi - 1] = pivot /\ hi - 1 > s.i
        BY <2>1, <1>2
      <3>2. ~(argon_array_compare(pivot, pivot, by) < 0)
        BY <1>2, Compares
      <3> QED BY <1>2, <2>3, <3>1, <3>2
    <2>7. /\ Up(s) # {} => \A k \in Up(s) : i <= k
          /\ Up(s) # {} => i \in Up(s)
      <3> HIDE DEF Up
      <3> QED BY <2>4, MinIs
    <2>8. ~s.over /\ Up(s) # {} => by # "less" /\ i \in lo + 1 .. hi - 1 /\ i > s.i
      <3> SUFFICES ASSUME ~s.over, Up(s) # {}
                   PROVE  by # "less" /\ i \in lo + 1 .. hi - 1 /\ i > s.i
        OBVIOUS
      <3>1. by # "less"
        BY <2>5
      <3>2. i <= hi - 1 /\ i \in Up(s)
        BY <2>6, <2>7, <3>1
      <3>3. i \in 1 .. n /\ i > s.i
        BY <2>3, <3>2
      <3> HIDE DEF i, Up
      <3> QED BY <1>2, <2>1, <3>1, <3>2, <3>3
    <2>9. /\ j \in lo .. hi - 1 /\ (j = lo \/ j \in lo .. s.j - 1)
          /\ j = lo \/ ~(argon_array_compare(pivot, s.a[j], by) < 0)
          /\ \A k \in lo .. s.j - 1 : k > j => argon_array_compare(pivot, s.a[k], by) < 0
      <3>1. Down(s) \in SUBSET (0 .. hi) /\ Down(s) # {}
        BY <2>1, <1>2
      <3>2. j \in Down(s) /\ \A k \in Down(s) : k <= j
        <4>1. hi \in Nat
          OBVIOUS
        <4> HIDE DEF Down
        <4> QED BY <3>1, <4>1, MaxIs
      <3>3. j = lo \/ (j \in lo .. s.j - 1 /\ ~(argon_array_compare(pivot, s.a[j], by) < 0))
        BY <3>2
      <3> HIDE DEF j
      <3>4. ASSUME NEW k \in lo .. s.j - 1, k > j PROVE argon_array_compare(pivot, s.a[k], by) < 0
        <4>1. k \notin Down(s)
          BY <3>2, <3>3, <3>4
        <4> QED BY <4>1
      <3> QED BY <2>1, <3>3, <3>4
    <2>10. ASSUME Good, ~s.over, Up(s) # {}
           PROVE  /\ Below(s.a, i - 1) /\ Above(s.a, j + 1)
                  /\ Le(pivot, s.a[i], by) /\ Le(s.a[j], pivot, by)
      <3>1. /\ by \in Linear
            /\ \A k \in lo .. s.i : Le(s.a[k], pivot, by)
            /\ \A k \in s.j .. hi : Le(pivot, s.a[k], by)
        BY <2>10 DEF Good
      <3> HIDE DEF i, j, S, Up
      <3>2. ASSUME NEW k \in lo .. i - 1 PROVE Le(s.a[k], pivot, by)
        <4>1. k \in 1 .. n /\ i \in Int /\ k < i
          BY <1>2, <2>8, <2>10, <3>2
        <4>2. CASE k <= s.i
          BY <2>1, <3>1, <3>2, <4>1, <4>2
        <4>3. CASE k > s.i
          <5>1. k \notin Up(s)
            BY <2>7, <2>10, <4>1
          <5> USE DEF Up
          <5>2. argon_array_compare(s.a[k], pivot, by) < 0
            BY <2>3, <4>1, <4>3, <5>1
          <5>3. s.a[k] \in Int
            BY <2>3, <4>1
          <5>4. ~(argon_array_compare(s.a[k], pivot, by) < 0) <=> Le(pivot, s.a[k], by)
            BY <1>2, <3>1, <5>3, OrderIs
          <5>5. Le(pivot, s.a[k], by) \/ Le(s.a[k], pivot, by)
            BY <1>2, <3>1, <5>3, OrderIs
          <5> QED BY <5>2, <5>4, <5>5
        <4> QED BY <2>1, <4>1, <4>2, <4>3
      <3>3. ASSUME NEW k \in j + 1 .. hi PROVE Le(pivot, s.a[k], by)
        <4>1. k \in 1 .. n /\ j \in Int /\ k > j /\ k \in Int
          BY <1>2, <2>9, <3>3
        <4>2. CASE k >= s.j
          BY <2>1, <3>1, <3>3, <4>1, <4>2
        <4>3. CASE k < s.j
          <5>1. argon_array_compare(pivot, s.a[k], by) < 0
            BY <2>1, <2>9, <4>1, <4>3
          <5>2. s.a[k] \in Int
            BY <2>3, <4>1
          <5>3. ~(argon_array_compare(pivot, s.a[k], by) < 0) <=> Le(s.a[k], pivot, by)
            BY <1>2, <3>1, <5>2, OrderIs
          <5>4. Le(pivot, s.a[k], by) \/ Le(s.a[k], pivot, by)
            BY <1>2, <3>1, <5>2, OrderIs
          <5> QED BY <5>1, <5>3, <5>4
        <4> QED BY <2>1, <4>1, <4>2, <4>3
      <3>4. Le(pivot, s.a[i], by)
        <4>1. i \in 1 .. n /\ ~(argon_array_compare(s.a[i], pivot, by) < 0)
          BY <2>3, <2>7, <2>10 DEF Up
        <4>2. s.a[i] \in Int
          BY <2>3, <4>1
        <4> QED BY <1>2, <3>1, <4>1, <4>2, OrderIs
      <3>5. Le(s.a[j], pivot, by)
        <4>1. j \in 1 .. n
          BY <1>2, <2>9
        <4>2. s.a[j] \in Int
          BY <2>3, <4>1
        <4>3. CASE j = lo
          <5>1. lo \in lo .. s.i
            BY <2>1, <2>10
          <5> QED BY <3>1, <4>3, <5>1
        <4>4. CASE j # lo
          <5>1. ~(argon_array_compare(pivot, s.a[j], by) < 0)
            BY <2>9, <4>4
          <5> QED BY <1>2, <3>1, <4>2, <5>1, OrderIs
        <4> QED BY <4>3, <4>4
      <3> QED BY <3>2, <3>3, <3>4, <3>5
    <2> HIDE DEF i, j, Up, Down, Scan, Below, Above
    <2>11. CASE s.over
      BY <2>2, <2>11
    <2>12. CASE ~s.over /\ Up(s) = {}
      <3> DEFINE t == [a |-> s.a, i |-> 0, j |-> s.j, over |-> TRUE]
      <3>1. Scan[s] = t
        BY <2>1, <2>2, <2>12
      <3>2. by = "less" /\ ~Good
        BY <2>6, <2>12 DEF Good, Linear
      <3>3. t \in [a : Seq(Int), i : Nat, j : Nat, over : BOOLEAN]
        BY <2>1
      <3>4. t \in S
        BY <2>1, <3>2, <3>3
      <3> QED BY <3>1, <3>4
    <2>13. CASE ~s.over /\ Up(s) # {} /\ i >= j
      <3> DEFINE t == [a |-> s.a, i |-> i, j |-> s.j, over |-> TRUE]
      <3>1. Scan[s] = t
        BY <2>1, <2>2, <2>13
      <3>2. i \in Nat /\ i \in lo .. hi - 1 /\ i # 0
        BY <1>2, <2>8, <2>13
      <3>3. ASSUME Good
            PROVE  Below(s.a, i - 1) /\ Above(s.a, i)
        <4>1. \A k \in i .. hi : k = i \/ k \in j + 1 .. hi
          BY <2>9, <2>13, <3>2
        <4> QED BY <2>10, <2>13, <3>3, <4>1 DEF Above
      <3>4. t \in S
        <4>1. t \in [a : Seq(Int), i : Nat, j : Nat, over : BOOLEAN]
          BY <2>1, <3>2
        <4> QED BY <2>1, <3>2, <3>3, <4>1
      <3> QED BY <3>1, <3>4
    <2>14. CASE ~s.over /\ Up(s) # {} /\ ~(i >= j)
      <3> DEFINE b == Swapped(s.a, i, j)
                 t == [a |-> b, i |-> i, j |-> j, over |-> FALSE]
      <3>1. Scan[s] = t
        BY <2>1, <2>2, <2>14
      <3>2. /\ i \in Nat /\ j \in Nat /\ i \in lo .. hi - 2 /\ i # 0 /\ i < j /\ j < hi - 1
            /\ i \in 1 .. n /\ j \in 1 .. n /\ i \in lo .. hi /\ j \in lo .. hi /\ j < s.j
        <4>1. i \in Int /\ i >= lo + 1 /\ i <= hi - 1 /\ j \in Int /\ j >= lo /\ i < j
          BY <2>8, <2>9, <2>14
        <4>2. s.j \in Int /\ s.j <= hi - 1 /\ j <= s.j - 1
          BY <2>1, <2>9, <4>1
        <4>3. n \in Nat /\ lo \in Nat \ {0} /\ hi \in 1 .. n
          OBVIOUS
        <4>4. i \in Nat /\ j \in Nat /\ i >= 1 /\ j >= 1
          BY ONLY <4>1, <4>3
        <4>5. j < hi - 1 /\ i <= hi - 2 /\ i <= n /\ j <= n /\ j < s.j
          BY ONLY <4>1, <4>2, <4>3, <4>4
        <4> QED BY ONLY <4>1, <4>3, <4>4, <4>5
      <3>3. b \in Numbers(n) /\ b[hi - 1] = pivot
        <4>1. hi - 1 # i /\ hi - 1 # j /\ s.a[hi - 1] = pivot /\ s.a \in Numbers(n)
          BY <2>1, <2>14, <3>2
        <4>2. b \in Numbers(n)
          BY <3>2, <4>1, SwappedIs
        <4>3. Swapped(s.a, i, j)[hi - 1] = s.a[hi - 1]
          BY <1>2, <2>3, <3>2, <4>1 DEF Swapped
        <4> QED BY <4>1, <4>2, <4>3
      <3>4. b[i] = s.a[j] /\ b[j] = s.a[i] /\ \A k \in 1 .. n : k # i /\ k # j => b[k] = s.a[k]
        BY <2>3, <3>2 DEF Swapped
      <3>5. Shuffled(a, b, n, lo, hi)
        <4>1. Shuffled(s.a, b, n, lo, hi)
          BY <1>2, <2>3, <3>2, SwapShuffles
        <4> HIDE DEF b
        <4> QED BY <2>1, <4>1, ShuffledOn
      <3> HIDE DEF b
      <3>6. ASSUME Good
            PROVE  Below(b, i) /\ Above(b, j)
        <4>1. /\ \A k \in lo .. i - 1 : Le(s.a[k], pivot, by)
              /\ \A k \in j + 1 .. hi : Le(pivot, s.a[k], by)
              /\ Le(pivot, s.a[i], by) /\ Le(s.a[j], pivot, by)
          BY <2>10, <2>14, <3>6 DEF Below, Above
        <4>2. ASSUME NEW k \in lo .. i PROVE Le(b[k], pivot, by)
          <5>1. k = i \/ (k \in lo .. i - 1 /\ k \in 1 .. n /\ k # i /\ k # j)
            BY <1>2, <3>2
          <5> QED BY <3>4, <4>1, <5>1
        <4>3. ASSUME NEW k \in j .. hi PROVE Le(pivot, b[k], by)
          <5>1. k = j \/ (k \in j + 1 .. hi /\ k \in 1 .. n /\ k # i /\ k # j)
            BY <1>2, <3>2
          <5> QED BY <3>4, <4>1, <5>1
        <4> QED BY <4>2, <4>3 DEF Below, Above
      <3>7. b \in Seq(Int) /\ i \in lo .. hi - 1 /\ j \in lo .. hi - 1
        <4>1. b \in Seq(Int)
          BY ONLY <3>3 DEF Numbers
        <4> QED BY ONLY <4>1, <2>9, <3>2
      <3>8. t \in S
        <4>1. t \in [a : Seq(Int), i : Nat, j : Nat, over : BOOLEAN]
          BY <3>2, <3>7
        <4> QED BY <3>2, <3>3, <3>5, <3>6, <3>7, <4>1
      <3> QED BY <2>8, <2>14, <3>1, <3>2, <3>8
    <2> QED BY <2>11, <2>12, <2>13, <2>14
  <1>5. /\ left \in [S -> Nat]
        /\ \A s \in S : /\ left[s] = IF s.over THEN 0 ELSE s.j - s.i
                        /\ ~s.over => s.i < s.j
                        /\ s.i \in Nat /\ s.j \in Nat
    OBVIOUS
  <1>6. first.j - first.i <= Len(a) /\ Len(a) \in Nat /\ ~first.over
    BY <1>2, NumbersAre
  <1>7. \A s \in S : /\ s.a \in Numbers(n) /\ s.i \in {0} \cup lo .. hi - 1
                     /\ by # "less" => s.i # 0
                     /\ Shuffled(a, s.a, n, lo, hi)
                     /\ s.a[hi - 1] = pivot
                     /\ Good /\ s.over => Below(s.a, s.i - 1) /\ Above(s.a, s.i)
    OBVIOUS
  <1> HIDE DEF S, Scan, first, left
  <1>8. ASSUME NEW s \in S PROVE left[Scan[s]] < left[s] \/ left[Scan[s]] = 0
    BY <1>4, <1>5
  <1>9. end \in S
    BY <1>3, <1>4, <1>6, Rounding
  <1>10. left[first] <= Len(a)
    BY <1>3, <1>5, <1>6
  <1>11. left[Iterate(Scan, first, Len(a))] = 0
    <2> DEFINE m == Len(a)
    <2>1. m \in Nat /\ left[first] <= m
      BY <1>6, <1>10
    <2> HIDE DEF m, end, Up, Down, Below, Above
    <2>2. /\ \A s \in S : Scan[s] \in S
          /\ \A s \in S : left[Scan[s]] < left[s] \/ left[Scan[s]] = 0
          /\ left \in [S -> Nat]
      BY <1>4, <1>5, <1>8
    <2>3. left[Iterate(Scan, first, m)] = 0
      BY <1>3, <2>1, <2>2, RunsOut
    <2> QED BY <2>3 DEF m
  <1> HIDE DEF end
  <1>12. end.over
    <2>1. left[end] = 0
      BY <1>11 DEF end
    <2> QED BY <1>5, <1>9, <2>1
  <1> HIDE DEF Below, Above
  <1>13. Good => p.a[hi - 1] = pivot /\ Below(p.a, p.i - 1) /\ Above(p.a, p.i)
    BY <1>1, <1>7, <1>9, <1>12
  <1> QED BY <1>1, <1>7, <1>9, <1>13 DEF Good, pivot, Below, Above

\* Parts of a list of n that the sort has still to do.
Parts(n) == {p \in Nat \X Nat : 1 <= p[1] /\ p[1] < p[2] /\ p[2] <= n}

\* The first of the parts to do lies in the list.
LEMMA PartsAre ==
  ASSUME NEW n, n \in Nat, NEW s, s \in Seq(Parts(n))
  PROVE  /\ s \in Seq(Nat \X Nat)
         /\ s # <<>> =>
              /\ Tail(s) \in Seq(Parts(n))
              /\ Head(s)[1] \in Nat /\ Head(s)[2] \in Nat
              /\ 1 <= Head(s)[1] /\ Head(s)[1] < Head(s)[2] /\ Head(s)[2] <= n
  <1> DEFINE P == Parts(n)
  <1>1. P \subseteq Nat \X Nat
    BY DEF Parts
  <1>2. s \in Seq(Nat \X Nat)
    <2> DEFINE Q == Nat \X Nat
    <2> HIDE DEF P, Q
    <2>1. P \subseteq Q /\ s \in Seq(P)
      BY <1>1 DEF P, Q
    <2>2. Len(s) \in Nat /\ s \in [1 .. Len(s) -> Q]
      BY <2>1
    <2>3. s \in Seq(Q)
      BY <2>1, <2>2
    <2> QED BY <2>3 DEF Q
  <1>3. ASSUME s # <<>> PROVE Head(s) \in P /\ Tail(s) \in Seq(P)
    <2> HIDE DEF P
    <2>1. s \in Seq(P)
      BY DEF P
    <2> QED BY <1>3, <2>1
  <1> QED BY <1>2, <1>3 DEF Parts

\* Three items and two swaps on, the first is not after the last but one, which is not after the
\* last.
LEMMA MedianSplits ==
  ASSUME NEW n \in Nat, NEW a \in Numbers(n), NEW l \in 1 .. n, NEW h \in 1 .. n,
         NEW m \in l + 1 .. h - 1, NEW by, NEW b1, b1 = InOrder(a, l, m, by),
         NEW b2, b2 = InOrder(b1, l, h, by), NEW b3, b3 = InOrder(b2, m, h, by),
         NEW b, b = Swapped(b3, m, h - 1)
  PROVE  /\ b \in Numbers(n) /\ Shuffled(a, b, n, l, h)
         /\ by \in Linear => Le(b[l], b[h - 1], by) /\ Le(b[h - 1], b[h], by)
  <1>1. /\ m \in 1 .. n /\ h - 1 \in 1 .. n /\ l < m /\ m < h /\ l < h /\ l # h - 1
        /\ l \in l .. h /\ m \in l .. h /\ h \in l .. h /\ h - 1 \in l .. h
    OBVIOUS
  <1>2. b1 \in Numbers(n) /\ b2 \in Numbers(n) /\ b3 \in Numbers(n)
    BY <1>1, InOrderIs
  <1>3. b \in Numbers(n)
    BY <1>1, <1>2, SwappedIs
  <1>4. Shuffled(a, b1, n, l, h) /\ Shuffled(b1, b2, n, l, h) /\ Shuffled(b2, b3, n, l, h)
    BY <1>1, <1>2, InOrderShuffles
  <1>5. DOMAIN b3 = 1 .. n
    BY <1>2, NumbersAre
  <1>6. Shuffled(b3, b, n, l, h)
    BY <1>1, <1>5, SwapShuffles
  <1>7. Shuffled(a, b, n, l, h)
    <2>1. Shuffled(a, b2, n, l, h)
      BY <1>4, ShuffledOn
    <2>2. Shuffled(a, b3, n, l, h)
      BY <1>4, <2>1, ShuffledOn
    <2> QED BY <1>6, <2>2, ShuffledOn
  <1>8. ASSUME by \in Linear
        PROVE  Le(b[l], b[h - 1], by) /\ Le(b[h - 1], b[h], by)
    <2>1. /\ a[l] \in Int /\ a[m] \in Int /\ a[h] \in Int
          /\ b1[l] \in Int /\ b1[m] \in Int /\ b1[h] \in Int
          /\ b2[l] \in Int /\ b2[m] \in Int /\ b2[h] \in Int
      BY <1>1, <1>2, NumbersAre
    <2>2. Le(b1[l], b1[m], by)
      BY <1>1, <1>8, InOrderSorts
    <2>3. /\ Le(b2[l], b2[h], by) /\ b2[m] = b1[m]
          /\ (b2[l] = b1[l] /\ b2[h] = b1[h]) \/ (b2[l] = b1[h] /\ b2[h] = b1[l])
      BY <1>1, <1>2, <1>8, InOrderSorts
    <2>4. /\ Le(b3[m], b3[h], by) /\ b3[l] = b2[l]
          /\ (b3[m] = b2[m] /\ b3[h] = b2[h]) \/ (b3[m] = b2[h] /\ b3[h] = b2[m])
      BY <1>1, <1>2, <1>8, InOrderSorts
    <2>5. Le(b2[l], b2[m], by)
      <3>1. CASE b2[l] = b1[l]
        BY <2>2, <2>3, <3>1
      <3>2. CASE b2[l] = b1[h] /\ b2[h] = b1[l]
        BY <1>8, <2>1, <2>2, <2>3, <3>2, OrderIs
      <3> QED BY <2>3, <3>1, <3>2
    <2>6. Le(b3[l], b3[m], by)
      BY <2>3, <2>4, <2>5
    <2>7. b[h - 1] = b3[m] /\ b[l] = b3[l] /\ b[h] = b3[h]
      BY <1>1, <1>5 DEF Swapped
    <2> QED BY <2>4, <2>6, <2>7
  <1> QED BY <1>3, <1>7, <1>8

\* The parts lie one after the other.
Apart(todo) == \A p, q \in DOMAIN todo : p < q => todo[p][2] < todo[q][1]

\* x and y lie in one of them.
Together(todo, x, y) == \E p \in DOMAIN todo : todo[p][1] <= x /\ y <= todo[p][2]

\* Two items are in order if they do not lie in one of them.
Split(a, todo, n, by) == \A x, y \in 1 .. n : x < y => Le(a[x], a[y], by) \/ Together(todo, x, y)

\* The positions that lie in one of them.
Covered(todo, n) == {k \in 1 .. n : Together(todo, k, k)}

\* What it means to put parts before others.
LEMMA PartsJoined ==
  ASSUME NEW n \in Nat, NEW some \in Seq(Parts(n)), NEW rest \in Seq(Parts(n)),
         NEW t, t = some \o rest
  PROVE  /\ t \in Seq(Parts(n)) /\ DOMAIN t = 1 .. Len(some) + Len(rest)
         /\ \A p \in DOMAIN some : t[p] = some[p] /\ p \in DOMAIN t
         /\ \A p \in DOMAIN rest : t[p + Len(some)] = rest[p] /\ p + Len(some) \in DOMAIN t
         /\ \A p \in DOMAIN t : p \notin DOMAIN some =>
              p - Len(some) \in DOMAIN rest /\ t[p] = rest[p - Len(some)]
  <1> DEFINE P == Parts(n)
  <1> HIDE DEF P
  <1>1. some \in Seq(P) /\ rest \in Seq(P)
    BY DEF P
  <1>2. /\ t \in Seq(P) /\ DOMAIN t = 1 .. Len(some) + Len(rest)
        /\ \A p \in DOMAIN some : t[p] = some[p]
        /\ DOMAIN some = 1 .. Len(some) /\ DOMAIN rest = 1 .. Len(rest)
        /\ Len(some) \in Nat /\ Len(rest) \in Nat
        /\ \A p \in DOMAIN t : p \notin DOMAIN some => t[p] = rest[p - Len(some)]
    BY <1>1
  <1>3. \A p \in DOMAIN rest : t[p + Len(some)] = rest[p] /\ p + Len(some) \in DOMAIN t
    BY <1>1, <1>2
  <1>4. \A p \in DOMAIN t : p \notin DOMAIN some => p - Len(some) \in DOMAIN rest
    BY <1>2
  <1> QED BY <1>2, <1>3, <1>4 DEF P

\* l .. h is the first of several parts that lie one after the other.
First(todo, l, h, n) ==
  todo \in Seq(Parts(n)) /\ todo # <<>> /\ Apart(todo) /\ l = todo[1][1] /\ h = todo[1][2]

\* Such parts lie within l .. h.
Within(some, l, h, n) ==
  some \in Seq(Parts(n)) /\ Apart(some) /\ \A p \in DOMAIN some : l <= some[p][1] /\ some[p][2] <= h

\* t is what is left of todo when l .. h, its first part, is but for these parts of it.
Reduced(todo, t, l, h, some, n) ==
  /\ t \in Seq(Parts(n)) /\ Apart(t) /\ l \in 1 .. n /\ h \in 1 .. n /\ l < h
  /\ Covered(t, n) \subseteq Covered(todo, n)
  /\ \A k \in l .. h : ~Together(some, k, k) => k \notin Covered(t, n) /\ k \in Covered(todo, n)
  /\ \A x, y \in 1 .. n : Together(some, x, y) => Together(t, x, y)
  /\ \A x, y \in 1 .. n : x <= y /\ Together(todo, x, y) /\ (x \notin l .. h \/ y \notin l .. h)
                            => Together(t, x, y) /\ x > h

\* When the first part has been dealt with, and parts of it are left.
LEMMA PartDone ==
  ASSUME NEW n \in Nat, NEW todo, NEW l, NEW h, First(todo, l, h, n),
         NEW some, Within(some, l, h, n), NEW t, t = some \o Tail(todo)
  PROVE  Reduced(todo, t, l, h, some, n)
  <1>0. /\ todo \in Seq(Parts(n)) /\ todo # <<>> /\ Apart(todo) /\ l = todo[1][1] /\ h = todo[1][2]
        /\ some \in Seq(Parts(n)) /\ Apart(some)
        /\ \A p \in DOMAIN some : l <= some[p][1] /\ some[p][2] <= h
    BY DEF First, Within
  <1> DEFINE rest == Tail(todo)
             r == Len(some)
  <1>1. /\ rest \in Seq(Parts(n)) /\ DOMAIN todo = 1 .. Len(todo) /\ 1 \in DOMAIN todo
        /\ DOMAIN rest = 1 .. Len(todo) - 1 /\ Len(todo) \in Nat
        /\ \A p \in DOMAIN rest : rest[p] = todo[p + 1] /\ p + 1 \in DOMAIN todo
    <2> DEFINE P == Parts(n)
    <2> HIDE DEF P
    <2>1. todo \in Seq(P) /\ todo # <<>>
      BY <1>0 DEF P
    <2> QED BY <2>1 DEF P
  <1>2. \A p \in DOMAIN todo : todo[p][1] \in Nat /\ todo[p][2] \in Nat
                                /\ 1 <= todo[p][1] /\ todo[p][1] < todo[p][2] /\ todo[p][2] <= n
    <2> SUFFICES ASSUME NEW p \in DOMAIN todo
                 PROVE todo[p][1] \in Nat /\ todo[p][2] \in Nat
                       /\ 1 <= todo[p][1] /\ todo[p][1] < todo[p][2] /\ todo[p][2] <= n
      OBVIOUS
    <2>1. todo[p] \in Parts(n)
      BY <1>0, <1>1, ElementOfSeq
    <2> QED BY <2>1 DEF Parts
  <1>3. \A p \in DOMAIN some : some[p][1] \in Nat /\ some[p][2] \in Nat
    <2> SUFFICES ASSUME NEW p \in DOMAIN some PROVE some[p][1] \in Nat /\ some[p][2] \in Nat
      OBVIOUS
    <2>1. some[p] \in Parts(n)
      BY <1>0, ElementOfSeq
    <2> QED BY <2>1 DEF Parts
  <1> HIDE DEF rest
  <1>4. /\ t \in Seq(Parts(n)) /\ r \in Nat /\ DOMAIN some = 1 .. r
        /\ \A p \in DOMAIN some : t[p] = some[p] /\ p \in DOMAIN t
        /\ \A p \in DOMAIN rest : t[p + r] = rest[p] /\ p + r \in DOMAIN t
        /\ \A p \in DOMAIN t : p \notin DOMAIN some => p - r \in DOMAIN rest /\ t[p] = rest[p - r]
        /\ DOMAIN t = 1 .. r + Len(rest) /\ Len(rest) \in Nat
    BY <1>0, <1>1, PartsJoined DEF rest
  <1> HIDE DEF r
  <1>5. \A p \in DOMAIN rest : h < rest[p][1] /\ rest[p][1] < rest[p][2] /\ rest[p][1] \in Nat
                                /\ rest[p][2] \in Nat
    <2> SUFFICES ASSUME NEW p \in DOMAIN rest
                 PROVE h < rest[p][1] /\ rest[p][1] < rest[p][2] /\ rest[p][1] \in Nat
                       /\ rest[p][2] \in Nat
      OBVIOUS
    <2>1. p + 1 \in DOMAIN todo /\ 1 < p + 1 /\ rest[p] = todo[p + 1]
      BY <1>1
    <2> QED BY <1>0, <1>1, <1>2, <2>1 DEF Apart
  <1>6. l \in Nat /\ h \in Nat /\ 1 <= l /\ l < h /\ h <= n
    BY <1>0, <1>1, <1>2
  <1>7. Apart(t)
    <2> SUFFICES ASSUME NEW p \in DOMAIN t, NEW q \in DOMAIN t, p < q PROVE t[p][2] < t[q][1]
      BY DEF Apart
    <2>0. p \in Int /\ q \in Int
      BY <1>4
    <2>1. CASE q \in DOMAIN some
      <3>1. p \in DOMAIN some
        BY <1>4, <2>0, <2>1
      <3> QED BY <1>0, <1>4, <2>1, <3>1 DEF Apart
    <2>2. CASE p \in DOMAIN some /\ q \notin DOMAIN some
      <3>1. t[p][2] <= h /\ t[p][2] \in Nat
        BY <1>0, <1>3, <1>4, <2>2
      <3>2. h < t[q][1] /\ t[q][1] \in Nat
        BY <1>4, <1>5, <2>2
      <3> QED BY ONLY <1>6, <3>1, <3>2
    <2>3. CASE p \notin DOMAIN some /\ q \notin DOMAIN some
      <3>1. p - r \in DOMAIN rest /\ t[p] = rest[p - r] /\ q - r \in DOMAIN rest
            /\ t[q] = rest[q - r]
        BY <1>4, <2>3
      <3>2. (p - r) + 1 \in DOMAIN todo /\ t[p] = todo[(p - r) + 1]
            /\ (q - r) + 1 \in DOMAIN todo /\ t[q] = todo[(q - r) + 1]
        BY <1>1, <3>1
      <3>3. (p - r) + 1 < (q - r) + 1
        BY <1>4, <2>0
      <3> QED BY <1>0, <3>2, <3>3 DEF Apart
    <2> QED BY <2>1, <2>2, <2>3
  <1>8. ASSUME NEW x \in 1 .. n, NEW y \in 1 .. n, x <= y, Together(t, x, y)
        PROVE  /\ Together(todo, x, y)
               /\ x \in l .. h => Together(some, x, y)
    <2>1. PICK p \in DOMAIN t : t[p][1] <= x /\ y <= t[p][2]
      BY <1>8 DEF Together
    <2>2. CASE p \in DOMAIN some
      <3>1. some[p][1] <= x /\ y <= some[p][2]
        BY <1>4, <2>1, <2>2
      <3>2. l <= x /\ y <= h
        BY <1>0, <1>3, <1>6, <2>2, <3>1
      <3> QED BY <1>0, <1>1, <2>2, <3>1, <3>2 DEF Together
    <2>3. CASE p \notin DOMAIN some
      <3>1. p - r \in DOMAIN rest /\ t[p] = rest[p - r]
        BY <1>4, <2>3
      <3> DEFINE v == p - r
      <3>2. h < t[p][1] /\ t[p][1] \in Nat
        BY <1>5, <3>1
      <3>3. h < x /\ x \notin l .. h
        BY ONLY <1>6, <2>1, <3>2, x \in 1 .. n, n \in Nat
      <3>4. v + 1 \in DOMAIN todo /\ t[p] = todo[v + 1]
        BY <1>1, <3>1
      <3> HIDE DEF v
      <3>5. Together(todo, x, y)
        BY ONLY <2>1, <3>4 DEF Together
      <3> QED BY ONLY <3>3, <3>5
    <2> QED BY <2>2, <2>3
  <1>9. Covered(t, n) \subseteq Covered(todo, n)
    BY <1>8 DEF Covered
  <1>10. ASSUME NEW k \in l .. h, ~Together(some, k, k)
         PROVE  k \notin Covered(t, n) /\ k \in Covered(todo, n)
    <2>1. k \in 1 .. n
      BY <1>6
    <2>2. ~Together(t, k, k)
      BY <1>8, <1>10, <2>1
    <2>3. l <= k /\ k <= h
      BY <1>6
    <2>4. Together(todo, k, k)
      BY ONLY <1>0, <1>1, <2>3 DEF Together
    <2> QED BY <2>1, <2>2, <2>4 DEF Covered
  <1>11. ASSUME NEW x \in 1 .. n, NEW y \in 1 .. n, Together(some, x, y)
         PROVE  Together(t, x, y)
    <2>1. PICK p \in DOMAIN some : some[p][1] <= x /\ y <= some[p][2]
      BY <1>11 DEF Together
    <2> QED BY <1>4, <2>1 DEF Together
  <1>12. ASSUME NEW x \in 1 .. n, NEW y \in 1 .. n, x <= y, Together(todo, x, y),
                x \notin l .. h \/ y \notin l .. h
         PROVE  Together(t, x, y) /\ x > h
    <2>1. PICK p \in DOMAIN todo : todo[p][1] <= x /\ y <= todo[p][2]
      BY <1>12 DEF Together
    <2>2. p # 1
      BY <1>0, <1>6, <1>12, <2>1
    <2>3. p - 1 \in DOMAIN rest /\ rest[p - 1] = todo[p]
      <3>1. p - 1 \in DOMAIN rest /\ (p - 1) + 1 = p
        BY <1>1, <2>2
      <3> QED BY <1>1, <3>1
    <2>4. (p - 1) + r \in DOMAIN t /\ t[(p - 1) + r] = todo[p]
      BY <1>4, <2>3
    <2>5. h < todo[p][1] /\ todo[p][1] \in Nat
      BY <1>5, <2>3
    <2>6. x > h
      BY ONLY <1>6, <2>1, <2>5, x \in 1 .. n, n \in Nat
    <2> DEFINE v == (p - 1) + r
    <2>7. v \in DOMAIN t /\ t[v] = todo[p]
      BY <2>4
    <2> HIDE DEF v
    <2>8. Together(t, x, y)
      BY ONLY <2>1, <2>7 DEF Together
    <2> QED BY <2>6, <2>8
  <1> QED BY <1>4, <1>6, <1>7, <1>9, <1>10, <1>11, <1>12 DEF Reduced

\* If items are moved within the first part only, and in order except for the parts of it that are
\* left, then items that do not lie in one part are still in order.
LEMMA SplitStill ==
  ASSUME NEW n \in Nat, NEW a \in Numbers(n), NEW c \in Numbers(n), NEW by \in Linear,
         NEW todo, NEW l, NEW h, First(todo, l, h, n), Split(a, todo, n, by),
         NEW some, Within(some, l, h, n), Shuffled(a, c, n, l, h),
         \A x, y \in l .. h : x < y => Le(c[x], c[y], by) \/ Together(some, x, y)
  PROVE  Split(c, some \o Tail(todo), n, by)
  <1> DEFINE t == some \o Tail(todo)
  <1>0. Reduced(todo, t, l, h, some, n)
    BY PartDone
  <1> HIDE DEF t
  <1>1. /\ \A x, y \in 1 .. n : Together(some, x, y) => Together(t, x, y)
        /\ \A x, y \in 1 .. n :
             x <= y /\ Together(todo, x, y) /\ (x \notin l .. h \/ y \notin l .. h)
                                   => Together(t, x, y) /\ x > h
        /\ l \in 1 .. n /\ h \in 1 .. n
    BY <1>0 DEF Reduced
  <1> SUFFICES ASSUME NEW x \in 1 .. n, NEW y \in 1 .. n, x < y
               PROVE  Le(c[x], c[y], by) \/ Together(t, x, y)
    BY DEF Split, t
  <1>2. \A u, v \in 1 .. n : u < v => Le(a[u], a[v], by) \/ Together(todo, u, v)
    BY DEF Split
  <1>3. CASE x \in l .. h /\ y \in l .. h
    BY <1>1, <1>3
  <1>4. CASE x \notin l .. h /\ y \notin l .. h
    <2>1. c[x] = a[x] /\ c[y] = a[y]
      BY <1>4, ShuffledFrom
    <2> QED BY <1>1, <1>2, <1>4, <2>1
  <1>5. CASE x \notin l .. h /\ y \in l .. h
    <2>1. c[x] = a[x]
      BY <1>5, ShuffledFrom
    <2>2. PICK m \in 1 .. n : m \in l .. h /\ c[y] = a[m]
      BY <1>5, ShuffledFrom
    <2>3. x < l /\ x < m
      BY ONLY <1>5, <2>2, x < y, x \in 1 .. n, n \in Nat, <1>1
    <2>4. ~(x > h)
      BY ONLY <1>5, <2>3, <1>1, x \in 1 .. n, n \in Nat, y \in 1 .. n
    <2>5. ~Together(todo, x, m)
      BY <1>1, <1>5, <2>3, <2>4
    <2> QED BY <1>2, <2>1, <2>2, <2>3, <2>5
  <1>6. CASE x \in l .. h /\ y \notin l .. h
    <2>1. c[y] = a[y]
      BY <1>6, ShuffledFrom
    <2>2. PICK m \in 1 .. n : m \in l .. h /\ c[x] = a[m]
      BY <1>6, ShuffledFrom
    <2>3. m < y /\ ~(m > h)
      BY ONLY <1>6, <2>2, x < y, x \in 1 .. n, n \in Nat, <1>1, y \in 1 .. n
    <2>5. ~Together(todo, m, y)
      BY <1>1, <1>6, <2>3
    <2> QED BY <1>2, <2>1, <2>2, <2>3, <2>5
  <1> QED BY <1>3, <1>4, <1>5, <1>6

\* A list of one or of two, put together.
LEMMA ListedParts ==
  ASSUME NEW p, NEW r
  PROVE  /\ DOMAIN (<<>> \o <<>>) = {}
         /\ DOMAIN (<<p>> \o <<>>) = {1} /\ (<<p>> \o <<>>)[1] = p
         /\ DOMAIN (<<>> \o <<r>>) = {1} /\ (<<>> \o <<r>>)[1] = r
         /\ DOMAIN (<<p>> \o <<r>>) = {1, 2} /\ (<<p>> \o <<r>>)[1] = p /\ (<<p>> \o <<r>>)[2] = r
  OBVIOUS

\* c has the items of a, those of the part l .. h in order but for the parts of it in some.
InPart(a, c, some, l, h, n, by) ==
  /\ c \in Numbers(n) /\ Shuffled(a, c, n, l, h)
  /\ Within(some, l, h, n) /\ \E k \in l .. h : ~Together(some, k, k)
  /\ by \in Linear => \A x, y \in l .. h : x < y => Le(c[x], c[y], by) \/ Together(some, x, y)

\* The pivot in its place: what is left to be sorted lies to its left and to its right.
LEMMA PivotSplits ==
  ASSUME NEW n \in Nat, NEW a \in Numbers(n), NEW l \in Nat \ {0}, NEW h \in 1 .. n,
         l + 2 <= h, NEW by \in Orders, NEW q, q = Partition(a, l, h, by), q.i # 0,
         by \in Linear => Le(a[l], a[h - 1], by) /\ Le(a[h - 1], a[h], by),
         NEW c, c = Swapped(q.a, q.i, h - 1),
         NEW some, some = (IF q.i - 1 > l THEN << <<l, q.i - 1>> >> ELSE <<>>)
                          \o (IF q.i + 1 < h THEN << <<q.i + 1, h>> >> ELSE <<>>)
  PROVE  InPart(a, c, some, l, h, n, by)
  <1> DEFINE i == q.i
             pivot == a[h - 1]
             Good == by \in Linear /\ Le(a[l], pivot, by) /\ Le(pivot, a[h], by)
  <1>1. /\ q.a \in Numbers(n) /\ i \in l .. h - 1
        /\ Shuffled(a, q.a, n, l, h)
        /\ Good => /\ q.a[h - 1] = pivot
                   /\ \A k \in l .. i - 1 : Le(q.a[k], pivot, by)
                   /\ \A k \in i .. h : Le(pivot, q.a[k], by)
    <2>1. /\ q.a \in Numbers(n) /\ q.i \in {0} \cup l .. h - 1
          /\ Shuffled(a, q.a, n, l, h)
          /\ (by \in Linear /\ Le(a[l], a[h - 1], by) /\ Le(a[h - 1], a[h], by)) =>
              /\ q.a[h - 1] = a[h - 1]
              /\ \A k \in l .. q.i - 1 : Le(q.a[k], a[h - 1], by)
              /\ \A k \in q.i .. h : Le(a[h - 1], q.a[k], by)
      BY PartitionSplits
    <2> QED BY <2>1
  <1> HIDE DEF pivot
  <1>2. /\ i \in Nat /\ i \in 1 .. n /\ h - 1 \in 1 .. n /\ i \in l .. h /\ h - 1 \in l .. h
        /\ l \in 1 .. n /\ h \in Nat
    BY <1>1
  <1> DEFINE left == IF i - 1 > l THEN << <<l, i - 1>> >> ELSE <<>>
             right == IF i + 1 < h THEN << <<i + 1, h>> >> ELSE <<>>
  <1>3. some = left \o right
    OBVIOUS
  <1> HIDE DEF i, Good
  <1>4. c \in Numbers(n) /\ DOMAIN q.a = 1 .. n
    BY <1>1, <1>2, SwappedIs, NumbersAre DEF i
  <1>5. Shuffled(a, c, n, l, h)
    <2>1. Shuffled(q.a, c, n, l, h)
      BY <1>2, <1>4, SwapShuffles DEF i
    <2> QED BY <1>1, <2>1, ShuffledOn
  <1>6. /\ left \in Seq(Parts(n)) /\ right \in Seq(Parts(n))
        /\ (i - 1 > l /\ left = << <<l, i - 1>> >>) \/ (i - 1 <= l /\ left = <<>>)
        /\ (i + 1 < h /\ right = << <<i + 1, h>> >>) \/ (i + 1 >= h /\ right = <<>>)
    <2> DEFINE P == Parts(n)
    <2>1. i - 1 > l => <<l, i - 1>> \in P
      BY <1>2 DEF Parts
    <2>2. i + 1 < h => <<i + 1, h>> \in P
      BY <1>2 DEF Parts
    <2> HIDE DEF P
    <2>3. left \in Seq(P)
      BY <2>1
    <2>4. right \in Seq(P)
      BY <2>2
    <2> QED BY <1>2, <2>3, <2>4 DEF P
  <1> HIDE DEF left, right
  <1>7. /\ some \in Seq(Parts(n))
        /\ \/ DOMAIN some = {} /\ i - 1 <= l /\ i + 1 >= h
           \/ DOMAIN some = {1} /\ some[1][1] = l /\ some[1][2] = i - 1 /\ i - 1 > l /\ i + 1 >= h
           \/ DOMAIN some = {1} /\ some[1][1] = i + 1 /\ some[1][2] = h /\ i - 1 <= l /\ i + 1 < h
           \/ /\ DOMAIN some = {1, 2} /\ i - 1 > l /\ i + 1 < h
              /\ some[1][1] = l /\ some[1][2] = i - 1 /\ some[2][1] = i + 1 /\ some[2][2] = h
    <2>1. some \in Seq(Parts(n))
      BY <1>3, <1>6, PartsJoined
    <2> DEFINE u == i - 1
               v == i + 1
    <2>2. /\ (u > l /\ left = << <<l, u>> >>) \/ (u <= l /\ left = <<>>)
          /\ (v < h /\ right = << <<v, h>> >>) \/ (v >= h /\ right = <<>>)
      BY <1>6
    <2> HIDE DEF u, v
    <2>3. /\ \/ DOMAIN some = {} /\ u <= l /\ v >= h
             \/ DOMAIN some = {1} /\ some[1][1] = l /\ some[1][2] = u /\ u > l /\ v >= h
             \/ DOMAIN some = {1} /\ some[1][1] = v /\ some[1][2] = h /\ u <= l /\ v < h
             \/ /\ DOMAIN some = {1, 2} /\ u > l /\ v < h
                /\ some[1][1] = l /\ some[1][2] = u /\ some[2][1] = v /\ some[2][2] = h
      <3> DEFINE p == <<l, u>>
                 r == <<v, h>>
      <3>1. p[1] = l /\ p[2] = u /\ r[1] = v /\ r[2] = h
        OBVIOUS
      <3>2. (u > l /\ left = <<p>>) \/ (u <= l /\ left = <<>>)
        BY <2>2
      <3>3. (v < h /\ right = <<r>>) \/ (v >= h /\ right = <<>>)
        BY <2>2
      <3> HIDE DEF p, r
      <3>4. CASE left = <<>> /\ right = <<>>
        BY ONLY <1>3, <3>2, <3>3, <3>4, ListedParts
      <3>5. CASE left = <<p>> /\ right = <<>>
        BY ONLY <1>3, <3>1, <3>2, <3>3, <3>5, ListedParts
      <3>6. CASE left = <<>> /\ right = <<r>>
        BY ONLY <1>3, <3>1, <3>2, <3>3, <3>6, ListedParts
      <3>7. CASE left = <<p>> /\ right = <<r>>
        BY ONLY <1>3, <3>1, <3>2, <3>3, <3>7, ListedParts
      <3> QED BY <3>2, <3>3, <3>4, <3>5, <3>6, <3>7
    <2> QED BY <2>1, <2>3 DEF u, v
  <1>8. \A x, y : Together(some, x, y) <=>
                    \/ i - 1 > l /\ l <= x /\ y <= i - 1
                    \/ i + 1 < h /\ i + 1 <= x /\ y <= h
    <2> SUFFICES ASSUME NEW x, NEW y
                 PROVE  Together(some, x, y) <=>
                    \/ i - 1 > l /\ l <= x /\ y <= i - 1
                    \/ i + 1 < h /\ i + 1 <= x /\ y <= h
      OBVIOUS
    <2>1. CASE DOMAIN some = {} /\ i - 1 <= l /\ i + 1 >= h
      BY ONLY <1>2, <2>1 DEF Together
    <2>2. CASE DOMAIN some = {1} /\ some[1][1] = l /\ some[1][2] = i - 1 /\ i - 1 > l /\ i + 1 >= h
      BY ONLY <1>2, <2>2 DEF Together
    <2>3. CASE DOMAIN some = {1} /\ some[1][1] = i + 1 /\ some[1][2] = h /\ i - 1 <= l /\ i + 1 < h
      BY ONLY <1>2, <2>3 DEF Together
    <2>4. CASE /\ DOMAIN some = {1, 2} /\ i - 1 > l /\ i + 1 < h
               /\ some[1][1] = l /\ some[1][2] = i - 1 /\ some[2][1] = i + 1 /\ some[2][2] = h
      BY ONLY <1>2, <2>4 DEF Together
    <2> QED BY <1>7, <2>1, <2>2, <2>3, <2>4
  <1>9. Apart(some) /\ \A p \in DOMAIN some : l <= some[p][1] /\ some[p][2] <= h
    <2>1. l \in Int /\ h \in Int /\ i \in Int /\ l <= i /\ i <= h - 1
      BY <1>1, <1>2
    <2>2. DOMAIN some \subseteq Nat
      BY ONLY <1>7
    <2>3. ASSUME NEW p \in DOMAIN some, NEW r \in DOMAIN some, p < r
          PROVE  some[p][2] < some[r][1]
      <3>1. p = 1 /\ r = 2 /\ some[1][2] = i - 1 /\ some[2][1] = i + 1
        BY ONLY <1>7, <2>3
      <3> QED BY ONLY <2>1, <3>1
    <2>4. ASSUME NEW p \in DOMAIN some
          PROVE  l <= some[p][1] /\ some[p][2] <= h
      <3>1. /\ some[p][1] = l \/ some[p][1] = i + 1
            /\ some[p][2] = i - 1 \/ some[p][2] = h
        BY ONLY <1>7
      <3> QED BY ONLY <2>1, <3>1
    <2> QED BY <2>3, <2>4 DEF Apart
  <1>10. ~Together(some, i, i)
    BY ONLY <1>2, <1>8
  <1>11. ASSUME Good, NEW x \in l .. h, NEW y \in l .. h, x < y
         PROVE  Le(c[x], c[y], by) \/ Together(some, x, y)
    <2>1. /\ c[i] = pivot
          /\ c[h - 1] = q.a[i]
          /\ \A k \in 1 .. n : k # i /\ k # h - 1 => c[k] = q.a[k]
      BY <1>1, <1>2, <1>4, <1>11 DEF Swapped, i
    <2>2. ASSUME NEW k \in l .. i - 1 PROVE Le(c[k], pivot, by)
      <3>1. k \in 1 .. n /\ k # i /\ k # h - 1
        BY <1>1, <1>2
      <3> QED BY <1>1, <1>11, <2>1, <3>1
    <2>3. ASSUME NEW k \in i + 1 .. h PROVE Le(pivot, c[k], by)
      <3>1. k \in 1 .. n /\ k # i /\ k \in i .. h /\ i \in i .. h
        BY <1>1, <1>2
      <3> QED BY <1>1, <1>11, <2>1, <3>1
    <2>4. x \in Int /\ y \in Int /\ x \in 1 .. n /\ y \in 1 .. n
      BY <1>2
    <2>5. c[x] \in Int /\ c[y] \in Int /\ pivot \in Int
      BY <1>2, <1>4, <2>4, NumbersAre DEF pivot
    <2>6. by \in Linear
      BY <1>11 DEF Good
    <2>7. CASE y <= i - 1
      <3>1. i - 1 > l /\ l <= x
        BY <1>2, <1>11, <2>4, <2>7
      <3> QED BY <1>8, <2>7, <3>1
    <2>8. CASE i + 1 <= x
      <3>1. i + 1 < h /\ y <= h
        BY <1>2, <1>11, <2>4, <2>8
      <3> QED BY <1>8, <2>8, <3>1
    <2>9. CASE ~(y <= i - 1) /\ ~(i + 1 <= x)
      <3>1. Le(c[x], pivot, by)
        <4>1. x = i \/ x \in l .. i - 1
          BY <1>2, <2>4, <2>9
        <4>2. x = i => Le(pivot, pivot, by)
          BY <2>5, <2>6, OrderIs
        <4> QED BY <2>1, <2>2, <4>1, <4>2
      <3>2. Le(pivot, c[y], by)
        <4>1. y = i \/ y \in i + 1 .. h
          BY <1>2, <2>4, <2>9
        <4>2. y = i => Le(pivot, pivot, by)
          BY <2>5, <2>6, OrderIs
        <4> QED BY <2>1, <2>3, <4>1, <4>2
      <3> QED BY <2>5, <2>6, <3>1, <3>2, OrderIs
    <2> QED BY <2>7, <2>8, <2>9
  <1> QED BY <1>2, <1>4, <1>5, <1>7, <1>9, <1>10, <1>11 DEF Good, pivot, Within, InPart

\* Where the sort of a stands.
Sorting(s, a, n, by) ==
  /\ s \in [a : Seq(Int), todo : Seq(Nat \X Nat)]
  /\ s.todo \in Seq(Parts(n)) /\ Apart(s.todo)
  /\ \/ /\ s.a \in Numbers(n) /\ Shuffled(a, s.a, n, 1, n)
        /\ by \in Linear => Split(s.a, s.todo, n, by)
     \/ s.a = <<>> /\ s.todo = <<>> /\ by = "less"

\* How much is left of it.
Unsorted(s, n) == Cardinality(Covered(s.todo, n))

\* It is over when nothing is left.
LEMMA UnsortedIs ==
  ASSUME NEW n \in Nat, NEW s, s.todo \in Seq(Parts(n))
  PROVE  /\ Unsorted(s, n) \in Nat /\ Unsorted(s, n) <= n
         /\ s.todo = <<>> => Unsorted(s, n) = 0
         /\ Unsorted(s, n) = 0 => s.todo = <<>>
  <1> DEFINE C == Covered(s.todo, n)
  <1>1. C \subseteq 1 .. n /\ IsFiniteSet(1 .. n) /\ Cardinality(1 .. n) = n
    BY FS_Interval DEF Covered
  <1>2. IsFiniteSet(C) /\ Cardinality(C) <= n
    <2> HIDE DEF C
    <2> QED BY <1>1, FS_Subset
  <1>3. Cardinality(C) \in Nat
    <2> HIDE DEF C
    <2> QED BY <1>2, FS_CardinalityType
  <1>4. ASSUME s.todo = <<>> PROVE C = {}
    BY <1>4 DEF Covered, Together
  <1>5. ASSUME C = {} PROVE s.todo = <<>>
    <2> SUFFICES ASSUME s.todo # <<>> PROVE FALSE
      OBVIOUS
    <2> DEFINE P == Parts(n)
               t == s.todo
    <2>1. t \in Seq(P) /\ t # <<>>
      OBVIOUS
    <2> HIDE DEF P, t
    <2>2. 1 \in DOMAIN t /\ t[1] \in P
      BY <2>1
    <2>3. t[1][1] \in 1 .. n /\ t[1][1] <= t[1][2]
      BY <2>2 DEF P, Parts
    <2>4. Together(t, t[1][1], t[1][1])
      BY <2>2, <2>3 DEF Together
    <2> QED BY <1>5, <2>3, <2>4 DEF Covered, t
  <1>6. C = {} <=> Cardinality(C) = 0
    <2> HIDE DEF C
    <2> QED BY <1>2, FS_EmptySet
  <1> QED BY <1>2, <1>3, <1>4, <1>5, <1>6 DEF Unsorted

\* A round sorts the first part, or splits it.
LEMMA SortingOn ==
  ASSUME NEW n \in Nat, NEW a, NEW by, NEW s, Sorting(s, a, n, by), s.a \in Numbers(n), 0 < n,
         NEW l, NEW h, First(s.todo, l, h, n),
         NEW c, NEW some, InPart(s.a, c, some, l, h, n, by),
         NEW t, t = [a |-> c, todo |-> some \o Tail(s.todo)]
  PROVE  Sorting(t, a, n, by) /\ Unsorted(t, n) < Unsorted(s, n)
  <1> DEFINE todo == some \o Tail(s.todo)
  <1>0. /\ c \in Numbers(n) /\ Shuffled(s.a, c, n, l, h)
        /\ Within(some, l, h, n) /\ \E k \in l .. h : ~Together(some, k, k)
        /\ by \in Linear => \A x, y \in l .. h : x < y => Le(c[x], c[y], by) \/ Together(some, x, y)
    BY DEF InPart
  <1>1. Reduced(s.todo, todo, l, h, some, n)
    BY <1>0, PartDone
  <1>2. by \in Linear => Split(c, todo, n, by)
    <2> SUFFICES ASSUME by \in Linear PROVE Split(c, todo, n, by)
      OBVIOUS
    <2>1. Split(s.a, s.todo, n, by)
      <3>1. s.a # <<>>
        BY DEF Numbers
      <3> QED BY <3>1 DEF Sorting
    <2>2. \A x, y \in l .. h : x < y => Le(c[x], c[y], by) \/ Together(some, x, y)
      BY <1>0
    <2> QED BY <1>0, <2>1, <2>2, SplitStill
  <1> HIDE DEF todo
  <1>3. t.a = c /\ t.todo = todo
    BY DEF todo
  <1>4. /\ todo \in Seq(Parts(n)) /\ Apart(todo) /\ l \in 1 .. n /\ h \in 1 .. n
        /\ Covered(todo, n) \subseteq Covered(s.todo, n)
        /\ \E k : k \notin Covered(todo, n) /\ k \in Covered(s.todo, n)
    BY <1>0, <1>1 DEF Reduced
  <1>5. t \in [a : Seq(Int), todo : Seq(Nat \X Nat)]
    <2>1. todo \in Seq(Nat \X Nat) /\ c \in Seq(Int)
      BY <1>0, <1>4, PartsAre, NumbersAre
    <2> QED BY <2>1 DEF todo
  <1>6. Shuffled(a, c, n, 1, n)
    <2>1. Shuffled(a, s.a, n, 1, n)
      <3>1. s.a # <<>>
        BY DEF Numbers
      <3> QED BY <3>1 DEF Sorting
    <2>2. Shuffled(s.a, c, n, 1, n)
      BY <1>0, <1>4, ShuffledWider
    <2> QED BY <2>1, <2>2, ShuffledOn
  <1>7. Sorting(t, a, n, by)
    BY <1>0, <1>2, <1>3, <1>4, <1>5, <1>6 DEF Sorting
  <1>8. Unsorted(t, n) < Unsorted(s, n)
    <2> DEFINE S == Covered(s.todo, n)
               T == Covered(todo, n)
    <2>1. IsFiniteSet(S)
      <3>1. S \subseteq 1 .. n /\ IsFiniteSet(1 .. n)
        BY FS_Interval DEF Covered
      <3> HIDE DEF S
      <3> QED BY <3>1, FS_Subset
    <2>2. T \subseteq S /\ T # S
      BY <1>4
    <2> HIDE DEF S, T
    <2>3. IsFiniteSet(T) /\ Cardinality(T) <= Cardinality(S) /\ Cardinality(T) # Cardinality(S)
      BY <2>1, <2>2, FS_Subset
    <2>4. Cardinality(T) \in Nat /\ Cardinality(S) \in Nat
      BY <2>1, <2>3, FS_CardinalityType
    <2>5. Cardinality(T) < Cardinality(S)
      BY <2>3, <2>4
    <2> QED BY <1>3, <2>5 DEF Unsorted, S, T
  <1> QED BY <1>7, <1>8

\* The sort gives the items of the copy in order, if the comparison is one, or leaves the copy by a
\* comparison that is none: each round makes what is left to be sorted smaller, so that the bound
\* of the model on the rounds is never met.
LEMMA QsortSorts ==
  ASSUME NEW n \in Nat, 1 < n, NEW a \in Numbers(n), NEW by \in Orders,
         NEW r, r = argon_qsort(a, 1, n, by)
  PROVE  \/ /\ r \in Numbers(n) /\ Shuffled(a, r, n, 1, n)
            /\ by \in Linear => Sorted(r, 1, n, by)
         \/ r = <<>> /\ by = "less"
  <1> DEFINE lo(s) == Head(s.todo)[1]
             hi(s) == Head(s.todo)[2]
             mid(s) == lo(s) + (hi(s) - lo(s)) \div 2
             b(s) == InOrder(InOrder(InOrder(s.a, lo(s), mid(s), by), lo(s), hi(s), by),
                             mid(s), hi(s), by)
             parted(s) == Partition(Swapped(b(s), mid(s), hi(s) - 1), lo(s), hi(s), by)
             Part == [s \in [a : Seq(Int), todo : Seq(Nat \X Nat)] |->
               IF s.todo = <<>> THEN s
               ELSE IF hi(s) - lo(s) < CUTOFF
               THEN [a |-> argon_insertion_sort(s.a, lo(s), hi(s), by), todo |-> Tail(s.todo)]
               ELSE IF parted(s).i = 0 THEN [a |-> <<>>, todo |-> <<>>]
               ELSE [a |-> Swapped(parted(s).a, parted(s).i, hi(s) - 1),
                     todo |-> (IF parted(s).i - 1 > lo(s) THEN << <<lo(s), parted(s).i - 1>> >>
                               ELSE <<>>)
                              \o (IF parted(s).i + 1 < hi(s) THEN << <<parted(s).i + 1, hi(s)>> >>
                                  ELSE <<>>) \o Tail(s.todo)]]
             All == [a : Seq(Int), todo : Seq(Nat \X Nat)]
             S == {s \in All : Sorting(s, a, n, by)}
             first == [a |-> a, todo |-> << <<1, n>> >>]
             left == [s \in S |-> Unsorted(s, n)]
             end == Iterate(Part, first, 2 * Len(a))
  <1>1. r = end.a
    BY Zenon DEF argon_qsort
  <1>2. \A s : s \in S <=> Sorting(s, a, n, by)
    BY DEF Sorting
  <1>3. first \in S
    <2> DEFINE P == Parts(n)
               p == <<1, n>>
               todo == <<p>>
    <2>1. p \in P /\ p[1] = 1 /\ p[2] = n
      BY DEF Parts
    <2>2. todo \in Seq(P) /\ DOMAIN todo = {1} /\ todo[1] = p
      <3> HIDE DEF p, P
      <3> QED BY <2>1
    <2> HIDE DEF p, todo
    <2>3. Apart(todo) /\ Split(a, todo, n, by)
      BY <2>1, <2>2 DEF Apart, Split, Together
    <2>4. todo \in Seq(Nat \X Nat) /\ a \in Seq(Int)
      BY <2>2, PartsAre, NumbersAre
    <2>5. Shuffled(a, a, n, 1, n)
      BY ShuffledAsIs
    <2>6. Sorting([a |-> a, todo |-> todo], a, n, by)
      BY <2>2, <2>3, <2>4, <2>5 DEF Sorting
    <2> HIDE DEF S
    <2> QED BY <1>2, <2>6 DEF p, todo
  <1>4. ASSUME NEW s, Sorting(s, a, n, by)
        PROVE  /\ Sorting(Part[s], a, n, by)
               /\ Unsorted(Part[s], n) < Unsorted(s, n) \/ Unsorted(Part[s], n) = 0
    <2>1. /\ s \in All /\ s.todo \in Seq(Parts(n)) /\ Apart(s.todo)
          /\ s.a \in Numbers(n) \/ s.todo = <<>>
      BY <1>4 DEF Sorting
    <2>2. Part[s] =
            IF s.todo = <<>> THEN s
            ELSE IF hi(s) - lo(s) < CUTOFF
            THEN [a |-> argon_insertion_sort(s.a, lo(s), hi(s), by), todo |-> Tail(s.todo)]
            ELSE IF parted(s).i = 0 THEN [a |-> <<>>, todo |-> <<>>]
            ELSE [a |-> Swapped(parted(s).a, parted(s).i, hi(s) - 1),
                  todo |-> (IF parted(s).i - 1 > lo(s) THEN << <<lo(s), parted(s).i - 1>> >>
                            ELSE <<>>)
                           \o (IF parted(s).i + 1 < hi(s) THEN << <<parted(s).i + 1, hi(s)>> >>
                               ELSE <<>>) \o Tail(s.todo)]
      BY <2>1, Zenon
    <2> HIDE DEF Part, All, S
    <2>3. CASE s.todo = <<>>
      BY <1>4, <2>1, <2>2, <2>3, UnsortedIs
    <2>4. CASE s.todo # <<>>
      <3> DEFINE l == lo(s)
                 h == hi(s)
                 q == parted(s)
                 rest == Tail(s.todo)
      <3>1. /\ s.a \in Numbers(n) /\ rest \in Seq(Parts(n)) /\ l \in Nat /\ h \in Nat
            /\ 1 <= l /\ l < h /\ h <= n
        BY <2>1, <2>4, PartsAre
      <3>2. l \in 1 .. n /\ h \in l .. n /\ h \in 1 .. n /\ l \in Nat \ {0} /\ l \in l .. h
        BY <3>1
      <3>3. First(s.todo, l, h, n)
        <4>1. Head(s.todo) = s.todo[1]
          BY <2>4
        <4> QED BY <2>1, <2>4, <4>1 DEF First
      <3>4. CASE h - l < CUTOFF
        <4> DEFINE c == argon_insertion_sort(s.a, l, h, by)
                   some == << >>
        <4>1. Part[s] = [a |-> c, todo |-> rest]
          BY <2>2, <2>4, <3>4
        <4> HIDE DEF l, h
        <4>2. /\ c \in Numbers(n) /\ Shuffled(s.a, c, n, l, h)
              /\ by \in Linear => Sorted(c, l, h, by)
          BY <3>1, <3>2, InsertionSorts
        <4> HIDE DEF c
        <4>3. Within(some, l, h, n) /\ ~Together(some, l, l)
          BY DEF Within, Apart, Together
        <4>4. some \o rest = rest
          <5> DEFINE P == Parts(n)
          <5>1. rest \in Seq(P)
            BY <3>1
          <5> HIDE DEF P, rest
          <5> QED BY <5>1
        <4>5. by \in Linear =>
                \A x, y \in l .. h : x < y => Le(c[x], c[y], by) \/ Together(some, x, y)
          BY <4>2 DEF Sorted
        <4>6. Part[s] = [a |-> c, todo |-> some \o Tail(s.todo)]
          BY <4>1, <4>4
        <4>7. InPart(s.a, c, some, l, h, n, by)
          BY <3>2, <4>2, <4>3, <4>5 DEF InPart
        <4> HIDE DEF some
        <4>8. Sorting(Part[s], a, n, by) /\ Unsorted(Part[s], n) < Unsorted(s, n)
          <5>1. 0 < n
            OBVIOUS
          <5> HIDE DEF Part, l, h
          <5> QED BY <1>4, <3>1, <3>3, <4>6, <4>7, <5>1, SortingOn, Zenon
        <4> QED BY <4>8
      <3>5. CASE ~(h - l < CUTOFF)
        <4> DEFINE m == mid(s)
                   b1 == InOrder(s.a, l, m, by)
                   b2 == InOrder(b1, l, h, by)
                   b3 == InOrder(b2, m, h, by)
                   b4 == Swapped(b3, m, h - 1)
        <4>1. l + 2 <= h /\ m \in l + 1 .. h - 1
          <5>1. CUTOFF \in Nat \ {0, 1}
            BY ArrayAssumption
          <5>2. m = l + (h - l) \div 2
            OBVIOUS
          <5> HIDE DEF m, l, h
          <5>3. l + 2 <= h
            BY <3>1, <3>5, <5>1
          <5>4. (h - l) \div 2 \in 1 .. h - l - 1
            BY <3>1, <5>3
          <5> QED BY <3>1, <5>2, <5>3, <5>4
        <4>2. q = Partition(b4, l, h, by)
          OBVIOUS
        <4> HIDE DEF l, h, m
        <4>3. /\ b4 \in Numbers(n) /\ Shuffled(s.a, b4, n, l, h)
              /\ by \in Linear => Le(b4[l], b4[h - 1], by) /\ Le(b4[h - 1], b4[h], by)
          BY <3>1, <3>2, <4>1, MedianSplits
        <4> HIDE DEF b1, b2, b3, b4
        <4>4. CASE q.i = 0
          <5> DEFINE t == [a |-> <<>>, todo |-> <<>>]
          <5>1. Part[s] = t
            BY <2>2, <2>4, <3>5, <4>4 DEF l, h
          <5>2. by = "less"
            <6> HIDE DEF q
            <6> QED BY <3>1, <3>2, <4>1, <4>2, <4>3, <4>4, PartitionSplits
          <5>3. t.a = <<>> /\ t.todo = <<>> /\ t \in [a : Seq(Int), todo : Seq(Nat \X Nat)]
                /\ t.todo \in Seq(Parts(n)) /\ DOMAIN t.todo = {}
            OBVIOUS
          <5> HIDE DEF t
          <5>4. Sorting(t, a, n, by)
            BY <5>2, <5>3 DEF Sorting, Apart
          <5>5. Unsorted(t, n) = 0
            BY <5>3, UnsortedIs
          <5> QED BY <5>1, <5>4, <5>5
        <4>5. CASE q.i # 0
          <5> DEFINE i == q.i
                     c == Swapped(q.a, i, h - 1)
                     some == (IF i - 1 > l THEN << <<l, i - 1>> >> ELSE <<>>)
                             \o (IF i + 1 < h THEN << <<i + 1, h>> >> ELSE <<>>)
          <5>1. Part[s] = [a |-> c, todo |-> some \o rest]
            BY <2>2, <2>4, <3>5, <4>5, Zenon DEF l, h
          <5> HIDE DEF q
          <5>2. InPart(b4, c, some, l, h, n, by)
            BY <3>2, <4>1, <4>2, <4>3, <4>5, PivotSplits
          <5> HIDE DEF c, some
          <5>3. Shuffled(s.a, c, n, l, h)
            BY <4>3, <5>2, ShuffledOn DEF InPart
          <5>4. InPart(s.a, c, some, l, h, n, by)
            BY <5>2, <5>3 DEF InPart
          <5>5. Sorting(Part[s], a, n, by) /\ Unsorted(Part[s], n) < Unsorted(s, n)
            <6>1. 0 < n
              OBVIOUS
            <6> QED BY <1>4, <3>1, <3>3, <5>1, <5>4, <6>1, SortingOn, Zenon
          <5> QED BY <5>5
        <4> QED BY <4>4, <4>5
      <3> QED BY <3>4, <3>5
    <2> QED BY <2>3, <2>4
  <1>5. /\ left \in [S -> Nat]
        /\ \A s \in S : left[s] = Unsorted(s, n)
    <2>1. \A s \in S : Unsorted(s, n) \in Nat
      BY <1>2, UnsortedIs DEF Sorting
    <2> HIDE DEF S
    <2> QED BY <2>1
  <1> HIDE DEF S, Part, left, first
  <1>6. \A s \in S : Part[s] \in S
    BY <1>2, <1>4
  <1>7. \A s \in S : left[Part[s]] < left[s] \/ left[Part[s]] = 0
    BY <1>2, <1>4, <1>5, <1>6
  <1> DEFINE m == 2 * Len(a)
  <1>8. m \in Nat /\ left[first] <= m
    <2>1. Len(a) = n /\ m = 2 * n
      BY NumbersAre DEF Numbers
    <2>2. Unsorted(first, n) \in Nat /\ Unsorted(first, n) <= n
      BY <1>2, <1>3, UnsortedIs DEF Sorting
    <2> QED BY <1>3, <1>5, <2>1, <2>2
  <1> HIDE DEF m
  <1>9. end \in S
    BY <1>3, <1>6, <1>8, Rounding DEF m
  <1>10. left[Iterate(Part, first, m)] = 0
    <2> HIDE DEF end
    <2> QED BY <1>3, <1>5, <1>6, <1>7, <1>8, RunsOut
  <1>11. left[end] = 0
    BY <1>10 DEF m
  <1> HIDE DEF end
  <1>12. Sorting(end, a, n, by) /\ Unsorted(end, n) = 0
    BY <1>2, <1>5, <1>9, <1>11
  <1>13. end.todo = <<>>
    BY <1>12, UnsortedIs DEF Sorting
  <1>14. CASE end.a = <<>> /\ by = "less"
    BY <1>1, <1>14
  <1>15. CASE /\ end.a \in Numbers(n) /\ Shuffled(a, end.a, n, 1, n)
              /\ by \in Linear => Split(end.a, end.todo, n, by)
    <2>1. \A x, y : ~Together(<<>>, x, y)
      BY DEF Together
    <2>2. by \in Linear => Sorted(end.a, 1, n, by)
      BY <1>13, <1>15, <2>1 DEF Split, Sorted
    <2> QED BY <1>1, <1>15, <2>2
  <1> QED BY <1>12, <1>14, <1>15 DEF Sorting

-----------------------------------------------------------------------------
(* The invariant.  While a method waits for the program, what it has kept    *)
(* of the array is related to the array as it is by then.                    *)

\* An array that a program can have: it fits in memory.
IsArray(d) == Buffer(d) /\ d.size <= INT64_MAX

\* The methods that deliver what they have read.
Reads(op) == op.m \in {"map", "filter", "contains", "for"}

\* The locals of a method that calls the program.
CallFields ==
  {"op", "n", "i", "given", "moved", "out", "x", "before", "held", "touched", "shrunk"}

\* What these may have read by now: what was in the array at some time; filter, a slot too.
Delivered(c) == c.held \cup (IF c.op.m = "filter" /\ c.touched THEN {Nowhere} ELSE {})

\* A method that has begun: the array has been as long as n, and is still unless it has been made
\* shorter; what the method has collected was in it.
Begun(c, d) ==
  /\ DOMAIN c = CallFields /\ IsInvocation(c.op) /\ CallsBack(c.op)
  /\ c.n \in 0 .. INT64_MAX /\ c.i \in Nat
  /\ ~c.shrunk => c.n <= d.size
  /\ Held(d) \subseteq c.held /\ c.held \subseteq Stored
  /\ Reads(c.op) => c.out \in Seq(Slots) /\ Range(c.out) \subseteq Delivered(c)
  /\ c.op.m \in {"new", "setslice"} => c.out \in Seq(Stored)
  /\ c.op.m = "setslice" => c.x = slice_indices(c.op.s, c.n)

\* One that waits for the program's answer.  The slot that filter will read again is one it has
\* read, or has had something put in by the program's changes.
Calling(c, d) ==
  /\ Begun(c, d)
  /\ Reads(c.op) => c.given \in c.held
  /\ c.op.m = "map" => c.i < c.n
  /\ c.op.m = "filter" =>
       /\ ~c.touched => ~c.moved /\ c.i < d.size
       /\ c.i < Len(d.data) => d.data[c.i + 1] \in c.held \cup {Nowhere}
  /\ c.op.m = "sort" => c.i = 0 /\ 1 < c.n /\ c.out \in Seq(Stored) /\ Len(c.out) = c.n

\* One that is about to go on.
Ready(c, d) ==
  /\ Begun(c, d)
  /\ Reads(c.op) /\ c.i > 0 => c.given \in c.held
  /\ c.op.m = "map" => c.i <= c.n
  /\ c.op.m = "sort" => \/ c.i = 0 /\ c.n = d.size
                        \/ c.i = 1 /\ 1 < c.n /\ c.out \in Numbers(c.n)

\* As long as the process goes on, the array is one, and the method that waits is as above.
BufferInv ==
  /\ Alive => IsArray(arr) /\ (call # Idle => Calling(call, arr))
  /\ StaysInBufferBut /\ DeliversItemsBut

\* c with other locals, and what it has collected, is a method that has begun.
LEMMA BegunStill ==
  ASSUME NEW d, NEW c, Begun(c, d), NEW e, DOMAIN e = CallFields,
         e.op = c.op, e.n = c.n, e.i \in Nat, e.x = c.x, e.held = c.held,
         e.touched = c.touched, e.shrunk = c.shrunk,
         Reads(c.op) => e.out \in Seq(Slots) /\ Range(e.out) \subseteq Delivered(c),
         c.op.m \in {"new", "setslice"} => e.out \in Seq(Stored)
  PROVE  Begun(e, d)
  BY DEF Begun, Delivered

\* One more that has been collected.
LEMMA OneMore ==
  ASSUME NEW S, NEW T, NEW s, s \in Seq(S), Range(s) \subseteq T, NEW v, v \in S, v \in T
  PROVE  Append(s, v) \in Seq(S) /\ Range(Append(s, v)) \subseteq T
  <1>1. Append(s, v) \in Seq(S)
    OBVIOUS
  <1>2. ASSUME NEW w \in Range(Append(s, v)) PROVE w \in T
    <2>1. PICK i \in DOMAIN Append(s, v) : w = Append(s, v)[i]
      BY <1>2 DEF Range
    <2>2. Len(s) \in Nat /\ DOMAIN s = 1 .. Len(s) /\ i \in 1 .. Len(s) + 1
      BY <2>1
    <2>3. CASE i = Len(s) + 1
      BY <2>1, <2>3
    <2>4. CASE i # Len(s) + 1
      <3>1. i \in DOMAIN s /\ w = s[i]
        BY <2>1, <2>2, <2>4
      <3> QED BY <3>1 DEF Range
    <2> QED BY <2>3, <2>4
  <1> QED BY <1>1, <1>2

\* How a method goes on.
GoesOn(c, d, o) ==
  \/ o.end = "calls" /\ o.arr = d /\ Calling(o.call, d)
  \/ /\ o.end \in {"returned", "thrown"} /\ Kept(d, o.arr)
     /\ Reads(c.op) => Range(o.out) \subseteq Delivered(c)
  \/ o.end = "wild" /\ c.op.m = "sort" /\ (c.op.by = "less" \/ c.shrunk)
  \/ o.end = "exit" /\ c.op.m \in {"map", "sort", "setslice"} /\ c.shrunk
  \/ o.end = "huge" /\ c.op.m = "setslice" /\ c.shrunk

\* A method that waits without having read or collected anything since.
LEMMA WaitsWith ==
  ASSUME NEW d, Buffer(d), NEW c, Begun(c, d), Reads(c.op), NEW v, v \in Held(d),
         NEW e, DOMAIN e = CallFields, e.given = v,
         e.op = c.op, e.n = c.n, e.i = c.i, e.x = c.x, e.held = c.held,
         e.touched = c.touched, e.shrunk = c.shrunk,
         e.out \in Seq(Slots), Range(e.out) \subseteq Delivered(c),
         c.op.m = "map" => c.i < c.n,
         c.op.m = "filter" => ~e.moved /\ c.i < d.size
  PROVE  Calling(e, d)
  <1>1. c.i \in Nat /\ c.op.m \notin {"new", "setslice", "sort"} /\ Held(d) \subseteq c.held
    BY DEF Begun, Reads
  <1>2. Begun(e, d)
    BY <1>1, BegunStill
  <1>3. v \in c.held
    BY <1>1
  <1>4. ASSUME c.op.m = "filter", c.i < Len(d.data) PROVE d.data[c.i + 1] \in c.held
    <2>1. c.i + 1 \in 1 .. d.size
      BY <1>1, <1>4, BufferHas
    <2>2. d.data[c.i + 1] \in Held(d)
      BY <2>1 DEF Held
    <2> QED BY <1>1, <2>2
  <1> QED BY <1>1, <1>2, <1>3, <1>4 DEF Calling

\* The item at i.
LEMMA ItemAt ==
  ASSUME NEW d, Buffer(d), NEW i, i \in Nat, i < d.size
  PROVE  d.data[i + 1] \in Held(d) /\ d.data[i + 1] \in Stored
  <1>1. i + 1 \in 1 .. d.size
    BY BufferHas
  <1> QED BY <1>1, BufferHas DEF Held

\* map reads by darray_armem_get, which ends the process where the array has become shorter.
LEMMA MapGoes ==
  ASSUME NEW d, Buffer(d), NEW c, Ready(c, d), c.op.m = "map", NEW o, o = map(d, c)
  PROVE  GoesOn(c, d, o)
  <1>1. /\ Begun(c, d) /\ DOMAIN c = CallFields /\ c.i \in Nat /\ c.n \in Int /\ c.i <= c.n
        /\ Reads(c.op) /\ c.out \in Seq(Slots) /\ Range(c.out) \subseteq Delivered(c)
        /\ (~c.shrunk => c.n <= d.size)
    BY Limits DEF Ready, Begun, Reads
  <1>2. CASE c.i = c.n
    BY <1>1, <1>2, KeptAsIs DEF map, Return, Ends, GoesOn
  <1>3. CASE c.i # c.n /\ ~Gets(d, {c.i})
    <2>1. c.shrunk
      BY <1>1, <1>3, BufferHas DEF Gets
    <2> QED BY <1>3, <2>1 DEF map, Dies, Ends, GoesOn
  <1>4. CASE c.i # c.n /\ Gets(d, {c.i})
    <2> DEFINE v == d.data[c.i + 1]
               e == [c EXCEPT !.given = v]
    <2>1. o.end = "calls" /\ o.arr = d /\ o.call = e
      BY <1>4 DEF map, Calls
    <2>2. v \in Held(d)
      BY <1>1, <1>4, ItemAt, BufferHas DEF Gets
    <2> HIDE DEF v
    <2>3. /\ DOMAIN e = CallFields /\ e.given = v
          /\ e.op = c.op /\ e.n = c.n /\ e.i = c.i /\ e.x = c.x /\ e.held = c.held
          /\ e.touched = c.touched /\ e.shrunk = c.shrunk /\ e.out = c.out
      BY <1>1 DEF CallFields
    <2> HIDE DEF e
    <2>4. Calling(e, d)
      BY <1>1, <1>4, <2>2, <2>3, WaitsWith
    <2> QED BY <2>1, <2>4 DEF GoesOn
  <1> QED BY <1>2, <1>3, <1>4

\* filter looks at the size before it reads.
LEMMA FilterGoes ==
  ASSUME NEW d, Buffer(d), NEW c, Ready(c, d), c.op.m = "filter", NEW o, o = filter(d, c)
  PROVE  GoesOn(c, d, o)
  <1>1. /\ Begun(c, d) /\ DOMAIN c = CallFields /\ c.i \in Nat
        /\ Reads(c.op) /\ c.out \in Seq(Slots) /\ Range(c.out) \subseteq Delivered(c)
    BY DEF Ready, Begun, Reads
  <1>2. CASE ~(c.i < d.size)
    BY <1>1, <1>2, KeptAsIs DEF filter, Return, Ends, GoesOn
  <1>3. CASE c.i < d.size
    <2> DEFINE v == d.data[c.i + 1]
               e == [c EXCEPT !.given = v, !.moved = FALSE]
    <2>1. o.end = "calls" /\ o.arr = d /\ o.call = e
      BY <1>3 DEF filter, Calls
    <2>2. v \in Held(d)
      BY <1>1, <1>3, ItemAt
    <2> HIDE DEF v
    <2>3. /\ DOMAIN e = CallFields /\ e.given = v /\ ~e.moved
          /\ e.op = c.op /\ e.n = c.n /\ e.i = c.i /\ e.x = c.x /\ e.held = c.held
          /\ e.touched = c.touched /\ e.shrunk = c.shrunk /\ e.out = c.out
      BY <1>1 DEF CallFields
    <2> HIDE DEF e
    <2>4. Calling(e, d)
      BY <1>1, <1>3, <2>2, <2>3, WaitsWith
    <2> QED BY <2>1, <2>4 DEF GoesOn
  <1> QED BY <1>2, <1>3

\* __contains__ does too, and delivers the item that it has found equal.
LEMMA ContainsGoes ==
  ASSUME NEW d, Buffer(d), NEW c, Ready(c, d), c.op.m = "contains", NEW o, o = __contains__(d, c)
  PROVE  GoesOn(c, d, o)
  <1>1. /\ Begun(c, d) /\ DOMAIN c = CallFields /\ c.i \in Nat
        /\ Reads(c.op) /\ c.out \in Seq(Slots) /\ Range(c.out) \subseteq Delivered(c)
        /\ (c.i > 0 => c.given \in c.held)
    BY DEF Ready, Begun, Reads
  <1>2. CASE c.i > 0 /\ c.given = c.op.value
    <2>1. o.end = "returned" /\ o.arr = d /\ o.out = <<c.given>>
      BY <1>2 DEF __contains__, Return, Ends
    <2>2. Range(o.out) \subseteq Delivered(c)
      <3> DEFINE v == c.given
      <3> HIDE DEF v
      <3>1. DOMAIN <<v>> = {1} /\ <<v>>[1] = v
        OBVIOUS
      <3>2. Range(<<v>>) \subseteq {v}
        BY <3>1 DEF Range
      <3> QED BY <1>1, <1>2, <2>1, <3>2 DEF v, Delivered
    <2> QED BY <2>1, <2>2, KeptAsIs DEF GoesOn
  <1>3. CASE ~(c.i > 0 /\ c.given = c.op.value) /\ ~(c.i < d.size)
    <2>1. o.end = "returned" /\ o.arr = d /\ o.out = <<>>
      BY <1>3 DEF __contains__, Return, Ends
    <2>2. Range(o.out) \subseteq Delivered(c)
      BY <2>1 DEF Range
    <2> QED BY <2>1, <2>2, KeptAsIs DEF GoesOn
  <1>4. CASE ~(c.i > 0 /\ c.given = c.op.value) /\ c.i < d.size
    <2> DEFINE v == d.data[c.i + 1]
               e == [c EXCEPT !.given = v]
    <2>1. o.end = "calls" /\ o.arr = d /\ o.call = e
      BY <1>4 DEF __contains__, Calls
    <2>2. v \in Held(d)
      BY <1>1, <1>4, ItemAt
    <2> HIDE DEF v
    <2>3. /\ DOMAIN e = CallFields /\ e.given = v
          /\ e.op = c.op /\ e.n = c.n /\ e.i = c.i /\ e.x = c.x /\ e.held = c.held
          /\ e.touched = c.touched /\ e.shrunk = c.shrunk /\ e.out = c.out
      BY <1>1 DEF CallFields
    <2> HIDE DEF e
    <2>4. Calling(e, d)
      BY <1>1, <1>4, <2>2, <2>3, WaitsWith
    <2> QED BY <2>1, <2>4 DEF GoesOn
  <1> QED BY <1>2, <1>3, <1>4

\* The iterator of an array does too, and delivers every item it reads.
LEMMA NextGoes ==
  ASSUME NEW d, Buffer(d), NEW c, Ready(c, d), c.op.m = "for", NEW o, o = __next__(d, c)
  PROVE  GoesOn(c, d, o)
  <1>1. /\ Begun(c, d) /\ DOMAIN c = CallFields /\ c.i \in Nat
        /\ Reads(c.op) /\ c.out \in Seq(Slots) /\ Range(c.out) \subseteq Delivered(c)
        /\ Held(d) \subseteq c.held /\ c.held \subseteq Delivered(c)
    BY DEF Ready, Begun, Reads, Delivered
  <1>2. CASE ~(c.i < d.size)
    BY <1>1, <1>2, KeptAsIs DEF __next__, Return, Ends, GoesOn
  <1>3. CASE c.i < d.size
    <2> DEFINE v == d.data[c.i + 1]
               w == Append(c.out, v)
               e == [c EXCEPT !.given = v, !.out = w]
    <2>1. o.end = "calls" /\ o.arr = d /\ o.call = e
      BY <1>3 DEF __next__, Calls
    <2>2. v \in Held(d) /\ v \in Stored
      BY <1>1, <1>3, ItemAt
    <2> HIDE DEF v
    <2>3. w \in Seq(Slots) /\ Range(w) \subseteq Delivered(c)
      <3>1. v \in Slots /\ v \in Delivered(c)
        BY <1>1, <2>2, SlotsAre
      <3> HIDE DEF Slots
      <3> QED BY <1>1, <3>1, OneMore
    <2> HIDE DEF w
    <2>4. /\ DOMAIN e = CallFields /\ e.given = v
          /\ e.op = c.op /\ e.n = c.n /\ e.i = c.i /\ e.x = c.x /\ e.held = c.held
          /\ e.touched = c.touched /\ e.shrunk = c.shrunk /\ e.out = w
      BY <1>1 DEF CallFields
    <2> HIDE DEF e
    <2>5. Calling(e, d)
      BY <1>1, <1>3, <2>2, <2>3, <2>4, WaitsWith
    <2> QED BY <2>1, <2>5 DEF GoesOn
  <1> QED BY <1>2, <1>3

\* The copy is written back where it was read.
LEMMA WriteBackKeeps ==
  ASSUME NEW d, Buffer(d), NEW n, n \in Nat, n <= d.size, NEW s, s \in Numbers(n),
         NEW e, e = [d EXCEPT !.data = Write(@, 0, s)]
  PROVE  Kept(d, e)
  <1> DEFINE f == Write(d.data, 0, s)
             N == Len(d.data)
  <1>1. /\ d \in DArrays /\ d.data \in Seq(Slots) /\ d.size \in Nat /\ N \in Nat /\ d.size <= N
        /\ \A i \in 1 .. d.size : d.data[i] \in Stored
    BY BufferHas
  <1>2. s \in Seq(Stored) /\ Len(s) = n /\ \A i \in 1 .. n : s[i] \in Stored
    <2>1. \A i \in 1 .. n : s[i] \in Stored
      BY NumbersAre DEF Stored
    <2>2. s \in [1 .. n -> Stored]
      <3> HIDE DEF Stored
      <3>1. s = [i \in 1 .. n |-> s[i]]
        BY DEF Numbers
      <3> QED BY <2>1, <3>1
    <2>3. s \in Seq(Stored)
      <3> HIDE DEF Stored
      <3> QED BY <2>2
    <2> QED BY <2>1, <2>3, NumbersAre
  <1>3. e = [data |-> f, size |-> d.size]
    <2> HIDE DEF f
    <2>1. e = [d EXCEPT !.data = f]
      BY DEF f
    <2> QED BY <1>1, <2>1, Remade
  <1>4. Written(f, d.data, 0, s)
    BY <1>1, <1>2, WriteIs
  <1> HIDE DEF f
  <1>5. /\ f \in Seq(Slots) /\ Len(f) = N
        /\ \A i \in 1 .. N : f[i] = IF i \in 0 + 1 .. 0 + n THEN s[i - 0] ELSE d.data[i]
    BY <1>2, <1>4 DEF Written
  <1>6. ASSUME NEW i \in 1 .. Len(f)
        PROVE  /\ i <= d.size => f[i] \in Stored
               /\ i > d.size => \/ f[i] \in Held(d) \cup {Nowhere}
                                \/ i <= Len(d.data) /\ f[i] = d.data[i]
    <2>1. i \in 1 .. N /\ i \in Nat /\ i >= 1
      BY <1>1, <1>5
    <2>2. CASE i <= n
      <3>1. i \in 0 + 1 .. 0 + n /\ i - 0 = i /\ i \in 1 .. n /\ i <= d.size
        BY <2>1, <2>2, <1>1
      <3> QED BY <3>1, <2>1, <1>1, <1>2, <1>5
    <2>3. CASE ~(i <= n)
      <3>1. i \notin 0 + 1 .. 0 + n /\ (i <= d.size => i \in 1 .. d.size)
        BY <2>1, <2>3, <1>1
      <3> QED BY <3>1, <2>1, <1>1, <1>5
    <2> QED BY <2>2, <2>3
  <1>7. e.data = f /\ e.size = d.size /\ d.size <= Len(f) /\ e \in DArrays
    <2>1. d.size <= Len(f)
      BY ONLY <1>1, <1>5
    <2>2. [data |-> f, size |-> d.size] \in DArrays
      BY ONLY <1>1, <1>5, ArrayOf
    <2> QED BY ONLY <1>3, <2>1, <2>2
  <1> QED BY <1>1, <1>5, <1>6, <1>7, KeptBy

\* sort copies the array before it calls the program, and writes the copy back to one that may
\* have become shorter.
LEMMA SortGoes ==
  ASSUME NEW d, Buffer(d), NEW c, Ready(c, d), c.op.m = "sort", NEW o, o = sort(d, c)
  PROVE  GoesOn(c, d, o)
  <1>1. /\ Begun(c, d) /\ DOMAIN c = CallFields /\ c.i \in Nat /\ c.n \in Nat /\ ~Reads(c.op)
        /\ (~c.shrunk => c.n <= d.size) /\ c.op.by \in Orders
        /\ \/ c.i = 0 /\ c.n = d.size
           \/ c.i = 1 /\ 1 < c.n /\ c.out \in Numbers(c.n)
    BY Limits DEF Ready, Begun, Reads, IsInvocation, Orders
  <1>2. CASE c.n <= 1
    BY <1>1, <1>2, KeptAsIs DEF sort, Return, Ends, GoesOn
  <1>3. CASE ~(c.n <= 1) /\ c.i = 0
    <2> DEFINE w == Items(d)
               e == [c EXCEPT !.out = w]
    <2>1. o.end = "calls" /\ o.arr = d /\ o.call = e
      BY <1>3 DEF sort, Calls
    <2>2. w \in Seq(Stored) /\ Len(w) = c.n /\ 1 < c.n
      BY <1>1, <1>3, ItemsAre
    <2> HIDE DEF w
    <2>3. /\ DOMAIN e = CallFields
          /\ e.op = c.op /\ e.n = c.n /\ e.i = c.i /\ e.x = c.x /\ e.held = c.held
          /\ e.touched = c.touched /\ e.shrunk = c.shrunk /\ e.out = w
      BY <1>1 DEF CallFields
    <2> HIDE DEF e
    <2>4. Begun(e, d)
      BY <1>1, <2>3, BegunStill
    <2>5. Calling(e, d)
      BY <1>1, <1>3, <2>2, <2>3, <2>4 DEF Calling
    <2> QED BY <2>1, <2>5 DEF GoesOn
  <1>4. CASE ~(c.n <= 1) /\ c.i # 0
    <2> DEFINE s == argon_qsort(c.out, 1, c.n, c.op.by)
               e == [d EXCEPT !.data = Write(@, 0, s)]
    <2>1. o = IF s = <<>> \/ c.n > Len(d.data) THEN Dies(d, "wild")
              ELSE IF c.n > d.size THEN Dies(d, "exit")
              ELSE Return(e, <<>>)
      BY <1>4 DEF sort, write_back
    <2>2. s \in Numbers(c.n) \/ (s = <<>> /\ c.op.by = "less")
      BY <1>1, <1>4, QsortSorts
    <2> HIDE DEF s, e
    <2>3. CASE s = <<>> \/ c.n > Len(d.data)
      <3>1. c.op.by = "less" \/ c.shrunk
        <4>1. CASE s = <<>>
          <5>1. s \notin Numbers(c.n)
            BY <1>1, <1>4, <4>1 DEF Numbers
          <5> QED BY <2>2, <5>1
        <4>2. CASE c.n > Len(d.data)
          BY <1>1, <4>2, BufferHas
        <4> QED BY <2>3, <4>1, <4>2
      <3> QED BY <2>1, <2>3, <3>1 DEF Dies, Ends, GoesOn
    <2>4. CASE ~(s = <<>> \/ c.n > Len(d.data)) /\ c.n > d.size
      <3>1. c.shrunk
        BY <1>1, <2>4, BufferHas
      <3> QED BY <2>1, <2>4, <3>1 DEF Dies, Ends, GoesOn
    <2>5. CASE ~(s = <<>> \/ c.n > Len(d.data)) /\ ~(c.n > d.size)
      <3>1. o.end = "returned" /\ o.arr = e
        BY <2>1, <2>5 DEF Return, Ends
      <3>2. s \in Numbers(c.n) /\ c.n <= d.size
        BY <1>1, <2>2, <2>5, BufferHas
      <3>3. Kept(d, e)
        BY <1>1, <3>2, WriteBackKeeps DEF e
      <3> QED BY <1>1, <3>1, <3>3 DEF GoesOn
    <2> QED BY <2>3, <2>4, <2>5
  <1> QED BY <1>2, <1>3, <1>4

\* An array made from the program's iterator, and an assignment to a slice from it, whose indices
\* were computed before.
LEMMA CollectGoes ==
  ASSUME NEW d, Buffer(d), NEW c, Ready(c, d), c.op.m \in {"new", "setslice"},
         NEW o, o = collect(d, c)
  PROVE  GoesOn(c, d, o)
  <1>1. /\ Begun(c, d) /\ c.n \in 0 .. INT64_MAX /\ ~Reads(c.op) /\ (~c.shrunk => c.n <= d.size)
        /\ c.out \in Seq(Stored)
    BY DEF Ready, Begun, Reads
  <1>2. CASE c.i = 0
    <2>1. Calling(c, d)
      BY <1>1 DEF Calling, Reads
    <2> QED BY <1>2, <2>1 DEF collect, Calls, GoesOn
  <1>3. CASE c.i # 0 /\ c.op.m = "new"
    BY <1>1, <1>3, KeptAsIs DEF collect, Return, Ends, GoesOn
  <1>4. CASE c.i # 0 /\ c.op.m = "setslice"
    <2> DEFINE x == c.x
               items == c.out
               m == c.n
    <2>1. o = assign(d, x, slice_len(x), items)
      BY <1>4 DEF collect
    <2>2. IsSlice(c.op.s) /\ x = slice_indices(c.op.s, m) /\ m \in 0 .. INT64_MAX
      BY <1>1, <1>4 DEF Begun, IsInvocation
    <2>3. items \in Seq(Stored)
      BY <1>1
    <2> HIDE DEF x, items, m
    <2>4. Normalised(x, m)
      BY <2>2, IndicesAre
    <2>5. \/ o.end \in {"returned", "thrown"} /\ Kept(d, o.arr)
          \/ o.end \in {"exit", "huge"} /\ d.size < m
      BY <2>1, <2>2, <2>3, <2>4, AssignKeeps
    <2>6. d.size < m => c.shrunk
      BY <1>1, BufferHas, Limits DEF m
    <2> QED BY <1>1, <1>4, <2>5, <2>6 DEF GoesOn
  <1> QED BY <1>2, <1>3, <1>4

\* Whichever method goes on.
LEMMA EachGoes ==
  ASSUME NEW d, Buffer(d), NEW c, Ready(c, d)
  PROVE  GoesOn(c, d, GoOn(d, c))
  <1> DEFINE o == GoOn(d, c)
  <1> SUFFICES GoesOn(c, d, o)
    OBVIOUS
  <1>1. c.op.m \in {"map", "filter", "contains", "for", "sort", "new", "setslice"}
    BY DEF Ready, Begun, CallsBack
  <1>2. CASE c.op.m = "map"
    <2>1. o = map(d, c)
      BY <1>2 DEF GoOn
    <2> HIDE DEF o
    <2> QED BY <1>2, <2>1, MapGoes
  <1>3. CASE c.op.m = "filter"
    <2>1. o = filter(d, c)
      BY <1>3 DEF GoOn
    <2> HIDE DEF o
    <2> QED BY <1>3, <2>1, FilterGoes
  <1>4. CASE c.op.m = "contains"
    <2>1. o = __contains__(d, c)
      BY <1>4 DEF GoOn
    <2> HIDE DEF o
    <2> QED BY <1>4, <2>1, ContainsGoes
  <1>5. CASE c.op.m = "for"
    <2>1. o = __next__(d, c)
      BY <1>5 DEF GoOn
    <2> HIDE DEF o
    <2> QED BY <1>5, <2>1, NextGoes
  <1>6. CASE c.op.m = "sort"
    <2>1. o = sort(d, c)
      BY <1>6 DEF GoOn
    <2> HIDE DEF o
    <2> QED BY <1>6, <2>1, SortGoes
  <1>7. CASE c.op.m \in {"new", "setslice"}
    <2>1. o = collect(d, c)
      BY <1>7 DEF GoOn
    <2> HIDE DEF o
    <2> QED BY <1>7, <2>1, CollectGoes
  <1> QED BY <1>1, <1>2, <1>3, <1>4, <1>5, <1>6, <1>7

\* What the program may have answered, the method can go on with.
LEMMA AnsweredIs ==
  ASSUME NEW d, Buffer(d), NEW c, Calling(c, d), NEW e \in Answered(d, c)
  PROVE  /\ Ready(e, d) /\ e.op = c.op /\ e.held = c.held /\ e.touched = c.touched
         /\ e.shrunk = c.shrunk
  <1>1. /\ Begun(c, d) /\ DOMAIN c = CallFields /\ c.i \in Nat
        /\ (Reads(c.op) => c.out \in Seq(Slots) /\ Range(c.out) \subseteq Delivered(c)
                           /\ c.given \in c.held)
        /\ c.held \subseteq Delivered(c) /\ c.held \subseteq Stored /\ Held(d) \subseteq c.held
    BY DEF Calling, Begun, Delivered
  <1> DEFINE next == [c EXCEPT !.i = @ + 1]
             Same(a) == /\ DOMAIN a = CallFields /\ a.op = c.op /\ a.n = c.n /\ a.x = c.x
                        /\ a.held = c.held /\ a.touched = c.touched /\ a.shrunk = c.shrunk
                        /\ a.given = c.given
  <1>2. Same(next) /\ next.i = c.i + 1 /\ next.out = c.out
    BY <1>1 DEF CallFields
  <1>3. ASSUME NEW w
        PROVE  LET a == [next EXCEPT !.out = w] IN Same(a) /\ a.i = c.i + 1 /\ a.out = w
    BY <1>2 DEF CallFields
  <1>4. ASSUME NEW w
        PROVE  LET a == [c EXCEPT !.out = w] IN Same(a) /\ a.i = c.i /\ a.out = w
    BY <1>1 DEF CallFields
  <1> HIDE DEF next
  <1>5. CASE c.op.m = "map"
    <2> DEFINE w == Append(c.out, c.given)
               a == [next EXCEPT !.out = w]
    <2>1. e = [next EXCEPT !.out = Append(@, c.given)]
      BY <1>5 DEF Answered, next
    <2>2. e = a
      BY <1>2, <2>1
    <2>3. w \in Seq(Slots) /\ Range(w) \subseteq Delivered(c)
      <3> DEFINE v == c.given
      <3>1. v \in Slots /\ v \in Delivered(c) /\ c.out \in Seq(Slots)
            /\ Range(c.out) \subseteq Delivered(c)
        BY <1>1, <1>5, SlotsAre DEF Reads
      <3> HIDE DEF Slots, v
      <3> QED BY <3>1, OneMore DEF v
    <2> HIDE DEF w
    <2>4. Same(e) /\ e.i = c.i + 1 /\ e.out = w
      BY <1>3, <2>2
    <2>5. Begun(e, d)
      BY <1>1, <1>5, <2>3, <2>4, BegunStill
    <2>6. c.i < c.n /\ c.n \in Int
      BY <1>5, Limits DEF Calling, Begun
    <2> QED BY <1>1, <1>5, <2>4, <2>5, <2>6 DEF Ready, Reads
  <1>6. CASE c.op.m = "filter"
    <2>1. CASE c.given = c.op.value
      <3>1. e = next
        BY <1>6, <2>1 DEF Answered, next
      <3>2. Begun(e, d)
        BY <1>1, <1>2, <1>6, <3>1, BegunStill
      <3> QED BY <1>1, <1>2, <1>6, <3>1, <3>2 DEF Ready, Reads
    <2>2. CASE c.given # c.op.value
      <3> DEFINE v == Reread(d, c)
                 w == Append(c.out, v)
                 a == [next EXCEPT !.out = w]
      <3>1. e = [next EXCEPT !.out = Append(@, v)]
        BY <1>6, <2>2 DEF Answered, next
      <3>2. e = a
        BY <1>2, <3>1
      <3>3. v \in Delivered(c)
        <4>1. CASE c.touched
          <5>1. v \in c.held \cup {Nowhere}
            <6>1. CASE c.moved \/ c.i >= Len(d.data)
              BY <6>1 DEF Reread
            <6>2. CASE ~(c.moved \/ c.i >= Len(d.data))
              <7>1. v = d.data[c.i + 1] /\ c.i < Len(d.data)
                BY <1>1, <6>2, BufferHas DEF Reread
              <7> QED BY <1>6, <7>1 DEF Calling
            <6> QED BY <6>1, <6>2
          <5> QED BY <1>6, <4>1, <5>1 DEF Delivered
        <4>2. CASE ~c.touched
          <5>1. ~c.moved /\ c.i < d.size
            BY <1>6, <4>2 DEF Calling
          <5>2. v = d.data[c.i + 1]
            BY <1>1, <5>1, BufferHas DEF Reread
          <5>3. d.data[c.i + 1] \in Held(d)
            BY <1>1, <5>1, ItemAt
          <5> QED BY <1>1, <5>2, <5>3
        <4> QED BY <4>1, <4>2
      <3>4. w \in Seq(Slots) /\ Range(w) \subseteq Delivered(c)
        <4>1. v \in Slots /\ c.out \in Seq(Slots) /\ Range(c.out) \subseteq Delivered(c)
          BY <1>1, <1>6, <3>3, SlotsAre DEF Reads, Delivered
        <4> HIDE DEF Slots, v
        <4> QED BY <3>3, <4>1, OneMore
      <3> HIDE DEF w
      <3>5. Same(e) /\ e.i = c.i + 1 /\ e.out = w
        BY <1>3, <3>2
      <3>6. Begun(e, d)
        BY <1>1, <1>6, <3>4, <3>5, BegunStill
      <3> QED BY <1>1, <1>6, <3>5, <3>6 DEF Ready, Reads
    <2> QED BY <2>1, <2>2
  <1>7. CASE c.op.m \in {"contains", "for"}
    <2>1. e = next
      BY <1>7 DEF Answered, next
    <2>2. Begun(e, d)
      BY <1>1, <1>2, <1>7, <2>1, BegunStill
    <2> QED BY <1>1, <1>2, <1>7, <2>1, <2>2 DEF Ready, Reads
  <1>8. CASE c.op.m = "sort"
    <2>1. e = next /\ Range(c.out) \subseteq Values
      BY <1>8 DEF Answered, next
    <2>2. /\ c.i = 0 /\ 1 < c.n /\ c.out \in Seq(Stored) /\ Len(c.out) = c.n /\ c.n \in Nat
          /\ ~Reads(c.op)
      BY <1>8, Limits DEF Calling, Begun, Reads
    <2>3. c.out \in Numbers(c.n)
      <3>1. DOMAIN c.out = 1 .. c.n /\ c.out = [i \in 1 .. c.n |-> c.out[i]]
        <4> HIDE DEF Stored
        <4> QED BY <2>2
      <3>2. \A i \in 1 .. c.n : c.out[i] \in Int
        BY <2>1, <3>1, ArrayAssumption DEF Range
      <3>3. c.out \in [1 .. c.n -> Int]
        BY <3>1, <3>2
      <3> QED BY <2>2, <3>3, IsNumbers
    <2>4. Begun(e, d)
      BY <1>1, <1>2, <1>8, <2>1, <2>2, BegunStill
    <2> QED BY <1>1, <1>2, <1>8, <2>1, <2>2, <2>3, <2>4 DEF Ready
  <1>9. CASE c.op.m \in {"new", "setslice"}
    <2>1. c.out \in Seq(Stored) /\ ~Reads(c.op)
      BY <1>1, <1>9 DEF Begun, Reads
    <2>2. CASE e = next
      <3>1. Begun(e, d)
        BY <1>1, <1>2, <1>9, <2>1, <2>2, BegunStill
      <3> QED BY <1>1, <1>2, <1>9, <2>1, <2>2, <3>1 DEF Ready
    <2>3. CASE e # next
      <3>1. PICK v \in Values : e = [c EXCEPT !.out = Append(@, v)]
        BY <1>9, <2>3 DEF Answered, next
      <3> DEFINE w == Append(c.out, v)
      <3>2. e = [c EXCEPT !.out = w]
        BY <3>1
      <3>3. w \in Seq(Stored)
        <4>1. v \in Stored
          BY ArrayAssumption DEF Stored
        <4> HIDE DEF Stored
        <4> QED BY <2>1, <4>1
      <3> HIDE DEF w
      <3>4. Same(e) /\ e.i = c.i /\ e.out = w
        BY <1>4, <3>2
      <3>5. Begun(e, d)
        BY <1>1, <1>9, <2>1, <3>3, <3>4, BegunStill
      <3> QED BY <1>1, <1>9, <2>1, <3>4, <3>5 DEF Ready
    <2> QED BY <2>2, <2>3
  <1> QED BY <1>1, <1>5, <1>6, <1>7, <1>8, <1>9 DEF Begun, CallsBack

\* A method that waits still does when the program has changed the array under it.
LEMMA CallingStill ==
  ASSUME NEW d, Buffer(d), NEW c, Calling(c, d), NEW e, Kept(d, e), NEW moves,
         NEW f, f = [c EXCEPT !.moved = @ \/ moves, !.touched = TRUE,
                              !.shrunk = @ \/ e.size < d.size,
                              !.held = @ \cup Range(Items(e))]
  PROVE  Calling(f, e)
  <1>1. /\ Begun(c, d) /\ DOMAIN c = CallFields /\ c.i \in Nat /\ c.n \in Int
        /\ Held(d) \subseteq c.held /\ c.held \subseteq Stored /\ (~c.shrunk => c.n <= d.size)
    BY Limits DEF Calling, Begun
  <1>2. /\ Buffer(e) /\ Leftover(d, e) /\ Range(Items(e)) = Held(e) /\ Held(e) \subseteq Stored
        /\ d.size \in Nat /\ e.size \in Nat
    BY ItemsAre, BufferHas DEF Kept
  <1>3. /\ DOMAIN f = CallFields /\ f.op = c.op /\ f.n = c.n /\ f.i = c.i /\ f.x = c.x
        /\ f.given = c.given /\ f.out = c.out /\ f.held = c.held \cup Held(e) /\ f.touched = TRUE
    BY <1>1, <1>2 DEF CallFields
  <1>4. ~f.shrunk => ~c.shrunk /\ ~(e.size < d.size)
    BY <1>1 DEF CallFields
  <1>5. ~f.shrunk => c.n <= e.size
    BY <1>1, <1>2, <1>4
  <1>6. Delivered(c) \subseteq Delivered(f)
    BY <1>3 DEF Delivered
  <1>7. Begun(f, e)
    BY <1>1, <1>2, <1>3, <1>5, <1>6 DEF Begun
  <1>8. ASSUME c.op.m = "filter", c.i < Len(e.data) PROVE e.data[c.i + 1] \in f.held \cup {Nowhere}
    <2> DEFINE i == c.i + 1
    <2>1. i \in 1 .. Len(e.data) /\ Len(d.data) \in Nat
      BY <1>1, <1>2, <1>8, BufferHas
    <2>2. \/ e.data[i] \in Held(d) \cup Held(e) \cup {Nowhere}
          \/ i <= Len(d.data) /\ e.data[i] = d.data[i]
      <3> HIDE DEF i
      <3> QED BY <1>2, <2>1 DEF Leftover
    <2>3. i <= Len(d.data) => d.data[i] \in c.held \cup {Nowhere}
      BY <1>1, <1>8, <2>1 DEF Calling
    <2> QED BY <1>1, <1>3, <2>2, <2>3
  <1> QED BY <1>3, <1>7, <1>8 DEF Calling

\* What an array holds when a method has ended, and what that method has delivered.
LEMMA ItemsNotNowhere ==
  ASSUME NEW d, Buffer(d) PROVE Nowhere \notin Range(Items(d))
  BY ItemsAre, SlotsAre

\* A step by which a method goes on, or ends, keeps the invariant.
LEMMA StepKeeps ==
  ASSUME Alive, IsArray(arr), StaysInBufferBut, DeliversItemsBut, NEW c, NEW o, GoesOn(c, arr, o),
         Step(c, o), arr'.size <= INT64_MAX
  PROVE  BufferInv'
  <1>1. arr' = o.arr
    BY DEF Step
  <1>2. CASE o.end = "calls"
    <2>1. o.arr = arr /\ Calling(o.call, arr)
      BY <1>2 DEF GoesOn
    <2>2. arr' = arr /\ call' = o.call /\ last' = last
      BY <1>2, <2>1 DEF Step
    <2> QED BY <2>1, <2>2 DEF BufferInv, Alive, StaysInBufferBut, DeliversItemsBut
  <1>3. CASE o.end # "calls"
    <2>1. call' = Idle
      BY <1>3 DEF Step
    <2>2. /\ last'.op = c.op /\ last'.out = o.out /\ last'.end = o.end /\ last'.held = c.held
          /\ last'.touched = c.touched /\ last'.shrunk = c.shrunk
      BY <1>3 DEF Step
    <2>3. CASE /\ o.end \in {"returned", "thrown"} /\ Kept(arr, o.arr)
               /\ Reads(c.op) => Range(o.out) \subseteq Delivered(c)
      <3>1. Buffer(arr')
        BY <1>1, <2>3 DEF Kept
      <3>2. IsArray(arr)'
        BY <3>1 DEF IsArray
      <3>3. Nowhere \notin Range(Items(arr'))
        BY <3>1, ItemsNotNowhere
      <3>4. Range(last'.out) \subseteq Delivered(c) \/ ~Reads(last'.op)
        BY <2>2, <2>3
      <3>5. DeliversItemsBut'
        BY <2>2, <3>3, <3>4 DEF DeliversItemsBut, Reads, Delivered
      <3>6. StaysInBufferBut'
        BY <2>2, <2>3 DEF StaysInBufferBut
      <3> QED BY <2>1, <3>2, <3>5, <3>6 DEF BufferInv
    <2>4. CASE ~(o.end \in {"returned", "thrown"})
      <3>1. ~Alive'
        BY <2>2, <2>4 DEF Alive
      <3>2. StaysInBufferBut'
        BY <1>3, <2>2, <2>4 DEF StaysInBufferBut, GoesOn
      <3> QED BY <3>1, <3>2 DEF BufferInv, DeliversItemsBut
    <2> QED BY <1>3, <2>3, <2>4 DEF GoesOn
  <1> QED BY <1>2, <1>3

\* So does a method that does not call the program, also from within another one.
LEMMA SimpleKeeps ==
  ASSUME BufferInv, NEW op, IsInvocation(op), Simple(op), arr'.size <= INT64_MAX
  PROVE  BufferInv'
  <1> DEFINE o == Run(op, arr)
  <1>1. Alive /\ ~CallsBack(op) /\ IsArray(arr) /\ Buffer(arr) /\ arr.size <= INT64_MAX
        /\ (call # Idle => Calling(call, arr))
    BY DEF Simple, BufferInv, IsArray
  <1>2. Keeps(op, arr, o)
    BY <1>1, RunKeeps
  <1>3. /\ arr' = o.arr /\ last' = Report(op, Items(arr), o)
        /\ IF call = Idle THEN UNCHANGED call
           ELSE \E moves \in {FALSE, Len(o.arr.data) # Len(arr.data)} :
                  call' = [call EXCEPT !.moved = @ \/ moves, !.touched = TRUE,
                                       !.shrunk = @ \/ o.arr.size < arr.size,
                                       !.held = @ \cup Range(Items(o.arr))]
    BY DEF Simple
  <1> HIDE DEF o
  <1>4. last'.op = op /\ last'.out = o.out /\ last'.end = o.end /\ last'.before = Items(arr)
    BY <1>3 DEF Report
  <1>5. CASE o.end \in {"returned", "thrown"} /\ Kept(arr, o.arr)
    <2>1. Buffer(arr')
      BY <1>3, <1>5 DEF Kept
    <2>2. IsArray(arr)'
      BY <2>1 DEF IsArray
    <2>3. (call # Idle => Calling(call, arr))'
      <3>1. CASE call = Idle
        BY <1>3, <3>1 DEF Idle
      <3>2. CASE call # Idle
        <4>1. PICK moves \in {FALSE, Len(o.arr.data) # Len(arr.data)} :
                call' = [call EXCEPT !.moved = @ \/ moves, !.touched = TRUE,
                                     !.shrunk = @ \/ o.arr.size < arr.size,
                                     !.held = @ \cup Range(Items(o.arr))]
          BY <1>3, <3>2
        <4>2. Calling(call', o.arr)
          BY <1>1, <1>5, <3>2, <4>1, CallingStill
        <4> QED BY <1>3, <4>2
      <3> QED BY <3>1, <3>2
    <2>4. DeliversItemsBut'
      <3>1. Nowhere \notin Range(Items(arr'))
        BY <2>1, ItemsNotNowhere
      <3>2. op.m \notin {"map", "filter", "for", "contains"}
        BY <1>1 DEF CallsBack
      <3> QED BY <1>4, <3>1, <3>2 DEF DeliversItemsBut
    <2>5. StaysInBufferBut'
      BY <1>4, <1>5 DEF StaysInBufferBut
    <2> QED BY <2>2, <2>3, <2>4, <2>5 DEF BufferInv
  <1>6. CASE ~(o.end \in {"returned", "thrown"})
    <2>1. ~Alive'
      BY <1>4, <1>6 DEF Alive
    <2>2. StaysInBufferBut'
      BY <1>2, <1>4, <1>6 DEF StaysInBufferBut, Keeps
    <2> QED BY <2>1, <2>2 DEF BufferInv, DeliversItemsBut
  <1> QED BY <1>2, <1>5, <1>6 DEF Keeps

\* So does the beginning of one that does.
LEMMA BeginKeeps ==
  ASSUME BufferInv, NEW op, IsInvocation(op), Begin(op), arr'.size <= INT64_MAX
  PROVE  BufferInv'
  <1> DEFINE c == [op |-> op, n |-> arr.size, i |-> 0, given |-> Nowhere, moved |-> FALSE,
                   out |-> <<>>,
                   x |-> IF op.m = "setslice" THEN slice_indices(op.s, arr.size) ELSE ARGON_NULL,
                   before |-> Items(arr), held |-> Range(Items(arr)),
                   touched |-> FALSE, shrunk |-> FALSE]
             o == GoOn(arr, c)
  <1>1. /\ Alive /\ CallsBack(op) /\ IsArray(arr) /\ Buffer(arr) /\ arr.size <= INT64_MAX
        /\ StaysInBufferBut /\ DeliversItemsBut
    BY DEF Begin, BufferInv, IsArray
  <1>2. Step(c, o)
    BY DEF Begin
  <1>3. /\ DOMAIN c = CallFields /\ c.op = op /\ c.n = arr.size /\ c.i = 0 /\ c.out = <<>>
        /\ c.held = Range(Items(arr)) /\ c.touched = FALSE
        /\ (op.m = "setslice" => c.x = slice_indices(op.s, arr.size))
    BY DEF CallFields
  <1> HIDE DEF c
  <1>4. /\ c.held = Held(arr) /\ c.held \subseteq Stored /\ arr.size \in 0 .. INT64_MAX
        /\ arr.size <= arr.size
    BY <1>1, <1>3, ItemsAre, BufferHas, Limits
  <1>5. c.out \in Seq(Slots) /\ c.out \in Seq(Stored) /\ Range(c.out) \subseteq Delivered(c)
    <2> HIDE DEF Slots, Stored
    <2> QED BY <1>3 DEF Range
  <1>6. Begun(c, arr)
    BY <1>1, <1>3, <1>4, <1>5 DEF Begun
  <1>7. Ready(c, arr)
    BY <1>3, <1>4, <1>6 DEF Ready
  <1>8. GoesOn(c, arr, o)
    BY <1>1, <1>7, EachGoes
  <1> HIDE DEF o
  <1> QED BY <1>1, <1>2, <1>8, StepKeeps

\* So does the program's answer.
LEMMA AnswerKeeps ==
  ASSUME BufferInv, Answer, arr'.size <= INT64_MAX
  PROVE  BufferInv'
  <1>1. /\ Alive /\ IsArray(arr) /\ Buffer(arr) /\ Calling(call, arr)
        /\ StaysInBufferBut /\ DeliversItemsBut
    BY DEF Answer, BufferInv, IsArray
  <1>2. PICK c \in Answered(arr, call) : Step(c, GoOn(arr, c))
    BY DEF Answer
  <1>3. Ready(c, arr)
    BY <1>1, AnsweredIs
  <1>4. GoesOn(c, arr, GoOn(arr, c))
    BY <1>1, <1>3, EachGoes
  <1> QED BY <1>1, <1>2, <1>4, StepKeeps

\* So does an exception of the program.
LEMMA RaiseKeeps ==
  ASSUME BufferInv, Raise, arr'.size <= INT64_MAX
  PROVE  BufferInv'
  <1> DEFINE o == Throw(arr)
  <1>1. /\ Alive /\ IsArray(arr) /\ Buffer(arr) /\ StaysInBufferBut /\ DeliversItemsBut
        /\ Step(call, o)
    BY DEF Raise, BufferInv, IsArray
  <1>2. o.end = "thrown" /\ o.arr = arr /\ Range(o.out) = {}
    BY DEF Throw, Ends, Range
  <1>3. Kept(arr, arr)
    BY <1>1, KeptAsIs
  <1> HIDE DEF o
  <1>4. GoesOn(call, arr, o)
    BY <1>2, <1>3 DEF GoesOn
  <1> QED BY <1>1, <1>4, StepKeeps

\* The arrays that a program begins with.
LEMMA InitKeeps ==
  ASSUME Init PROVE BufferInv
  <1>1. PICK s \in Starts : arr = [darray_armem_init(Len(s)) EXCEPT !.data = Write(@, 0, s)]
    BY DEF Init
  <1>2. s \in Seq(Stored) /\ Len(s) <= INT64_MAX
    BY ArrayAssumption DEF ItemLists
  <1>3. Kept(arr, arr) /\ arr.size = Len(s)
    BY <1>1, <1>2, FilledIs
  <1>4. IsArray(arr)
    BY <1>2, <1>3 DEF IsArray, Kept
  <1>5. call = Idle /\ last.end = "returned" /\ last.op.m = "none"
    BY DEF Init, Report, Idle, Return, Ends
  <1>6. Nowhere \notin Range(Items(arr))
    BY <1>4, ItemsNotNowhere DEF IsArray
  <1> QED BY <1>4, <1>5, <1>6 DEF BufferInv, StaysInBufferBut, DeliversItemsBut

\* Every step keeps the invariant.
LEMMA NextKeeps ==
  ASSUME BufferInv, [Next]_vars PROVE BufferInv'
  <1>1. CASE UNCHANGED vars
    BY <1>1 DEF vars, BufferInv, Alive, StaysInBufferBut, DeliversItemsBut
  <1>2. CASE Next
    <2>1. arr'.size <= INT64_MAX
      BY <1>2 DEF Next
    <2>2. CASE \E op \in Methods \cup Later : Simple(op) \/ Begin(op)
      <3>1. PICK op \in Methods \cup Later : Simple(op) \/ Begin(op)
        BY <2>2
      <3>2. IsInvocation(op)
        BY ArrayAssumption
      <3> QED BY <2>1, <3>1, <3>2, SimpleKeeps, BeginKeeps
    <2>3. CASE Answer
      BY <2>1, <2>3, AnswerKeeps
    <2>4. CASE Raise
      BY <2>1, <2>4, RaiseKeeps
    <2> QED BY <1>2, <2>2, <2>3, <2>4 DEF Next
  <1> QED BY <1>1, <1>2

\* The invariant holds in every state.
THEOREM BufferInvariance == Spec => []BufferInv
  BY InitKeeps, NextKeeps, PTL DEF Spec

\* No sequence of calls of an array's methods, nested ones included, ends the process, leaves the
\* buffer or makes an array of 2^64 items, but for the exceptions that the property names: for
\* every width of the integers, all arguments, and whatever the program does when it is called.
THEOREM ArraysStayInBuffer == Spec => []StaysInBufferBut
  BY BufferInvariance, PTL DEF BufferInv

\* Nothing that nobody has put into an array comes out of it.
THEOREM ArraysDeliverItems == Spec => []DeliversItemsBut
  BY BufferInvariance, PTL DEF BufferInv

-------------------------------------------------------------------------------
(* Arrays are lists.  Slices and ranges name the numbers that Listed lists;  *)
(* then each method, what it does to the items, and the invariant ExactSoFar.*)

\* t has the n numbers of S, upwards or downwards.
Lists(t, n, S, up) ==
  /\ n \in Nat /\ S \subseteq Int /\ up \in BOOLEAN /\ t \in [1 .. n -> S]
  /\ \A x \in S : \E i \in 1 .. n : t[i] = x
  /\ \A i, j \in 1 .. n : i < j => IF up THEN t[i] < t[j] ELSE t[i] > t[j]

\* Numbers that go up, or down, are the list of all of them.
LEMMA ListedIs ==
  ASSUME NEW S, NEW up, NEW n, NEW t, Lists(t, n, S, up)
  PROVE  Listed(S, up) = t /\ Cardinality(S) = n
  <1> DEFINE Before(x) == {y \in S : IF up THEN y < x ELSE y > x}
             P == 1 .. n
  <1>0. /\ n \in Nat /\ S \subseteq Int /\ up \in BOOLEAN /\ t \in [1 .. n -> S]
        /\ \A x \in S : \E i \in 1 .. n : t[i] = x
        /\ \A i, j \in 1 .. n : i < j => IF up THEN t[i] < t[j] ELSE t[i] > t[j]
    BY DEF Lists
  <1> USE <1>0
  <1>1. \A i, j \in P : i # j => t[i] # t[j]
    <2> SUFFICES ASSUME NEW i \in P, NEW j \in P, i < j PROVE t[i] # t[j]
      OBVIOUS
    <2>1. t[i] \in Int /\ t[j] \in Int /\ IF up THEN t[i] < t[j] ELSE t[i] > t[j]
      OBVIOUS
    <2> QED BY <2>1
  <1>2. IsFiniteSet(P) /\ Cardinality(P) = n
    BY FS_Interval
  <1>3. t \in Bijection(P, S)
    <2> HIDE DEF P
    <2> QED BY <1>1 DEF P, Bijection, Injection, Surjection, IsInjective
  <1>4. IsFiniteSet(S) /\ Cardinality(S) = n
    <2>1. ExistsBijection(P, S)
      BY <1>3 DEF ExistsBijection
    <2> HIDE DEF P
    <2> QED BY <1>2, <2>1, FS_Bijection
  <1>5. ASSUME NEW i \in P PROVE IsFiniteSet(Before(t[i])) /\ Cardinality(Before(t[i])) = i - 1
    <2> DEFINE B == Before(t[i])
               Q == 1 .. i - 1
               g == [j \in Q |-> t[j]]
    <2>1. IsFiniteSet(Q) /\ Cardinality(Q) = i - 1
      BY FS_Interval
    <2>2. \A j \in Q : j \in P /\ t[j] \in B
      OBVIOUS
    <2>3. ASSUME NEW y \in B PROVE \E j \in Q : t[j] = y
      <3>1. PICK j \in P : t[j] = y
        OBVIOUS
      <3>2. ~(i < j)
        <4> SUFFICES ASSUME i < j PROVE FALSE
          OBVIOUS
        <4>1. t[i] \in Int /\ t[j] \in Int /\ IF up THEN t[i] < t[j] ELSE t[i] > t[j]
          OBVIOUS
        <4>2. IF up THEN t[j] < t[i] ELSE t[j] > t[i]
          BY <3>1
        <4> QED BY <4>1, <4>2
      <3>3. i # j
        <4> SUFFICES ASSUME i = j PROVE FALSE
          OBVIOUS
        <4>1. IF up THEN t[i] < t[i] ELSE t[i] > t[i]
          BY <3>1
        <4>2. t[i] \in Int
          OBVIOUS
        <4> QED BY <4>1, <4>2
      <3>4. j \in Q
        BY <3>2, <3>3
      <3> QED BY <3>1, <3>4
    <2> HIDE DEF B
    <2>4. g \in [Q -> B]
      BY <2>2
    <2>5. \A j, k \in Q : j # k => g[j] # g[k]
      BY <1>1, <2>2
    <2>6. \A y \in B : \E j \in Q : g[j] = y
      BY <2>3
    <2> HIDE DEF g, Q
    <2>7. ExistsBijection(Q, B)
      BY <2>4, <2>5, <2>6 DEF ExistsBijection, Bijection, Injection, Surjection, IsInjective
    <2>8. IsFiniteSet(B) /\ Cardinality(B) = Cardinality(Q)
      BY <2>1, <2>7, FS_Bijection
    <2> QED BY <2>1, <2>8 DEF B
  <1> HIDE DEF Before
  <1>6. ASSUME NEW i \in P
        PROVE  (CHOOSE x \in S : Cardinality(Before(x)) = i - 1) = t[i]
    <2>1. \A x \in S : Cardinality(Before(x)) = i - 1 => x = t[i]
      <3> SUFFICES ASSUME NEW x \in S, Cardinality(Before(x)) = i - 1 PROVE x = t[i]
        OBVIOUS
      <3>1. PICK j \in P : t[j] = x
        OBVIOUS
      <3>2. Cardinality(Before(x)) = j - 1
        BY <1>5, <3>1
      <3> QED BY <3>1, <3>2
    <2>2. t[i] \in S /\ Cardinality(Before(t[i])) = i - 1
      BY <1>5
    <2> QED BY <2>1, <2>2
  <1>7. Listed(S, up) = [i \in 1 .. n |-> CHOOSE x \in S : Cardinality(Before(x)) = i - 1]
    BY <1>4 DEF Listed, Before
  <1>8. Listed(S, up) = [i \in 1 .. n |-> t[i]]
    BY <1>6, <1>7
  <1> QED BY <1>4, <1>8

\* The larger and the smaller of two.
LEMMA OfTwo ==
  ASSUME NEW a \in Int, NEW b \in Int
  PROVE  Max({a, b}) = (IF a < b THEN b ELSE a) /\ Min({a, b}) = (IF a < b THEN a ELSE b)
  <1>1. PICK m \in {a, b} : m = (IF a < b THEN b ELSE a) /\ \A y \in {a, b} : m >= y
    OBVIOUS
  <1>2. \A x \in {a, b} : (\A y \in {a, b} : x >= y) => x = m
    BY <1>1
  <1>3. Max({a, b}) = m
    BY <1>1, <1>2 DEF Max
  <1>4. PICK k \in {a, b} : k = (IF a < b THEN a ELSE b) /\ \A y \in {a, b} : k <= y
    OBVIOUS
  <1>5. \A x \in {a, b} : (\A y \in {a, b} : x <= y) => x = k
    BY <1>4
  <1>6. Min({a, b}) = k
    BY <1>4, <1>5 DEF Min
  <1> QED BY <1>1, <1>3, <1>4, <1>6

\* In steps of w from 0, those that do not go beyond L - 1.
LEMMA StepsAre ==
  ASSUME NEW L \in Nat, NEW w \in Nat \ {0}, NEW n \in Nat,
         \A i \in 0 .. n - 1 : i * w \in 0 .. L - 1, n * w >= L, NEW q \in Int
  PROVE  q >= 0 /\ q < L /\ q % w = 0 <=> \E i \in 0 .. n - 1 : q = i * w
  <1>1. ASSUME q >= 0, q < L, q % w = 0 PROVE \E i \in 0 .. n - 1 : q = i * w
    <2> DEFINE i == q \div w
    <2>1. i \in Int /\ q = w * i
      BY <1>1, Division
    <2> HIDE DEF i
    <2>2. q = i * w
      BY <2>1
    <2>3. i >= 0
      <3> SUFFICES ASSUME i <= -1 PROVE FALSE
        BY <2>1
      <3>1. i * w <= -1 * w
        BY <2>1
      <3> QED BY <1>1, <2>2, <3>1
    <2>4. i < n
      <3> SUFFICES ASSUME i >= n PROVE FALSE
        BY <2>1
      <3>1. i * w >= n * w
        BY <2>1
      <3>2. n * w \in Int /\ i * w \in Int
        BY <2>1
      <3> QED BY <1>1, <2>2, <3>1, <3>2
    <2> QED BY <2>1, <2>2, <2>3, <2>4
  <1>2. ASSUME NEW i \in 0 .. n - 1, q = i * w PROVE q >= 0 /\ q < L /\ q % w = 0
    <2>1. q \in 0 .. L - 1
      BY <1>2
    <2>2. q = w * i + 0
      BY <1>2
    <2> QED BY <2>1, <2>2, DivUnique
  <1> QED BY <1>1, <1>2

\* How far p is from a.
Along(p, a, up) == IF up THEN p - a ELSE a - p

\* The n numbers from a, w apart.
Stepwise(a, w, n, up) == [k \in 1 .. n |-> IF up THEN a + (k - 1) * w ELSE a - (k - 1) * w]

\* S has the numbers that are whole steps from a, less than L away, which is n steps.
Progression(S, a, L, w, n, up) ==
  /\ a \in Int /\ L \in Nat /\ w \in Nat \ {0} /\ Counts(L, w, n)
  /\ up \in BOOLEAN /\ S \subseteq Int
  /\ \A p \in Int : p \in S <=> /\ Along(p, a, up) >= 0 /\ Along(p, a, up) < L
                                /\ Along(p, a, up) % w = 0

\* They are listed step by step.
LEMMA ProgressionIs ==
  ASSUME NEW a, NEW L, NEW w, NEW n, NEW up, NEW S, Progression(S, a, L, w, n, up)
  PROVE  /\ Listed(S, up) = Stepwise(a, w, n, up)
         /\ \A p \in S : \E k \in 1 .. n : Stepwise(a, w, n, up)[k] = p
         /\ \A k \in 1 .. n : Stepwise(a, w, n, up)[k] \in S
  <1>0. /\ a \in Int /\ L \in Nat /\ w \in Nat \ {0} /\ Counts(L, w, n)
        /\ up \in BOOLEAN /\ S \subseteq Int
        /\ \A p \in Int : p \in S <=> /\ Along(p, a, up) >= 0 /\ Along(p, a, up) < L
                                      /\ Along(p, a, up) % w = 0
    BY DEF Progression
  <1> USE <1>0
  <1> DEFINE t == Stepwise(a, w, n, up)
  <1>1. n \in Nat /\ n * w >= L /\ \A i \in 0 .. n - 1 : i * w \in 0 .. L - 1
    BY DEF Counts
  <1>2. \A q \in Int : q >= 0 /\ q < L /\ q % w = 0 <=> \E i \in 0 .. n - 1 : q = i * w
    BY <1>1, StepsAre
  <1>3. ASSUME NEW k \in 1 .. n
        PROVE  /\ t[k] \in Int /\ Along(t[k], a, up) = (k - 1) * w /\ k - 1 \in 0 .. n - 1
               /\ t[k] = IF up THEN a + (k - 1) * w ELSE a - (k - 1) * w
    <2>1. (k - 1) * w \in Int
      BY <1>1
    <2>2. t[k] = IF up THEN a + (k - 1) * w ELSE a - (k - 1) * w
      BY DEF Stepwise
    <2> QED BY <1>1, <2>1, <2>2 DEF Along
  <1>4. ASSUME NEW k \in 1 .. n PROVE t[k] \in S
    <2>1. (k - 1) * w \in Int
      BY <1>1
    <2> HIDE DEF t
    <2> QED BY <1>2, <1>3, <2>1
  <1>5. ASSUME NEW p \in S PROVE \E k \in 1 .. n : t[k] = p
    <2>1. p \in Int /\ Along(p, a, up) \in Int
      BY DEF Along
    <2>2. PICK i \in 0 .. n - 1 : Along(p, a, up) = i * w
      BY <1>2, <2>1
    <2>3. i + 1 \in 1 .. n /\ (i + 1) - 1 = i /\ i * w \in Int
      BY <1>1
    <2>4. t[i + 1] = p
      <3>1. t[i + 1] = IF up THEN a + i * w ELSE a - i * w
        BY <1>3, <2>3
      <3>2. (IF up THEN p - a ELSE a - p) = i * w
        BY <2>2 DEF Along
      <3> QED BY ONLY <3>1, <3>2, <2>1, <2>3, <1>0
    <2> QED BY <2>3, <2>4
  <1>6. \A i, j \in 1 .. n : i < j => IF up THEN t[i] < t[j] ELSE t[i] > t[j]
    <2> SUFFICES ASSUME NEW i \in 1 .. n, NEW j \in 1 .. n, i < j
                 PROVE  IF up THEN t[i] < t[j] ELSE t[i] > t[j]
      OBVIOUS
    <2>1. (i - 1) * w < (j - 1) * w /\ (i - 1) * w \in Int /\ (j - 1) * w \in Int
      <3>1. (j - 1) * w - (i - 1) * w = (j - i) * w /\ (j - i) * w > 0
        BY <1>1
      <3> QED BY <3>1, <1>1
    <2>2. /\ t[i] = IF up THEN a + (i - 1) * w ELSE a - (i - 1) * w
          /\ t[j] = IF up THEN a + (j - 1) * w ELSE a - (j - 1) * w
      BY <1>3
    <2> QED BY ONLY <2>1, <2>2, <1>0
  <1>7. t \in [1 .. n -> S]
    BY <1>4 DEF Stepwise
  <1> HIDE DEF t
  <1>8. Listed(S, up) = t
    <2>1. Lists(t, n, S, up)
      BY <1>1, <1>5, <1>6, <1>7 DEF Lists
    <2> QED BY <2>1, ListedIs
  <1> QED BY <1>4, <1>5, <1>8 DEF t

\* How far indices reach, and the size of their steps.
Reach(x) == IF x.step > 0 THEN (IF x.stop > x.start THEN x.stop - x.start ELSE 0)
            ELSE (IF x.stop < x.start THEN x.start - x.stop ELSE 0)
\* How far the indices move at each step.
Pace(x) == IF x.step > 0 THEN x.step ELSE -x.step

\* Indices whose arithmetic stays in 64 bits.
Gentle(x, len) == x.step \in {1} \/ (x.step <= INT64_MAX - len /\ x.step >= len - INT64_MAX)

\* They are counted as they are.
LEMMA CountsRight ==
  ASSUME NEW len, len \in 0 .. INT64_MAX, NEW x, Normalised(x, len), Gentle(x, len)
  PROVE  Counts(Reach(x), Pace(x), slice_len(x)) /\ Reach(x) \in Nat /\ Pace(x) \in Nat \ {0}
  <1> DEFINE n == slice_len(x)
  <1>1. /\ x.start \in Int /\ x.stop \in Int /\ x.step \in Int /\ x.step # 0
        /\ x.step <= INT64_MAX /\ x.step >= -INT64_MAX - 1 /\ len \in Nat /\ len <= INT64_MAX
        /\ INT64_MAX \in Nat \ {0}
    BY Limits DEF Normalised, Int64
  <1>2. /\ x.step > 0 => x.start \in 0 .. len /\ x.stop \in 0 .. len
        /\ x.step < 0 => x.start \in -1 .. len - 1 /\ x.stop \in -1 .. len - 1
    BY Zenon DEF Normalised
  <1>3. x.step = 1 \/ (x.step <= INT64_MAX - len /\ x.step >= len - INT64_MAX)
    BY DEF Gentle
  <1>4. Reach(x) \in Nat /\ Reach(x) <= len
    BY ONLY <1>1, <1>2 DEF Reach
  <1>5. Pace(x) \in Nat \ {0} /\ Pace(x) <= INT64_MAX
        /\ (Pace(x) <= INT64_MAX - len \/ Pace(x) = 1)
    BY ONLY <1>1, <1>3 DEF Pace
  <1>6. CASE Reach(x) = 0
    <2>1. ~(x.step > 0 /\ x.stop > x.start) /\ ~(x.step < 0 /\ x.stop < x.start)
      BY ONLY <1>1, <1>6 DEF Reach
    <2>2. n = 0
      BY <2>1 DEF slice_len
    <2>3. 0 * Pace(x) = 0
      BY <1>5
    <2> QED BY <1>4, <1>5, <1>6, <2>2, <2>3 DEF Counts
  <1>7. CASE Reach(x) # 0
    <2> DEFINE L == Reach(x)
               w == Pace(x)
    <2>1. n = Quotient(Wrapped(L + w - 1), w)
      <3>1. CASE x.step > 0
        <4>1. x.stop > x.start /\ L = x.stop - x.start /\ w = x.step
          BY ONLY <1>1, <1>7, <3>1 DEF Reach, Pace
        <4> HIDE DEF L, w
        <4>2. n = Quotient(Wrapped(x.stop - x.start + x.step - 1), x.step)
          BY <4>1, <3>1 DEF slice_len
        <4> QED BY <4>1, <4>2
      <3>2. CASE x.step < 0
        <4>1. x.stop < x.start /\ L = x.start - x.stop /\ w = -x.step
          BY ONLY <1>1, <1>7, <3>2 DEF Reach, Pace
        <4>2. x.start - x.stop - x.step - 1 = L + w - 1 /\ ~(x.step > 0)
          BY ONLY <4>1, <1>1, <3>2
        <4>3. Wrapped(-x.step) = w
          <5>1. w \in Int64
            BY <1>5, Limits DEF Int64
          <5>2. w \in Int
            BY <1>5
          <5> HIDE DEF w
          <5> QED BY <4>1, <5>1, <5>2, Wraps
        <4> HIDE DEF L, w
        <4>4. n = Quotient(Wrapped(x.start - x.stop - x.step - 1), Wrapped(-x.step))
          BY <4>1, <4>2, <3>2 DEF slice_len
        <4> QED BY <4>2, <4>3, <4>4
      <3> QED BY <1>1, <3>1, <3>2
    <2>2. L \in Nat \ {0} /\ L <= INT64_MAX /\ (w <= INT64_MAX - L \/ w = 1)
      BY ONLY <1>1, <1>4, <1>5, <1>7
    <2> HIDE DEF L, w, n
    <2>3. w \in Nat \ {0} /\ w <= INT64_MAX
      BY <1>5 DEF w
    <2>4. Counts(L, w, n)
      BY <2>1, <2>2, <2>3, Distance
    <2> QED BY <1>4, <1>5, <2>4 DEF L, w, n
  <1> QED BY <1>6, <1>7

\* A bound of a slice before it is held between limits.
Given(v, default, len) == IF v = ARGON_NULL THEN default ELSE IF v < 0 THEN v + len ELSE v

\* A bound of indices is such a bound, held between limits.
LEMMA BoundOf ==
  ASSUME NEW v, v \in Int64 \cup {ARGON_NULL}, NEW low \in Int, NEW high \in Int,
         low <= high, NEW default \in low .. high, NEW len \in Nat
  PROVE  LET g == Given(v, default, len)
         IN g \in Int /\ Bounded(v, default, low, high, len)
                           = IF g < low THEN low ELSE IF g > high THEN high ELSE g
  <1>1. v # ARGON_NULL => v \in Int /\ v + len \in Int
    BY Limits DEF Int64
  <1>2. CASE v = ARGON_NULL
    BY <1>2 DEF Given, Bounded
  <1>3. CASE v # ARGON_NULL
    <2> DEFINE g == IF v < 0 THEN v + len ELSE v
    <2>1. g \in Int /\ Given(v, default, len) = g
      BY <1>1, <1>3 DEF Given
    <2>2. Bounded(v, default, low, high, len) = Clamp(g, low, high)
      BY <1>3 DEF Bounded
    <2> HIDE DEF g
    <2> QED BY <2>1, <2>2 DEF Clamp
  <1> QED BY <1>2, <1>3

\* The positions that a slice names.
Chooses(s, x, n, len) ==
  /\ n \in Nat /\ Gentle(x, len)
  /\ Named(s, len) = [k \in 1 .. n |-> src_index(x, k - 1)]
  /\ \A k \in 1 .. n : src_index(x, k - 1) \in 0 .. len - 1

\* A slice whose step is not near the limits names the positions that its indices count, one by
\* one.
LEMMA SliceNames ==
  ASSUME NEW s, IsSlice(s), NEW len \in 0 .. INT64_MAX, ~Steep(s, len),
         NEW x, x = slice_indices(s, len)
  PROVE  Chooses(s, x, slice_len(x), len)
  <1> DEFINE n == slice_len(x)
             step == IF s.step = ARGON_NULL THEN 1 ELSE s.step
             up == step > 0
  <1>1. step \in Int64 \ {0} /\ step \in Int /\ step # 0 /\ up \in BOOLEAN
    BY Limits DEF IsSlice, Int64
  <1>2. len \in Nat /\ s.start \in Int64 \cup {ARGON_NULL} /\ s.stop \in Int64 \cup {ARGON_NULL}
    BY Limits DEF IsSlice
  <1>3. Normalised(x, len) /\ x.step = step
    BY IndicesAre
  <1>4. /\ x.start \in Int /\ x.stop \in Int
        /\ x.step > 0 => x.start \in 0 .. len /\ x.stop \in 0 .. len
        /\ x.step < 0 => x.start \in -1 .. len - 1 /\ x.stop \in -1 .. len - 1
    BY <1>3, Zenon DEF Normalised
  <1>5. Gentle(x, len)
    BY <1>1, <1>2, <1>3, Limits DEF Gentle, Steep
  <1>6. Counts(Reach(x), Pace(x), n) /\ Reach(x) \in Nat /\ Pace(x) \in Nat \ {0}
    BY <1>3, <1>5, CountsRight
  <1>7. Pace(x) = IF up THEN step ELSE -step
    BY <1>3 DEF Pace
  <1> DEFINE first == IF up THEN Max({0, Given(s.start, 0, len)})
                      ELSE Min({len - 1, Given(s.start, len - 1, len)})
             IsNamed(p) == IF up THEN /\ p >= first /\ p < Given(s.stop, len, len)
                                      /\ (p - first) % step = 0
                           ELSE /\ p <= first /\ p > Given(s.stop, -1, len)
                                /\ (first - p) % (-step) = 0
             S == {p \in 0 .. len - 1 : IsNamed(p)}
  <1>8. Named(s, len) = Listed(S, up)
    BY Zenon DEF Named, Given
  <1> HIDE DEF step, n
  <1>9. ASSUME NEW p \in Int
        PROVE  p \in S <=> /\ Along(p, x.start, up) >= 0 /\ Along(p, x.start, up) < Reach(x)
                           /\ Along(p, x.start, up) % Pace(x) = 0
    <2>1. CASE up
      <3> DEFINE f == Given(s.start, 0, len)
                 g == Given(s.stop, len, len)
      <3>1. x.start = Bounded(s.start, 0, 0, len, len) /\ x.stop = Bounded(s.stop, len, 0, len, len)
        BY <2>1 DEF slice_indices, Bounded, step
      <3>2. 0 \in 0 .. len /\ len \in 0 .. len /\ 0 <= len /\ 0 \in Int /\ len \in Int
        BY <1>2
      <3>3. f \in Int /\ x.start = IF f < 0 THEN 0 ELSE IF f > len THEN len ELSE f
        BY <1>2, <3>1, <3>2, BoundOf
      <3>4. g \in Int /\ x.stop = IF g < 0 THEN 0 ELSE IF g > len THEN len ELSE g
        BY <1>2, <3>1, <3>2, BoundOf
      <3> HIDE DEF f, g
      <3>5. first = IF 0 < f THEN f ELSE 0
        BY <2>1, <3>3, OfTwo DEF f
      <3> DEFINE h == first
      <3>6. p \in S <=> p \in 0 .. len - 1 /\ p >= h /\ p < g /\ (p - h) % step = 0
        BY <2>1 DEF g
      <3> HIDE DEF h
      <3>7. h = IF 0 < f THEN f ELSE 0
        BY <3>5 DEF h
      <3>8. Along(p, x.start, up) = p - x.start /\ Pace(x) = step
        BY <2>1, <1>7 DEF Along
      <3>9. Reach(x) = IF x.stop > x.start THEN x.stop - x.start ELSE 0
        BY <2>1, <1>3 DEF Reach
      <3>10. CASE h <= len
        <4>1. x.start = h
          BY ONLY <3>10, <3>7, <3>3, <1>2
        <4>2. p \in 0 .. len - 1 /\ p >= h /\ p < g <=> p - x.start >= 0 /\ p - x.start < Reach(x)
          BY ONLY <4>1, <3>7, <3>3, <3>4, <3>9, <1>2, p \in Int
        <4> QED BY <3>6, <3>8, <4>1, <4>2
      <3>11. CASE h > len
        <4>1. x.start = len
          BY ONLY <3>11, <3>7, <3>3, <1>2
        <4>2. ~(p \in 0 .. len - 1 /\ p >= h /\ p < g)
          BY ONLY <3>11, <3>7, <3>3, <1>2, p \in Int
        <4>3. ~(p - x.start >= 0 /\ p - x.start < Reach(x))
          BY ONLY <4>1, <3>4, <3>9, <1>2, p \in Int
        <4> QED BY <3>6, <3>8, <4>2, <4>3
      <3>12. h \in Int
        BY ONLY <3>7, <3>3
      <3> QED BY ONLY <3>10, <3>11, <3>12, <1>2
    <2>2. CASE ~up
      <3> DEFINE f == Given(s.start, len - 1, len)
                 g == Given(s.stop, -1, len)
      <3>1. /\ x.start = Bounded(s.start, len - 1, -1, len - 1, len)
            /\ x.stop = Bounded(s.stop, -1, -1, len - 1, len)
        BY <2>2 DEF slice_indices, Bounded, step
      <3>2. /\ -1 \in -1 .. len - 1 /\ len - 1 \in -1 .. len - 1 /\ -1 <= len - 1
            /\ -1 \in Int /\ len - 1 \in Int
        BY <1>2
      <3>3. f \in Int /\ x.start = IF f < -1 THEN -1 ELSE IF f > len - 1 THEN len - 1 ELSE f
        BY <1>2, <3>1, <3>2, BoundOf
      <3>4. g \in Int /\ x.stop = IF g < -1 THEN -1 ELSE IF g > len - 1 THEN len - 1 ELSE g
        BY <1>2, <3>1, <3>2, BoundOf
      <3> HIDE DEF f, g
      <3>5. first = IF len - 1 < f THEN len - 1 ELSE f
        BY <2>2, <3>2, <3>3, OfTwo DEF f
      <3> DEFINE h == first
      <3>6. p \in S <=> p \in 0 .. len - 1 /\ p <= h /\ p > g /\ (h - p) % (-step) = 0
        BY <2>2 DEF g
      <3> HIDE DEF h
      <3>7. h = IF len - 1 < f THEN len - 1 ELSE f
        BY <3>5 DEF h
      <3>8. Along(p, x.start, up) = x.start - p /\ Pace(x) = -step
        BY <2>2, <1>7 DEF Along
      <3>9. Reach(x) = IF x.stop < x.start THEN x.start - x.stop ELSE 0
        BY <2>2, <1>3 DEF Reach
      <3>10. CASE h >= -1
        <4>1. x.start = h
          BY ONLY <3>10, <3>7, <3>3, <1>2
        <4>2. p \in 0 .. len - 1 /\ p <= h /\ p > g <=> x.start - p >= 0 /\ x.start - p < Reach(x)
          <5>1. h <= len - 1 /\ h \in Int
            BY ONLY <3>7, <3>3, <1>2
          <5>2. x.start - p < Reach(x) /\ p <= h <=> p > x.stop /\ p <= h
            BY ONLY <4>1, <5>1, <3>9, <1>4, p \in Int
          <5>3. p \in 0 .. len - 1 /\ p > g <=> p \in 0 .. len - 1 /\ p > x.stop
            BY ONLY <3>4, <1>2, p \in Int
          <5>4. p <= h /\ p > x.stop => p \in 0 .. len - 1
            BY ONLY <5>1, <3>4, <1>2, p \in Int
          <5>5. p <= h <=> x.start - p >= 0
            BY ONLY <4>1, <5>1, p \in Int
          <5> QED BY ONLY <5>2, <5>3, <5>4, <5>5
        <4> QED BY <3>6, <3>8, <4>1, <4>2
      <3>11. CASE h < -1
        <4>1. x.start = -1
          BY ONLY <3>11, <3>7, <3>3, <1>2
        <4>2. ~(p \in 0 .. len - 1 /\ p <= h /\ p > g)
          BY ONLY <3>11, <3>7, <3>3, <1>2, p \in Int
        <4>3. ~(x.start - p >= 0 /\ x.start - p < Reach(x))
          BY ONLY <4>1, <3>4, <3>9, <1>2, p \in Int
        <4> QED BY <3>6, <3>8, <4>2, <4>3
      <3>12. h \in Int
        BY ONLY <3>7, <3>3, <1>2
      <3> QED BY ONLY <3>10, <3>11, <3>12, <1>2
    <2> QED BY <2>1, <2>2
  <1>10. S \subseteq Int /\ S \subseteq 0 .. len - 1
    BY <1>2
  <1>11. up \in BOOLEAN /\ (up <=> step > 0)
    BY <1>1
  <1>12. up => Pace(x) = step
    BY <1>7
  <1>13. ~up => Pace(x) = -step
    BY <1>7
  <1> HIDE DEF S, up
  <1>14. /\ Listed(S, up) = Stepwise(x.start, Pace(x), n, up)
         /\ \A k \in 1 .. n : Stepwise(x.start, Pace(x), n, up)[k] \in S
    <2>1. Progression(S, x.start, Reach(x), Pace(x), n, up)
      BY <1>4, <1>6, <1>9, <1>10, <1>11 DEF Progression
    <2> QED BY <2>1, ProgressionIs
  <1>15. n \in Nat
    BY <1>6 DEF Counts
  <1>16. ASSUME NEW k \in 1 .. n
         PROVE  src_index(x, k - 1) = Stepwise(x.start, Pace(x), n, up)[k]
    <2>1. Stepwise(x.start, Pace(x), n, up)[k]
            = IF up THEN x.start + (k - 1) * Pace(x) ELSE x.start - (k - 1) * Pace(x)
      BY DEF Stepwise
    <2>2. (k - 1) * (-step) = -((k - 1) * step) /\ (k - 1) * step \in Int
      BY <1>1, <1>15
    <2> QED BY ONLY <2>1, <2>2, <1>3, <1>4, <1>12, <1>13, <1>11 DEF src_index
  <1>17. Stepwise(x.start, Pace(x), n, up) = [k \in 1 .. n |-> src_index(x, k - 1)]
    BY <1>16 DEF Stepwise
  <1>18. \A k \in 1 .. n : src_index(x, k - 1) \in 0 .. len - 1
    BY <1>10, <1>14, <1>16
  <1> QED BY <1>5, <1>8, <1>14, <1>15, <1>17, <1>18 DEF Chooses, n

\* How far a range goes, its end included or not.
Span(r) ==
  LET D == IF r.step > 0 THEN r.stop - r.current ELSE r.current - r.stop
      L == IF r.inclusive THEN D + 1 ELSE D
  IN IF L < 0 THEN 0 ELSE L

\* r has ended after k of its numbers when k steps go as far as the range does.
LEMMA EndsWhen ==
  ASSUME NEW r, IsRange(r), NEW k \in Nat, \A i \in 0 .. k : r.current + i * r.step \in Int64
  PROVE  /\ Exhausted(After(r, k)) <=> k * Pace(r) >= Span(r)
         /\ After(r, k).current = r.current + k * r.step
  <1>1. /\ r \in RangeObjects /\ r.current \in Int /\ r.step \in Int /\ r.stop \in Int
        /\ r.step # 0 /\ r.inclusive \in BOOLEAN
    BY DEF IsRange, RangeObjects
  <1>2. /\ After(r, k).current = r.current + k * r.step
        /\ After(r, k).stop = r.stop /\ After(r, k).step = r.step
    BY AfterUpTo
  <1>3. After(r, k).inclusive = r.inclusive
    <2> DEFINE T == {i \in Nat : After(r, i).inclusive = r.inclusive}
    <2>1. 0 \in T
      BY <1>1, AfterIs
    <2>2. ASSUME NEW i \in Nat, i \in T PROVE i + 1 \in T
      <3>1. After(r, i) \in RangeObjects /\ After(r, i + 1) = Advanced(After(r, i))
        BY <1>1, AfterIs
      <3>2. After(r, i + 1).inclusive = After(r, i).inclusive
        BY <3>1 DEF Advanced, RangeObjects
      <3> QED BY <2>2, <3>2
    <2>3. \A i \in Nat : i \in T
      <3> HIDE DEF T
      <3> QED BY <2>1, <2>2, Induction
    <2> QED BY <2>3
  <1> DEFINE z == k * r.step
             q == k * Pace(r)
             c == After(r, k).current
  <1>4. z \in Int /\ q \in Int /\ q >= 0 /\ (r.step > 0 => q = z) /\ (r.step < 0 => q = -z)
    BY <1>1 DEF Pace
  <1>5. Exhausted(After(r, k)) <=> \/ r.step > 0 /\ c > r.stop
                                   \/ r.step < 0 /\ c < r.stop
                                   \/ ~r.inclusive /\ c = r.stop
    BY <1>2, <1>3 DEF Exhausted
  <1>6. c = r.current + z
    BY <1>2
  <1> HIDE DEF c, z, q
  <1>7. CASE r.step > 0
    BY ONLY <1>1, <1>4, <1>5, <1>6, <1>7, <1>2 DEF Span, q, c
  <1>8. CASE r.step < 0
    BY ONLY <1>1, <1>4, <1>5, <1>6, <1>8, <1>2 DEF Span, q, c
  <1> QED BY <1>1, <1>7, <1>8

\* A range in 64 bits yields the numbers it stands for, in their order.
LEMMA RangeNames ==
  ASSUME NEW r, IsRange(r), ~Far(r)
  PROVE  Everything(r) = RangeOf(r)
  <1> DEFINE n == Yielded(r)
             w == Pace(r)
             L == Span(r)
             up == r.step > 0
             ends == {k \in 0 .. INT64_MAX : Exhausted(After(r, k))}
  <1>1. /\ r \in RangeObjects /\ r.current \in Int /\ r.step \in Int /\ r.stop \in Int
        /\ r.step # 0 /\ r.inclusive \in BOOLEAN /\ r.current \in Int64 /\ up \in BOOLEAN
        /\ INT64_MAX \in Nat \ {0}
    BY Limits DEF IsRange, RangeObjects
  <1>2. /\ r.stop + r.step \in Int64
        /\ up => r.stop - r.current < INT64_MAX * r.step
        /\ ~up => r.stop - r.current > INT64_MAX * r.step
    <2>1. INT64_MAX * r.step \in Int
      BY <1>1
    <2> QED BY <2>1, <1>1 DEF Far
  <1>3. w \in Nat \ {0} /\ (up => w = r.step) /\ (~up => w = -r.step)
    BY <1>1 DEF Pace
  <1>4. L \in Nat
    BY <1>1 DEF Span
  <1>5. \E m \in 0 .. INT64_MAX :
          m * w >= L /\ \A k \in 0 .. m : k * w >= 0 /\ (k # 0 => k * w <= L + w)
                                          /\ r.current + k * r.step \in Int64
    <2> DEFINE D == IF up THEN r.stop - r.current ELSE r.current - r.stop
    <2>1. D \in Int /\ L = IF (IF r.inclusive THEN D + 1 ELSE D) < 0 THEN 0
                           ELSE IF r.inclusive THEN D + 1 ELSE D
      BY <1>1 DEF Span
    <2>2. CASE D < 0
      <3>1. L = 0
        BY ONLY <2>1, <2>2, <1>1
      <3>2. 0 * w = 0 /\ 0 * r.step = 0 /\ r.current + 0 = r.current
        BY <1>1, <1>3
      <3>3. \A k \in 0 .. 0 : k = 0
        OBVIOUS
      <3>4. 0 \in 0 .. INT64_MAX
        BY <1>1
      <3> HIDE DEF w, L, D, up
      <3> QED BY <3>1, <3>2, <3>3, <3>4, <1>1
    <2>3. CASE D >= 0
      <3>1. D < INT64_MAX * w
        <4>1. INT64_MAX * w = IF up THEN INT64_MAX * r.step ELSE -(INT64_MAX * r.step)
          BY <1>1, <1>3
        <4>2. INT64_MAX * r.step \in Int
          BY <1>1
        <4> QED BY ONLY <4>1, <4>2, <1>1, <1>2
      <3>2. D \in Nat /\ w \in Nat \ {0} /\ INT64_MAX \in Nat
        BY <2>1, <2>3, <1>1, <1>3
      <3>3. PICK m \in 1 .. INT64_MAX : m * w > D /\ \A k \in 0 .. m : k * w \in 0 .. D + w
        <4> HIDE DEF D, w
        <4> QED BY <3>1, <3>2, StepsPast
      <3>4. m \in 0 .. INT64_MAX /\ m \in Nat
        BY <3>3
      <3>5. m * w \in Int /\ m * w > D
        BY <3>3, <3>4, <1>3
      <3>6. m * w >= L
        BY ONLY <3>5, <2>1, <1>1, <2>3
      <3>7. ASSUME NEW k \in 0 .. m
            PROVE  k * w >= 0 /\ (k # 0 => k * w <= L + w) /\ r.current + k * r.step \in Int64
        <4>1. k * w \in 0 .. D + w /\ k \in Int
          BY <3>3
        <4>2. k * r.step = IF up THEN k * w ELSE -(k * w)
          BY <4>1, <1>1, <1>3
        <4>3. r.current \in Int64 /\ r.stop + r.step \in Int64 /\ D \in Nat
          BY <1>1, <1>2, <3>2
        <4>4. r.current + k * r.step \in Int64
          BY ONLY <4>1, <4>2, <4>3, <1>1, <1>3, Limits DEF Int64
        <4>5. D <= L
          BY ONLY <2>1, <2>3, <1>1
        <4>6. k * w >= 0 /\ k * w <= L + w
          BY ONLY <4>1, <4>5, <2>1, <1>3, <1>4
        <4> QED BY <4>4, <4>6
      <3> HIDE DEF w, L, D
      <3> QED BY <3>4, <3>6, <3>7
    <2> QED BY <2>1, <2>2, <2>3
  <1>6. PICK m \in 0 .. INT64_MAX : m * w >= L /\ \A k \in 0 .. m : r.current + k * r.step \in Int64
    <2> HIDE DEF w, L
    <2> QED BY <1>5
  <1>7. ASSUME NEW k \in 0 .. m
        PROVE  /\ Exhausted(After(r, k)) <=> k * w >= L
               /\ After(r, k).current = r.current + k * r.step
    <2>1. k \in Nat /\ \A i \in 0 .. k : i \in 0 .. m
      BY <1>6
    <2>2. \A i \in 0 .. k : r.current + i * r.step \in Int64
      BY <1>6, <2>1
    <2> QED BY <2>1, <2>2, EndsWhen
  <1>8. n \in 0 .. m /\ n * w >= L /\ \A k \in 0 .. n - 1 : ~(k * w >= L)
    <2>1. m \in ends /\ m \in Nat /\ m \in 0 .. m
      BY <1>6, <1>7
    <2>2. ends \in SUBSET Nat /\ ends # {}
      BY <2>1
    <2>3. n = Min(ends)
      BY <2>2 DEF Yielded
    <2>4. n \in ends /\ \A k \in ends : n <= k
      <3> HIDE DEF ends, n
      <3> QED BY <2>2, <2>3, MinIs
    <2>5. n \in 0 .. m /\ n \in Nat
      <3> HIDE DEF n
      <3> QED BY <2>1, <2>4
    <2>6. n * w >= L
      <3> HIDE DEF w, L
      <3> QED BY <1>7, <2>4, <2>5
    <2>7. ASSUME NEW k \in 0 .. n - 1 PROVE ~(k * w >= L)
      <3> HIDE DEF w, L, n
      <3>1. k \in 0 .. m /\ k \in 0 .. INT64_MAX /\ ~(n <= k)
        <4>1. k \in 0 .. n - 1 /\ m \in 0 .. INT64_MAX
          OBVIOUS
        <4> QED BY ONLY <4>1, <2>5, <1>1
      <3>2. k \notin ends
        BY <3>1, <2>4
      <3> QED BY <1>7, <3>1, <3>2
    <2> QED BY <2>5, <2>6, <2>7
  <1>9. Counts(L, w, n)
    <2> HIDE DEF n, w, L
    <2>1. n \in Nat
      BY <1>8
    <2>2. \A i \in 0 .. n - 1 : i * w \in 0 .. L - 1
      <3> SUFFICES ASSUME NEW i \in 0 .. n - 1 PROVE i * w \in 0 .. L - 1
        OBVIOUS
      <3>1. ~(i * w >= L)
        BY <1>8
      <3>2. i * w \in Int /\ i * w >= 0
        BY <2>1, <1>3
      <3> QED BY <3>1, <3>2, <1>4
    <2> QED BY <1>8, <2>1, <2>2 DEF Counts
  <1> DEFINE IsIn(y) ==
               /\ IF r.step > 0 THEN y >= r.current /\ y <= r.stop /\ (y - r.current) % r.step = 0
                  ELSE y <= r.current /\ y >= r.stop /\ (r.current - y) % (-r.step) = 0
               /\ r.inclusive \/ y # r.stop
             S == {y \in Int64 : IsIn(y)}
  <1>10. RangeOf(r) = Listed(S, up)
    BY Zenon DEF RangeOf
  <1>11. ASSUME NEW p \in Int
         PROVE  p \in S <=> /\ Along(p, r.current, up) >= 0 /\ Along(p, r.current, up) < L
                            /\ Along(p, r.current, up) % w = 0
    <2>1. r.stop \in Int64
      BY DEF IsRange
    <2>2. CASE up
      <3>1. Along(p, r.current, up) = p - r.current /\ w = r.step
        BY <2>2, <1>3 DEF Along
      <3>2. p \in S <=> /\ p \in Int64 /\ p >= r.current /\ p <= r.stop
                        /\ (r.inclusive \/ p # r.stop) /\ (p - r.current) % r.step = 0
        BY <2>2
      <3>3. L = LET D == r.stop - r.current
                    l == IF r.inclusive THEN D + 1 ELSE D
                IN IF l < 0 THEN 0 ELSE l
        BY <2>2 DEF Span
      <3> HIDE DEF L, S
      <3>4. /\ p \in Int64 /\ p >= r.current /\ p <= r.stop /\ (r.inclusive \/ p # r.stop)
            <=> p - r.current >= 0 /\ p - r.current < L
        BY ONLY <3>3, <2>1, <1>1, p \in Int, Limits DEF Int64
      <3> QED BY ONLY <3>1, <3>2, <3>4
    <2>3. CASE ~up
      <3>1. Along(p, r.current, up) = r.current - p /\ w = -r.step
        BY <2>3, <1>3 DEF Along
      <3>2. p \in S <=> /\ p \in Int64 /\ p <= r.current /\ p >= r.stop
                        /\ (r.inclusive \/ p # r.stop) /\ (r.current - p) % (-r.step) = 0
        BY <2>3
      <3>3. L = LET D == r.current - r.stop
                    l == IF r.inclusive THEN D + 1 ELSE D
                IN IF l < 0 THEN 0 ELSE l
        BY <2>3 DEF Span
      <3> HIDE DEF L, S
      <3>4. /\ p \in Int64 /\ p <= r.current /\ p >= r.stop /\ (r.inclusive \/ p # r.stop)
            <=> r.current - p >= 0 /\ r.current - p < L
        BY ONLY <3>3, <2>1, <1>1, p \in Int, Limits DEF Int64
      <3> QED BY ONLY <3>1, <3>2, <3>4
    <2> QED BY <2>2, <2>3
  <1>12. S \subseteq Int
    BY Limits DEF Int64
  <1>13. Listed(S, up) = Stepwise(r.current, w, n, up)
    <2> HIDE DEF S, w, n, L
    <2>1. Progression(S, r.current, L, w, n, up)
      BY <1>1, <1>3, <1>4, <1>9, <1>11, <1>12 DEF Progression
    <2> HIDE DEF up
    <2> QED BY <2>1, ProgressionIs
  <1>14. Everything(r) = Stepwise(r.current, w, n, up)
    <2> HIDE DEF w, n
    <2>1. n \in Nat /\ n <= m
      BY <1>8
    <2>2. ASSUME NEW i \in 1 .. n
          PROVE  After(r, i - 1).current
                   = IF up THEN r.current + (i - 1) * w ELSE r.current - (i - 1) * w
      <3>1. i - 1 \in 0 .. m /\ i - 1 \in Int
        BY <2>1
      <3>2. After(r, i - 1).current = r.current + (i - 1) * r.step
        BY <1>7, <3>1
      <3>3. up => (i - 1) * r.step = (i - 1) * w
        BY <1>3
      <3>4. ~up => (i - 1) * r.step = -((i - 1) * w) /\ (i - 1) * w \in Int
        BY <1>1, <1>3, <3>1
      <3> QED BY ONLY <3>2, <3>3, <3>4, <1>1
    <2>3. Everything(r) = [i \in 1 .. n |-> After(r, i - 1).current]
      BY DEF Everything, n
    <2> HIDE DEF up
    <2> QED BY <2>2, <2>3 DEF Stepwise
  <1> QED BY <1>10, <1>13, <1>14

\* Lists of one length that have the same items are one list.
LEMMA SameList ==
  ASSUME NEW S, NEW s \in Seq(S), NEW t \in Seq(S), Len(s) = Len(t),
         \A i \in 1 .. Len(s) : s[i] = t[i]
  PROVE  s = t
  <1> DEFINE n == Len(s)
  <1>1. n \in Nat /\ s \in [1 .. n -> S] /\ t \in [1 .. n -> S]
    OBVIOUS
  <1> HIDE DEF n
  <1>2. \A i \in 1 .. n : s[i] = t[i]
    BY DEF n
  <1> QED BY <1>1, <1>2

\* The items of an array as a function of the position.
LEMMA ItemsAs ==
  ASSUME NEW d, Buffer(d)
  PROVE  Items(d) = [i \in 1 .. d.size |-> d.data[i]]
  <1> DEFINE n == d.size
             s == Items(d)
  <1>1. s \in Seq(Stored) /\ Len(s) = n /\ \A i \in 1 .. n : s[i] = d.data[i]
    BY ItemsAre
  <1> HIDE DEF s, n
  <1>2. DOMAIN s = 1 .. n /\ s = [i \in DOMAIN s |-> s[i]]
    <2> HIDE DEF Stored
    <2> QED BY <1>1
  <1> QED BY <1>1, <1>2 DEF s, n

\* An array whose items are s, one by one.
LEMMA ItemsBe ==
  ASSUME NEW e, Buffer(e), NEW s \in Seq(Stored), Len(s) = e.size,
         \A i \in 1 .. e.size : e.data[i] = s[i]
  PROVE  Items(e) = s
  <1>1. /\ Items(e) \in Seq(Stored) /\ Len(Items(e)) = e.size
        /\ \A i \in 1 .. e.size : Items(e)[i] = e.data[i]
    BY ItemsAre
  <1> HIDE DEF Stored, Items, Buffer
  <1> QED BY <1>1, SameList

\* Two lists, one after the other.
LEMMA JoinIs ==
  ASSUME NEW S, NEW s \in Seq(S), NEW t \in Seq(S)
  PROVE  /\ s \o t \in Seq(S) /\ Len(s \o t) = Len(s) + Len(t)
         /\ \A i \in 1 .. Len(s) + Len(t) :
              (s \o t)[i] = IF i <= Len(s) THEN s[i] ELSE t[i - Len(s)]
  OBVIOUS

\* A list with n items after the first at replaced by others.
Spliced(c, b, at, n, items) ==
  /\ c \in Seq(Stored) /\ Len(c) = Len(b) - n + Len(items)
  /\ \A i \in 1 .. Len(c) : c[i] = IF i <= at THEN b[i]
                                   ELSE IF i <= at + Len(items) THEN items[i - at]
                                   ELSE b[i - Len(items) + n]

\* Joining what is in front, the new items and what is behind splices them in.
LEMMA SplicedIs ==
  ASSUME NEW b \in Seq(Stored), NEW items \in Seq(Stored), NEW at \in Nat, NEW n \in Nat,
         at + n <= Len(b), NEW m, m = at + n + 1
  PROVE  Spliced(SubSeq(b, 1, at) \o items \o SubSeq(b, m, Len(b)), b, at, n, items)
  <1> DEFINE x == SubSeq(b, 1, at)
             y == SubSeq(b, m, Len(b))
             z == x \o items
             c == z \o y
             k == Len(items)
             l == Len(b)
  <1> HIDE DEF Stored
  <1>1. l \in Nat /\ k \in Nat /\ at + n <= l /\ m = at + n + 1 /\ m \in Nat
    OBVIOUS
  <1>2. x \in Seq(Stored) /\ Len(x) = at /\ \A i \in 1 .. at : x[i] = b[i]
    OBVIOUS
  <1>3. y \in Seq(Stored) /\ Len(y) = l - at - n
        /\ \A i \in 1 .. l - at - n : y[i] = b[i + at + n]
    OBVIOUS
  <1> HIDE DEF x, y
  <1>4. z \in Seq(Stored) /\ Len(z) = at + k
        /\ \A i \in 1 .. at + k : z[i] = IF i <= at THEN x[i] ELSE items[i - at]
    BY <1>1, <1>2
  <1> HIDE DEF z
  <1>5. c \in Seq(Stored) /\ Len(c) = at + k + (l - at - n)
        /\ \A i \in 1 .. at + k + (l - at - n) :
             c[i] = IF i <= at + k THEN z[i] ELSE y[i - (at + k)]
    <2> HIDE DEF k, l
    <2>1. z \in Seq(Stored) /\ y \in Seq(Stored)
      BY <1>3, <1>4
    <2>2. /\ c \in Seq(Stored) /\ Len(c) = Len(z) + Len(y)
          /\ \A i \in 1 .. Len(z) + Len(y) : c[i] = IF i <= Len(z) THEN z[i] ELSE y[i - Len(z)]
      BY <2>1, JoinIs
    <2>3. Len(z) = at + k /\ Len(y) = l - at - n
      BY <1>3, <1>4
    <2> HIDE DEF c
    <2> QED BY <2>2, <2>3
  <1> HIDE DEF c, k, l
  <1>6. Len(c) = l - n + k
    BY ONLY <1>1, <1>5
  <1>7. ASSUME NEW i \in 1 .. l - n + k
        PROVE  c[i] = IF i <= at THEN b[i] ELSE IF i <= at + k THEN items[i - at]
                      ELSE b[i - k + n]
    <2>1. i \in Nat /\ i >= 1 /\ i <= l - n + k
      BY <1>1
    <2>2. i \in 1 .. at + k + (l - at - n)
      BY ONLY <2>1, <1>1
    <2>3. CASE i <= at
      <3>1. i \in 1 .. at /\ i \in 1 .. at + k /\ i <= at + k
        BY ONLY <2>1, <2>3, <1>1
      <3> QED BY <3>1, <2>2, <2>3, <1>2, <1>4, <1>5
    <2>4. CASE ~(i <= at) /\ i <= at + k
      <3>1. i \in 1 .. at + k
        BY ONLY <2>1, <2>4, <1>1
      <3> QED BY <3>1, <2>2, <2>4, <1>4, <1>5
    <2>5. CASE ~(i <= at) /\ ~(i <= at + k)
      <3>1. i - (at + k) \in 1 .. l - at - n /\ i - (at + k) + at + n = i - k + n
        BY ONLY <2>1, <2>5, <1>1
      <3>2. c[i] = y[i - (at + k)]
        BY <2>2, <2>5, <1>5
      <3>3. y[i - (at + k)] = b[i - k + n]
        BY <3>1, <1>3
      <3> QED BY <3>2, <3>3, <2>5
    <2> QED BY <2>3, <2>4, <2>5
  <1> QED BY <1>5, <1>6, <1>7 DEF Spliced, c, z, x, y, k, l

\* S has the other positions of b, where s is the same.
Rest(S, b, at, s) ==
  (\E n \in Nat : DOMAIN b = 1 .. n) /\ S = DOMAIN b \ at /\ \A p \in S : b[p] = s[p]

\* A list without the positions that are not picked.
LEMMA PickedIs ==
  ASSUME NEW b, NEW at, NEW s, NEW S, Rest(S, b, at, s), NEW out, Picked(s, S, out)
  PROVE  out = Without(b, at)
  <1> USE DEF Rest
  <1>1. Picked(b, S, out)
    BY PickedAlike
  <1>2. PICK k \in Nat : \E t \in [1 .. k -> S] :
                            Rising(t, k, S) /\ out = [i \in 1 .. k |-> b[t[i]]]
    BY <1>1 DEF Picked
  <1>3. PICK t \in [1 .. k -> S] : Rising(t, k, S) /\ out = [i \in 1 .. k |-> b[t[i]]]
    BY <1>2
  <1>4. Lists(t, k, S, TRUE)
    BY <1>3 DEF Rising, Lists
  <1>5. Listed(S, TRUE) = t
    BY <1>4, ListedIs
  <1>6. DOMAIN t = 1 .. k
    OBVIOUS
  <1>7. Without(b, at) = [i \in DOMAIN t |-> b[t[i]]]
    BY <1>5 DEF Without
  <1> QED BY <1>3, <1>6, <1>7

\* gap has n of the positions of a list of len, after the first at.
Gap(gap, at, n, len) ==
  len \in Nat /\ at \in Nat /\ n \in Nat /\ at + n <= len /\ gap = at + 1 .. at + n

\* b with n items after at left out, item by item.
Over(b, at, n, len) == [i \in 1 .. len - n |-> IF i <= at THEN b[i] ELSE b[i + n]]

\* A list without them.
LEMMA WithoutIs ==
  ASSUME NEW b, NEW len, DOMAIN b = 1 .. len, NEW at, NEW n, NEW gap, Gap(gap, at, n, len)
  PROVE  Without(b, gap) = Over(b, at, n, len)
  <1> DEFINE S == (1 .. len) \ gap
             t == [i \in 1 .. len - n |-> IF i <= at THEN i ELSE i + n]
  <1> USE DEF Gap
  <1>1. Lists(t, len - n, S, TRUE)
    <2>1. len - n \in Nat /\ S \subseteq Int
      OBVIOUS
    <2>2. t \in [1 .. len - n -> S]
      OBVIOUS
    <2>3. ASSUME NEW x \in S PROVE \E i \in 1 .. len - n : t[i] = x
      <3>1. CASE x <= at
        <4>1. x \in 1 .. len - n
          BY <3>1
        <4> QED BY <4>1, <3>1
      <3>2. CASE ~(x <= at)
        <4>1. x - n \in 1 .. len - n /\ ~(x - n <= at) /\ (x - n) + n = x
          BY <3>2
        <4> QED BY <4>1
      <3> QED BY <3>1, <3>2
    <2>4. \A i, j \in 1 .. len - n : i < j => t[i] < t[j]
      OBVIOUS
    <2> HIDE DEF t, S
    <2> QED BY <2>1, <2>2, <2>3, <2>4 DEF Lists
  <1>2. Listed(S, TRUE) = t
    <2> HIDE DEF t, S
    <2> QED BY <1>1, ListedIs
  <1>3. DOMAIN t = 1 .. len - n
    OBVIOUS
  <1>4. Without(b, gap) = [i \in DOMAIN t |-> b[t[i]]]
    BY <1>2 DEF Without
  <1> QED BY <1>3, <1>4 DEF Over

\* An array that has been closed up has the list without what was in the gap.
LEMMA ClosedIs ==
  ASSUME NEW d, Buffer(d), NEW e, Buffer(e), NEW at, NEW n, Closed(d, at, n, e),
         NEW gap, Gap(gap, at, n, d.size)
  PROVE  Items(e) = Without(Items(d), gap)
  <1> DEFINE z == d.size
             b == Items(d)
  <1>1. z \in Nat /\ at \in Nat /\ n \in Nat /\ at + n <= z /\ gap = at + 1 .. at + n
    BY DEF Gap
  <1>2. b = [i \in 1 .. z |-> d.data[i]]
    BY ItemsAs
  <1>3. e.size = z - n
        /\ \A i \in 1 .. z - n : e.data[i] = IF i <= at THEN d.data[i] ELSE d.data[i + n]
    BY DEF Closed
  <1>4. Items(e) = [i \in 1 .. z - n |-> e.data[i]]
    BY <1>3, ItemsAs
  <1> HIDE DEF z, b
  <1>5. Without(b, gap) = Over(b, at, n, z)
    <2>1. DOMAIN b = 1 .. z
      BY <1>2
    <2>2. Gap(gap, at, n, z)
      BY <1>1 DEF Gap
    <2> QED BY <2>1, <2>2, WithoutIs
  <1>6. ASSUME NEW i \in 1 .. z - n
        PROVE  e.data[i] = IF i <= at THEN b[i] ELSE b[i + n]
    <2>1. i <= at => i \in 1 .. z
      BY <1>1
    <2>2. ~(i <= at) => i + n \in 1 .. z
      BY <1>1
    <2> QED BY <1>2, <1>3, <2>1, <2>2
  <1> QED BY <1>4, <1>5, <1>6 DEF b, Over

\* A method that has gone on as o did to the list b what the same method does to a list.
Exact(op, b, o) ==
  ~HugeStep(op, b) /\ ~OverTheEdge(op) =>
    /\ o.end = "thrown" =>
         Items(o.arr) = b /\ (CallsBack(op) \/ Refused(op, b, Result(op, b, <<>>)))
    /\ o.end = "returned" =>
         /\ ~Refused(op, b, o.out)
         /\ o.out = Result(op, b, o.out)
         /\ Becomes(op, b, Items(o.arr), o.out)

\* The list of an array.
ListOf(b, d) ==
  /\ Buffer(d) /\ b = Items(d) /\ d.size \in Nat
  /\ b \in Seq(Stored) /\ Len(b) = d.size /\ DOMAIN b = 1 .. d.size
  /\ \A i \in 1 .. d.size : b[i] = d.data[i]

\* The items of an array are such a list.
LEMMA ListIs ==
  ASSUME NEW d, Buffer(d) PROVE ListOf(Items(d), d)
  <1> DEFINE b == Items(d)
  <1>1. b \in Seq(Stored) /\ Len(b) = d.size /\ \A i \in 1 .. d.size : b[i] = d.data[i]
    BY ItemsAre
  <1>2. d.size \in Nat
    BY BufferHas
  <1>3. DOMAIN b = 1 .. d.size
    BY <1>1
  <1> HIDE DEF b
  <1> QED BY <1>1, <1>2, <1>3 DEF ListOf, b

\* append joins the items to the list: the new block holds both, whatever its capacity.
LEMMA AppendIs ==
  ASSUME NEW d, Buffer(d), NEW op, op.m = "append", op.items \in Seq(Stored),
         NEW o, o = append(d, op.items)
  PROVE  Exact(op, Items(d), o)
  <1> DEFINE b == Items(d)
             items == op.items
             c == b \o items
  <1>1. ListOf(b, d)
    BY ListIs
  <1>2. /\ o.end = "returned" /\ Buffer(o.arr) /\ o.out = <<>>
        /\ o.arr.size = d.size + Len(items)
        /\ \A i \in 1 .. d.size : o.arr.data[i] = d.data[i]
        /\ \A i \in 1 .. Len(items) : o.arr.data[d.size + i] = items[i]
    BY AppendKeeps DEF Kept
  <1> HIDE DEF b
  <1>3. /\ b \in Seq(Stored) /\ Len(b) = d.size /\ d.size \in Nat
        /\ \A i \in 1 .. d.size : b[i] = d.data[i]
    BY <1>1 DEF ListOf
  <1> HIDE DEF items, Stored
  <1>4. items \in Seq(Stored) /\ Len(items) \in Nat
    BY DEF items
  <1>5. /\ c \in Seq(Stored) /\ Len(c) = d.size + Len(items)
        /\ \A i \in 1 .. d.size + Len(items) :
             c[i] = IF i <= d.size THEN b[i] ELSE items[i - d.size]
    <2>1. b \in Seq(Stored) /\ items \in Seq(Stored)
      BY <1>3, <1>4
    <2>2. /\ c \in Seq(Stored) /\ Len(c) = Len(b) + Len(items)
          /\ \A i \in 1 .. Len(b) + Len(items) :
               c[i] = IF i <= Len(b) THEN b[i] ELSE items[i - Len(b)]
      BY <2>1, JoinIs
    <2> HIDE DEF c
    <2> QED BY <2>2, <1>3
  <1> HIDE DEF c
  <1>6. ASSUME NEW i \in 1 .. o.arr.size PROVE o.arr.data[i] = c[i]
    <2>1. i \in 1 .. d.size + Len(items)
      BY <1>2
    <2>2. CASE i <= d.size
      <3>1. i \in 1 .. d.size
        BY <2>1, <2>2, <1>3
      <3> QED BY <3>1, <2>1, <2>2, <1>2, <1>3, <1>5
    <2>3. CASE ~(i <= d.size)
      <3>1. i - d.size \in 1 .. Len(items) /\ d.size + (i - d.size) = i
        BY <2>1, <2>3, <1>3, <1>4
      <3>2. o.arr.data[d.size + (i - d.size)] = items[i - d.size]
        BY <3>1, <1>2
      <3> QED BY <3>1, <3>2, <2>1, <2>3, <1>5
    <2> QED BY <2>2, <2>3
  <1>7. Items(o.arr) = c
    BY <1>2, <1>5, <1>6, ItemsBe
  <1> QED BY <1>2, <1>7 DEF Exact, Refused, Result, Becomes, b, c, items

\* insert splices the items in at its position, behind which the tail has been moved.
LEMMA InsertIs ==
  ASSUME NEW d, Buffer(d), NEW op, op.m = "insert", op.items \in Seq(Stored), op.pos \in Int,
         NEW o, o = insert(d, op.pos, op.items)
  PROVE  Exact(op, Items(d), o)
  <1> DEFINE b == Items(d)
             items == op.items
             pos == op.pos
             c == SubSeq(b, 1, pos) \o items \o SubSeq(b, pos + 1, Len(b))
  <1>1. ListOf(b, d)
    BY ListIs
  <1>2. \/ o.end = "returned" /\ Buffer(o.arr) /\ PutIn(d, pos, items, o)
        \/ o.end = "wild"
    BY InsertKeeps DEF Kept
  <1> HIDE DEF b
  <1>3. /\ b \in Seq(Stored) /\ Len(b) = d.size /\ d.size \in Nat
        /\ \A i \in 1 .. d.size : b[i] = d.data[i]
    BY <1>1 DEF ListOf
  <1>4. CASE o.end = "returned"
    <2>1. Buffer(o.arr) /\ PutIn(d, pos, items, o)
      BY <1>2, <1>4
    <2>2. Items(o.arr) = IF pos > Len(b) \/ items = <<>> THEN b ELSE c
      <3>1. CASE pos > d.size \/ items = <<>>
        <4>1. o.arr = d
          BY <2>1, <3>1 DEF PutIn
        <4> QED BY <4>1, <3>1, <1>3 DEF b
      <3>2. CASE ~(pos > d.size \/ items = <<>>)
        <4>1. /\ pos \in 0 .. d.size
              /\ o.arr.size = d.size + Len(items)
              /\ \A i \in 1 .. o.arr.size :
                   o.arr.data[i] = IF i <= pos THEN d.data[i]
                                   ELSE IF i <= pos + Len(items) THEN items[i - pos]
                                   ELSE d.data[i - Len(items)]
          BY <2>1, <3>2 DEF PutIn
        <4> HIDE DEF Stored, c, items, pos
        <4>2. pos \in Nat /\ pos <= d.size /\ items \in Seq(Stored) /\ Len(items) \in Nat
          BY <4>1, <1>3 DEF items
        <4>3. Spliced(c, b, pos, 0, items)
          <5>1. pos + 0 <= Len(b) /\ pos + 1 = pos + 0 + 1
            BY <4>2, <1>3
          <5> QED BY <5>1, <4>2, <1>3, SplicedIs DEF c
        <4>4. /\ c \in Seq(Stored) /\ Len(c) = d.size - 0 + Len(items)
              /\ \A i \in 1 .. Len(c) : c[i] = IF i <= pos THEN b[i]
                                               ELSE IF i <= pos + Len(items) THEN items[i - pos]
                                               ELSE b[i - Len(items) + 0]
          BY <4>3, <1>3 DEF Spliced
        <4>5. Len(c) = o.arr.size
          BY ONLY <4>1, <4>2, <4>4, <1>3
        <4>6. ASSUME NEW i \in 1 .. o.arr.size PROVE o.arr.data[i] = c[i]
          <5>1. i \in 1 .. d.size + Len(items) /\ i \in Nat /\ i \in 1 .. Len(c)
            BY <4>1, <4>5, <4>2, <1>3
          <5>2. i <= pos => i \in 1 .. d.size
            BY ONLY <5>1, <4>2, <1>3
          <5>3. ~(i <= pos + Len(items)) =>
                  i - Len(items) \in 1 .. d.size /\ i - Len(items) + 0 = i - Len(items)
            BY ONLY <5>1, <4>2, <1>3
          <5> QED BY <5>1, <5>2, <5>3, <4>1, <4>4, <1>3
        <4>7. Items(o.arr) = c
          BY <2>1, <4>4, <4>5, <4>6, ItemsBe
        <4> QED BY <4>7, <3>2, <1>3
      <3> QED BY <3>1, <3>2
    <2>3. o.out = <<>>
      BY <2>1 DEF PutIn
    <2> QED BY <2>2, <2>3, <1>4 DEF Exact, Refused, Result, Becomes, b, c, items, pos
  <1>5. CASE o.end = "wild"
    BY <1>5 DEF Exact
  <1> QED BY <1>2, <1>4, <1>5

\* pop takes the item at its position, or the last one, out of the list and returns it.
LEMMA PopIs ==
  ASSUME NEW d, Buffer(d), NEW op, op.m = "pop", op.pos \in Int, NEW o, o = pop(d, op.pos)
  PROVE  Exact(op, Items(d), o)
  <1> DEFINE b == Items(d)
             at == Popped(op.pos, d.size)
             p == IF op.pos \in 0 .. Len(b) - 1 THEN op.pos + 1 ELSE Len(b)
  <1>1. ListOf(b, d)
    BY ListIs
  <1>2. /\ o.end \in {"returned", "thrown"} /\ Buffer(o.arr)
        /\ o.end = "thrown" => d.size = 0 /\ o.arr = d
        /\ o.end = "returned" => /\ d.size # 0 /\ o.out = <<d.data[at + 1]>>
                                 /\ Closed(d, at, 1, o.arr)
    BY PopKeeps DEF Kept
  <1>3. /\ b \in Seq(Stored) /\ Len(b) = d.size /\ d.size \in Nat /\ DOMAIN b = 1 .. d.size
        /\ \A i \in 1 .. d.size : b[i] = d.data[i]
    BY <1>1 DEF ListOf
  <1>4. CASE o.end = "thrown"
    <2>1. d.size = 0 /\ Items(o.arr) = b
      BY <1>2, <1>4
    <2>2. b = <<>>
      <3> HIDE DEF b, Stored
      <3> QED BY <2>1, <1>3
    <2> QED BY <2>1, <2>2, <1>4 DEF Exact, Refused
  <1>5. CASE o.end = "returned"
    <2> HIDE DEF b
    <2>1. p = at + 1 /\ at \in Nat /\ at + 1 <= d.size /\ p \in 1 .. d.size
      BY <1>2, <1>3, <1>5 DEF Popped
    <2>2. {p} = at + 1 .. at + 1
      BY <2>1
    <2> HIDE DEF p, at
    <2>3. Gap({p}, at, 1, d.size)
      BY <2>1, <2>2, <1>3 DEF Gap
    <2>4. Items(o.arr) = Without(b, {p})
      BY <1>2, <1>5, <2>3, ClosedIs DEF b
    <2>5. o.out = <<b[p]>>
      BY <1>2, <1>3, <1>5, <2>1
    <2>6. b # <<>>
      <3> HIDE DEF Stored
      <3> QED BY <1>2, <1>3, <1>5
    <2>7. ~Refused(op, b, o.out)
      BY <2>6 DEF Refused
    <2>8. o.out = Result(op, b, o.out)
      BY <2>5 DEF Result, p
    <2>9. Becomes(op, b, Items(o.arr), o.out)
      BY <2>4 DEF Becomes, p
    <2> QED BY <1>5, <2>7, <2>8, <2>9 DEF Exact, b
  <1> QED BY <1>2, <1>4, <1>5

\* An index is in range of an array when its list has it, and it names the same place.
LEMMA PlaceIs ==
  ASSUME NEW d, NEW b, ListOf(b, d), NEW index \in Int
  PROVE  /\ InRange(d, index) <=> Has(b, index)
         /\ InRange(d, index) => /\ Place(b, index) = At(d, index) + 1
                                 /\ At(d, index) \in Nat /\ At(d, index) + 1 <= d.size
  <1>1. Len(b) = d.size /\ d.size \in Nat
    BY DEF ListOf
  <1>2. InRange(d, index) <=> Has(b, index)
    BY <1>1 DEF InRange, Has, At
  <1>3. InRange(d, index) => /\ Place(b, index) = At(d, index) + 1
                             /\ At(d, index) \in Nat /\ At(d, index) + 1 <= d.size
    BY <1>1 DEF InRange, Place, At
  <1> QED BY <1>2, <1>3

\* getitem returns the item that the index names, counted from either end.
LEMMA GetitemIs ==
  ASSUME NEW d, Buffer(d), NEW op, op.m = "getitem", op.index \in Int,
         NEW o, o = getitem(d, op.index)
  PROVE  Exact(op, Items(d), o)
  <1> DEFINE b == Items(d)
  <1>1. ListOf(b, d)
    BY ListIs
  <1>2. /\ o.end \in {"returned", "thrown"} /\ o.arr = d
        /\ o.end = "returned" <=> InRange(d, op.index)
        /\ o.end = "returned" => o.out = <<d.data[At(d, op.index) + 1]>>
    BY GetitemKeeps
  <1>3. Items(o.arr) = b
    BY <1>2
  <1> HIDE DEF b
  <1>4. /\ o.end = "returned" <=> Has(b, op.index)
        /\ o.end = "returned" => o.out = <<b[Place(b, op.index)]>>
    <2>1. \A i \in 1 .. d.size : b[i] = d.data[i]
      BY <1>1 DEF ListOf
    <2>2. At(d, op.index) \in Nat /\ At(d, op.index) + 1 <= d.size /\ d.size \in Nat
          => At(d, op.index) + 1 \in 1 .. d.size
      OBVIOUS
    <2>3. d.size \in Nat
      BY <1>1 DEF ListOf
    <2> QED BY <1>1, <1>2, <2>1, <2>2, <2>3, PlaceIs
  <1> QED BY <1>2, <1>3, <1>4 DEF Exact, Refused, Result, Becomes, b

\* setitem replaces that item only.
LEMMA SetitemIs ==
  ASSUME NEW d, Buffer(d), NEW op, op.m = "setitem", op.index \in Int, op.value \in Stored,
         NEW o, o = setitem(d, op.index, op.value)
  PROVE  Exact(op, Items(d), o)
  <1> DEFINE b == Items(d)
             p == Place(b, op.index)
             c == ReplaceAt(b, p, op.value)
  <1>1. ListOf(b, d)
    BY ListIs
  <1>2. /\ o.end \in {"returned", "thrown"} /\ Buffer(o.arr)
        /\ o.end = "returned" <=> InRange(d, op.index)
        /\ o.end = "thrown" => o.arr = d
        /\ o.end = "returned" =>
             /\ o.out = <<op.value>> /\ o.arr.size = d.size
             /\ \A i \in 1 .. d.size :
                  o.arr.data[i] = IF i = At(d, op.index) + 1 THEN op.value ELSE d.data[i]
    BY SetitemKeeps DEF Kept
  <1>3. o.end = "thrown" => Items(o.arr) = b
    BY <1>2
  <1> HIDE DEF b
  <1>4. o.end = "returned" <=> Has(b, op.index)
    BY <1>1, <1>2, PlaceIs
  <1>5. ASSUME o.end = "returned" PROVE Items(o.arr) = c
    <2>1. /\ p = At(d, op.index) + 1
      BY <1>1, <1>2, <1>5, PlaceIs
    <2> HIDE DEF p
    <2>2. /\ b \in Seq(Stored) /\ Len(b) = d.size /\ d.size \in Nat /\ DOMAIN b = 1 .. d.size
          /\ \A i \in 1 .. d.size : b[i] = d.data[i]
      BY <1>1 DEF ListOf
    <2>3. c = [i \in 1 .. d.size |-> IF i = p THEN op.value ELSE b[i]]
      BY <2>2 DEF ReplaceAt
    <2>4. Items(o.arr) = [i \in 1 .. d.size |-> o.arr.data[i]]
      BY <1>2, <1>5, ItemsAs
    <2>5. \A i \in 1 .. d.size : o.arr.data[i] = IF i = p THEN op.value ELSE b[i]
      BY <1>2, <1>5, <2>1, <2>2
    <2> HIDE DEF c
    <2> QED BY <2>3, <2>4, <2>5
  <1> QED BY <1>2, <1>3, <1>4, <1>5 DEF Exact, Refused, Result, Becomes, b, c, p

\* delitem takes that item out of the list.
LEMMA DelitemIs ==
  ASSUME NEW d, Buffer(d), NEW op, op.m = "delitem", op.index \in Int,
         NEW o, o = delitem(d, op.index)
  PROVE  Exact(op, Items(d), o)
  <1> DEFINE b == Items(d)
             p == Place(b, op.index)
             at == At(d, op.index)
  <1>1. ListOf(b, d)
    BY ListIs
  <1>2. /\ o.end \in {"returned", "thrown"} /\ Buffer(o.arr)
        /\ o.end = "returned" <=> InRange(d, op.index)
        /\ o.end = "thrown" => o.arr = d
        /\ o.end = "returned" => o.out = <<>> /\ Closed(d, at, 1, o.arr)
    BY DelitemKeeps DEF Kept
  <1>3. o.end = "thrown" => Items(o.arr) = b
    BY <1>2
  <1> HIDE DEF b
  <1>4. o.end = "returned" <=> Has(b, op.index)
    BY <1>1, <1>2, PlaceIs
  <1>5. ASSUME o.end = "returned" PROVE Items(o.arr) = Without(b, {p})
    <2>1. p = at + 1 /\ at \in Nat /\ at + 1 <= d.size /\ d.size \in Nat
      BY <1>1, <1>2, <1>5, PlaceIs DEF ListOf
    <2>2. {p} = at + 1 .. at + 1
      BY <2>1
    <2> HIDE DEF p, at
    <2>3. Gap({p}, at, 1, d.size)
      BY <2>1, <2>2 DEF Gap
    <2> QED BY <1>2, <1>5, <2>3, ClosedIs DEF b
  <1> QED BY <1>2, <1>3, <1>4, <1>5 DEF Exact, Refused, Result, Becomes, b, p

\* of_size makes a list of nulls, of the length it is given.
LEMMA OfSizeIs ==
  ASSUME NEW op, op.m = "of_size", op.n \in Int, NEW d, NEW o, o = of_size(op.n)
  PROVE  Exact(op, Items(d), o)
  <1>1. \/ /\ o.end = "returned" /\ Buffer(o.arr) /\ o.out = <<>> /\ op.n \in Nat
           /\ o.arr.size = op.n /\ \A i \in 1 .. op.n : o.arr.data[i] = ARGON_NULL
        \/ o.end = "huge"
    BY OfSizeKeeps DEF Kept
  <1>2. CASE o.end = "returned"
    <2>1. /\ Buffer(o.arr) /\ o.out = <<>> /\ op.n \in Nat
          /\ o.arr.size = op.n /\ \A i \in 1 .. op.n : o.arr.data[i] = ARGON_NULL
      BY <1>1, <1>2
    <2>2. Items(o.arr) = [i \in 1 .. op.n |-> o.arr.data[i]]
      BY <2>1, ItemsAs
    <2>3. Items(o.arr) = [i \in 1 .. op.n |-> ARGON_NULL]
      BY <2>1, <2>2
    <2> QED BY <1>2, <2>1, <2>3 DEF Exact, Refused, Result, Becomes
  <1>3. CASE o.end = "huge"
    BY <1>3 DEF Exact
  <1> QED BY <1>1, <1>2, <1>3

\* The positions that a slice names are the n that the indices x go over.
Naming(s, len, x, n) ==
  /\ n \in Nat /\ DOMAIN Named(s, len) = 1 .. n /\ Len(Named(s, len)) = n
  /\ \A k \in 1 .. n : Named(s, len)[k] = src_index(x, k - 1)
  /\ \A k \in 1 .. n : src_index(x, k - 1) \in 0 .. len - 1
  /\ \A i \in 0 .. n - 1 : src_index(x, i) \in 0 .. len - 1
  /\ Range(Named(s, len)) = Chosen(x)
  /\ x.step = IF s.step = ARGON_NULL THEN 1 ELSE s.step

\* They are when the step is not so large that the arithmetic leaves 64 bits.
LEMMA NamedIs ==
  ASSUME NEW s, IsSlice(s), NEW len \in 0 .. INT64_MAX, ~Steep(s, len),
         NEW x, x = slice_indices(s, len), NEW n, n = slice_len(x)
  PROVE  Naming(s, len, x, n)
  <1>1. /\ n \in Nat /\ Named(s, len) = [k \in 1 .. n |-> src_index(x, k - 1)]
        /\ \A k \in 1 .. n : src_index(x, k - 1) \in 0 .. len - 1
    BY SliceNames DEF Chooses
  <1>2. x.step = IF s.step = ARGON_NULL THEN 1 ELSE s.step
    BY IndicesAre
  <1>3. DOMAIN Named(s, len) = 1 .. n
    BY <1>1
  <1>4. Len(Named(s, len)) = n
    <2> DEFINE t == [k \in 1 .. n |-> src_index(x, k - 1)]
    <2>1. t \in Seq(0 .. len - 1)
      BY <1>1
    <2>2. DOMAIN t = 1 .. n
      OBVIOUS
    <2> HIDE DEF t
    <2>3. Len(t) = n
      BY <2>1, <2>2, <1>1
    <2> QED BY <2>3, <1>1 DEF t
  <1>5. Range(Named(s, len)) = Chosen(x)
    <2>1. Range(Named(s, len)) = {src_index(x, k - 1) : k \in 1 .. n}
      BY <1>1 DEF Range
    <2>2. ASSUME NEW k \in 1 .. n PROVE src_index(x, k - 1) \in Chosen(x)
      <3>1. k - 1 \in 0 .. n - 1
        BY <1>1
      <3> QED BY <3>1 DEF Chosen
    <2>3. ASSUME NEW i \in 0 .. n - 1
          PROVE  \E k \in 1 .. n : src_index(x, i) = src_index(x, k - 1)
      <3>1. i + 1 \in 1 .. n /\ (i + 1) - 1 = i
        BY <1>1
      <3> QED BY <3>1
    <2> QED BY <2>1, <2>2, <2>3 DEF Chosen
  <1>6. ASSUME NEW i \in 0 .. n - 1 PROVE src_index(x, i) \in 0 .. len - 1
    <2>1. i + 1 \in 1 .. n /\ (i + 1) - 1 = i
      BY <1>1
    <2> QED BY <2>1, <1>1
  <1>7. \A k \in 1 .. n : Named(s, len)[k] = src_index(x, k - 1)
    BY <1>1
  <1> QED BY <1>1, <1>2, <1>3, <1>4, <1>5, <1>6, <1>7 DEF Naming

\* The items that a slice names are those that its indices go over.
LEMMA NamedItemsAre ==
  ASSUME NEW s, IsSlice(s), NEW b, Len(b) \in 0 .. INT64_MAX, ~Steep(s, Len(b)),
         NEW x, x = slice_indices(s, Len(b))
  PROVE  NamedItems(s, b) = SlicedBy(b, x)
  <1> DEFINE n == slice_len(x)
             at == Named(s, Len(b))
  <1>1. DOMAIN at = 1 .. n /\ \A k \in 1 .. n : at[k] = src_index(x, k - 1)
    <2>1. Naming(s, Len(b), x, n)
      BY NamedIs
    <2> QED BY <2>1 DEF Naming
  <1> HIDE DEF at
  <1>2. NamedItems(s, b) = [i \in DOMAIN at |-> b[at[i] + 1]]
    BY DEF NamedItems, at
  <1> QED BY <1>1, <1>2 DEF SlicedBy

\* A slice whose step is near the limits is what HugeStep says.
LEMMA NotSteep ==
  ASSUME NEW op, NEW b, ~HugeStep(op, b)
  PROVE  /\ op.m \in {"getslice", "setslice", "delslice"} => ~Steep(op.s, Len(b))
         /\ op.m = "tuple" => ~Steep(op.s, Len(collected(b, op.from)))
  <1>1. op.m = "tuple" => ~Steep(op.s, Len(collected(b, op.from)))
    BY DEF HugeStep, Steep
  <1>2. op.m \in {"getslice", "setslice", "delslice"} => ~Steep(op.s, Len(b))
    <2>1. op.m \in {"getslice", "setslice", "delslice"} => op.m # "tuple"
      OBVIOUS
    <2> QED BY <2>1 DEF HugeStep, Steep
  <1> QED BY <1>1, <1>2

\* getslice returns the items that the slice names, in its order.
LEMMA GetsliceIs ==
  ASSUME NEW d, Buffer(d), d.size <= INT64_MAX, NEW op, op.m = "getslice", IsSlice(op.s),
         NEW o, o = getslice(d, op.s)
  PROVE  Exact(op, Items(d), o)
  <1> DEFINE b == Items(d)
             x == slice_indices(op.s, d.size)
  <1>1. \/ o.end = "returned" /\ o.arr = d /\ o.out = SlicedBy(d.data, x)
        \/ o.end = "huge"
    BY GetsliceKeeps
  <1>2. ListOf(b, d)
    BY ListIs
  <1>3. CASE o.end = "returned"
    <2> SUFFICES ASSUME ~HugeStep(op, b)
                 PROVE  ~Refused(op, b, o.out) /\ o.out = Result(op, b, o.out)
                        /\ Becomes(op, b, Items(o.arr), o.out)
      BY <1>3 DEF Exact
    <2>1. Items(o.arr) = b
      BY <1>1, <1>3
    <2> HIDE DEF b
    <2>2. /\ Len(b) = d.size /\ d.size \in Nat /\ \A i \in 1 .. d.size : b[i] = d.data[i]
      BY <1>2 DEF ListOf
    <2>3. d.size \in 0 .. INT64_MAX
      BY <2>2, Limits
    <2>4. ~Steep(op.s, d.size)
      BY <2>2, NotSteep
    <2>5. NamedItems(op.s, b) = SlicedBy(b, x)
      BY <2>2, <2>3, <2>4, NamedItemsAre
    <2>6. SlicedBy(b, x) = SlicedBy(d.data, x)
      <3> DEFINE n == slice_len(x)
      <3>1. \A k \in 1 .. n : src_index(x, k - 1) \in 0 .. d.size - 1
        <4>1. Naming(op.s, d.size, x, n)
          BY <2>3, <2>4, NamedIs
        <4> QED BY <4>1 DEF Naming
      <3>2. ASSUME NEW k \in 1 .. n
            PROVE  b[src_index(x, k - 1) + 1] = d.data[src_index(x, k - 1) + 1]
        <4>1. src_index(x, k - 1) + 1 \in 1 .. d.size
          BY <3>1, <2>2
        <4> QED BY <4>1, <2>2
      <3> HIDE DEF x
      <3> QED BY <3>2 DEF SlicedBy
    <2>7. o.out = NamedItems(op.s, b)
      BY <1>1, <1>3, <2>5, <2>6
    <2> QED BY <2>1, <2>7 DEF Refused, Result, Becomes
  <1>4. CASE o.end = "huge"
    BY <1>4 DEF Exact
  <1> QED BY <1>1, <1>3, <1>4

\* What is iterated over is what its source says.
LEMMA SourceIs ==
  ASSUME NEW op, op.m \in {"new", "setslice", "tuple"}, IsIterable(op.from), ~OverTheEdge(op), NEW b
  PROVE  Source(b, op.from) = collected(b, op.from)
  <1>1. CASE op.from.k = "range"
    <2>1. IsRange(op.from.range) /\ ~Far(op.from.range)
      BY <1>1 DEF IsIterable, OverTheEdge, Far
    <2>2. Everything(op.from.range) = RangeOf(op.from.range)
      BY <2>1, RangeNames
    <2> QED BY <1>1, <2>2 DEF Source, collected
  <1>2. CASE op.from.k # "range"
    <2>1. op.from.k \in {"list", "self"}
      BY <1>2 DEF IsIterable
    <2> QED BY <2>1 DEF Source, collected
  <1> QED BY <1>1, <1>2

\* array(iterable) returns the list of what is iterated over.
LEMMA NewIs ==
  ASSUME NEW d, Buffer(d), NEW op, op.m = "new", IsIterable(op.from),
         NEW o, o = new(d, op.from)
  PROVE  Exact(op, Items(d), o)
  <1> DEFINE b == Items(d)
  <1>1. \/ o.end = "returned" /\ o.arr = d /\ o.out = collected(b, op.from)
        \/ o.end = "endless"
    BY NewKeeps
  <1>2. CASE o.end = "returned"
    <2> SUFFICES ASSUME ~OverTheEdge(op)
                 PROVE  ~Refused(op, b, o.out) /\ o.out = Result(op, b, o.out)
                        /\ Becomes(op, b, Items(o.arr), o.out)
      BY <1>2 DEF Exact
    <2>1. o.out = Source(b, op.from)
      BY <1>1, <1>2, SourceIs
    <2>2. op.from.k # "program"
      BY DEF IsIterable
    <2>3. Items(o.arr) = b
      BY <1>1, <1>2
    <2> HIDE DEF b
    <2> QED BY <2>1, <2>2, <2>3 DEF Refused, Result, Becomes
  <1>3. CASE o.end = "endless"
    BY <1>3 DEF Exact
  <1> QED BY <1>1, <1>2, <1>3

\* A slice of a tuple has the items that it names, though they are read without a check.
LEMMA TupleIs ==
  ASSUME NEW d, Buffer(d), d.size <= INT64_MAX, NEW op, op.m = "tuple", IsIterable(op.from),
         IsSlice(op.s), NEW o, o = tuple_getslice(d, op.from, op.s)
  PROVE  Exact(op, Items(d), o)
  <1> DEFINE b == Items(d)
             tuple == collected(b, op.from)
             x == slice_indices(op.s, Len(tuple))
  <1>1. \/ o.end = "returned" /\ o.arr = d /\ ~NeverEnds(op.from) /\ o.out = SlicedBy(tuple, x)
        \/ o.end \in {"huge", "endless"}
    BY TupleKeeps
  <1>2. CASE o.end = "returned"
    <2> SUFFICES ASSUME ~HugeStep(op, b), ~OverTheEdge(op)
                 PROVE  ~Refused(op, b, o.out) /\ o.out = Result(op, b, o.out)
                        /\ Becomes(op, b, Items(o.arr), o.out)
      BY <1>2 DEF Exact
    <2>1. Items(o.arr) = b
      BY <1>1, <1>2
    <2>2. tuple \in ItemLists
      BY <1>1, <1>2, CollectedIs
    <2>3. Source(b, op.from) = tuple
      BY SourceIs
    <2>4. ~Steep(op.s, Len(tuple))
      BY NotSteep
    <2> HIDE DEF b, tuple
    <2>5. Len(tuple) \in 0 .. INT64_MAX
      BY <2>2, Limits DEF ItemLists
    <2>6. NamedItems(op.s, tuple) = SlicedBy(tuple, x)
      BY <2>4, <2>5, NamedItemsAre
    <2>7. o.out = NamedItems(op.s, Source(b, op.from))
      BY <1>1, <1>2, <2>3, <2>6
    <2> QED BY <2>1, <2>7 DEF Refused, Result, Becomes
  <1>3. CASE o.end \in {"huge", "endless"}
    BY <1>3 DEF Exact
  <1> QED BY <1>1, <1>2, <1>3

\* delslice takes the items that the slice names out of the list, by a move or by squeezing.
LEMMA DelsliceIs ==
  ASSUME NEW d, Buffer(d), d.size <= INT64_MAX, NEW op, op.m = "delslice", IsSlice(op.s),
         NEW o, o = delslice(d, op.s)
  PROVE  Exact(op, Items(d), o)
  <1> DEFINE b == Items(d)
             z == d.size
             x == slice_indices(op.s, z)
             n == slice_len(x)
             e == o.arr
             G == {p + 1 : p \in Range(Named(op.s, Len(b)))}
  <1>1. o.end = "returned" /\ Buffer(e) /\ o.out = <<>> /\ Deleted(d, x, e)
    BY DelsliceKeeps DEF Kept
  <1>2. ListOf(b, d)
    BY ListIs
  <1> SUFFICES ASSUME ~HugeStep(op, b) PROVE Items(e) = Without(b, G)
    BY <1>1 DEF Exact, Refused, Result, Becomes
  <1> HIDE DEF b
  <1>3. /\ Len(b) = z /\ z \in Nat /\ DOMAIN b = 1 .. z /\ \A i \in 1 .. z : b[i] = d.data[i]
        /\ b = Items(d)
    BY <1>2 DEF ListOf, b
  <1>4. z \in 0 .. INT64_MAX /\ ~Steep(op.s, z)
    BY <1>3, Limits, NotSteep
  <1>5. /\ n \in Nat /\ Range(Named(op.s, z)) = Chosen(x)
        /\ \A i \in 0 .. n - 1 : src_index(x, i) \in 0 .. z - 1
    <2>1. Naming(op.s, z, x, n)
      BY <1>4, NamedIs
    <2> QED BY <2>1 DEF Naming
  <1>6. G = {p + 1 : p \in Chosen(x)}
    BY <1>3, <1>5
  <1>7. Normalised(x, z) /\ Measured(x, z) /\ Gentle(x, z)
    BY <1>4, IndicesAre, SliceIs, SliceNames DEF Chooses
  <1> HIDE DEF G, z
  <1>8. ASSUME NEW at, NEW k, Closed(d, at, k, e), Gap(G, at, k, z) PROVE Items(e) = Without(b, G)
    <2>1. Gap(G, at, k, d.size)
      BY <1>8 DEF z
    <2> QED BY <1>1, <1>3, <1>8, <2>1, ClosedIs
  <1>9. CASE n = 0 /\ e = d
    <2>1. Chosen(x) = {}
      BY <1>9 DEF Chosen
    <2>2. G = 0 + 1 .. 0 + 0
      BY <1>6, <2>1
    <2>3. Gap(G, 0, 0, z)
      BY <2>2, <1>3 DEF Gap
    <2>4. Closed(d, 0, 0, e)
      <3>1. d.size \in Nat
        BY <1>3 DEF z
      <3> QED BY <1>9, <3>1 DEF Closed
    <2> QED BY <1>8, <2>3, <2>4
  <1> DEFINE start == IF x.step = 1 THEN x.start ELSE x.stop + 1
  <1>10. CASE n # 0 /\ x.step \in {1, -1} /\ Closed(d, start, n, e)
    <2>1. /\ x.step = 1 => x.start \in 0 .. z /\ x.start + n <= z
          /\ x.step = -1 => x.stop + 1 \in 0 .. z /\ x.stop + 1 + n <= z
      BY <1>7, <1>10 DEF Measured
    <2>2. start \in Nat /\ start + n <= z
      BY <1>10, <2>1, <1>3
    <2>3. x.start \in Int /\ x.stop \in Int
      BY <1>7 DEF Normalised
    <2>4. x.step = -1 => n = x.start - x.stop
      <3> SUFFICES ASSUME x.step = -1 PROVE n = x.start - x.stop
        OBVIOUS
      <3>1. Counts(Reach(x), Pace(x), n)
        BY <1>3, <1>4, <1>7, CountsRight
      <3> HIDE DEF n, x
      <3>2. Pace(x) = 1 /\ Reach(x) = IF x.stop < x.start THEN x.start - x.stop ELSE 0
        <4>1. ~(x.step > 0) /\ -x.step = 1
          <5>1. x.step \in Int /\ x.step = -1
            BY <1>7, Limits DEF Normalised, Int64
          <5>2. x.step \in Int /\ x.step + 1 = 0
            BY ONLY <5>1
          <5> QED BY ONLY <5>2
        <4> QED BY ONLY <4>1 DEF Pace, Reach
      <3>3. n * 1 >= Reach(x) /\ \A i \in 0 .. n - 1 : i * 1 \in 0 .. Reach(x) - 1
        BY <3>1, <3>2 DEF Counts
      <3>4. n >= Reach(x)
        BY <3>3, <1>5
      <3>5. n - 1 \in 0 .. Reach(x) - 1
        <4>1. n - 1 \in 0 .. n - 1 /\ (n - 1) * 1 = n - 1
          BY <1>5, <1>10
        <4> QED BY <4>1, <3>3
      <3> QED BY ONLY <3>2, <3>4, <3>5, <1>5, <2>3
    <2>5. G = start + 1 .. start + n
      <3> HIDE DEF n, x
      <3>1. ASSUME NEW i \in 0 .. n - 1
            PROVE  src_index(x, i) + 1 \in start + 1 .. start + n
        <4>1. i * 1 = i /\ i * (-1) = -i /\ i \in Int
          BY <1>5
        <4> QED BY ONLY <4>1, <2>3, <2>4, <1>5, <1>10, i \in 0 .. n - 1 DEF src_index
      <3>2. ASSUME NEW g \in start + 1 .. start + n
            PROVE  \E i \in 0 .. n - 1 : src_index(x, i) + 1 = g
        <4> DEFINE i == IF x.step = 1 THEN g - start - 1 ELSE start + n - g
        <4>1. i \in 0 .. n - 1 /\ i * 1 = i /\ i * (-1) = -i
          BY ONLY <1>5, <2>2, g \in start + 1 .. start + n
        <4>2. src_index(x, i) + 1 = g
          <5>1. x.step = 1 => i * x.step = i
            BY <4>1
          <5>2. x.step = -1 => i * x.step = -i
            BY <4>1
          <5>3. g \in Int /\ start \in Int
            BY <2>2
          <5> QED BY ONLY <5>1, <5>2, <5>3, <2>3, <2>4, <1>5, <1>10 DEF src_index
        <4> QED BY <4>1, <4>2
      <3>3. G = {src_index(x, i) + 1 : i \in 0 .. n - 1}
        <4>1. Chosen(x) = {src_index(x, i) : i \in 0 .. n - 1}
          BY DEF Chosen, n
        <4> QED BY <4>1, <1>6
      <3> QED BY <3>1, <3>2, <3>3
    <2>6. Gap(G, start, n, z)
      BY <2>2, <2>5, <1>3, <1>5 DEF Gap
    <2> QED BY <1>8, <1>10, <2>6
  <1>11. CASE /\ n # 0 /\ x.step \notin {1, -1}
              /\ Picked(d.data, {i \in 1 .. d.size : i - 1 \notin Chosen(x)},
                        Prefix(e.data, e.size))
    <2> DEFINE S == {i \in 1 .. d.size : i - 1 \notin Chosen(x)}
    <2>1. S = (1 .. z) \ G
      <3>1. \A i \in 1 .. d.size : i \in G <=> i - 1 \in Chosen(x)
        <4> SUFFICES ASSUME NEW i \in 1 .. d.size PROVE i \in G <=> i - 1 \in Chosen(x)
          OBVIOUS
        <4>1. Chosen(x) \subseteq Int
          BY <1>5 DEF Chosen
        <4>2. i \in Int /\ (i - 1) + 1 = i /\ \A p \in Chosen(x) : p + 1 = i => p = i - 1
          BY <4>1, <1>3 DEF z
        <4> QED BY <4>2, <1>6
      <3> QED BY <3>1 DEF z
    <2>2. \A p \in S : b[p] = d.data[p]
      BY <1>3 DEF z
    <2>3. Items(e) = Prefix(e.data, e.size)
      BY <1>1, ItemsAs DEF Prefix
    <2>4. Picked(d.data, S, Items(e))
      BY <1>11, <2>3
    <2>5. Rest(S, b, G, d.data)
      BY <1>3, <2>1, <2>2 DEF Rest
    <2> HIDE DEF S, e
    <2> QED BY <2>4, <2>5, PickedIs
  <1> QED BY <1>1, <1>9, <1>10, <1>11 DEF Deleted

\* Which of its first n indices names the position p.
IndexOf(x, n, p) == CHOOSE k \in 0 .. n - 1 : src_index(x, k) + 1 = p

\* The index i, one of the first n, names the position p.
NamedBy(x, n, p, i) ==
  /\ x.start \in Int /\ x.step \in Int /\ x.step # 0
  /\ n \in Nat /\ i \in 0 .. n - 1 /\ src_index(x, i) + 1 = p

\* The position p that a slice names is named once, as far as its indices go.
LEMMA NamedOnce ==
  ASSUME NEW x, NEW n, NEW p, NEW i, NamedBy(x, n, p, i)
  PROVE  IndexOf(x, n, p) = i
  <1> USE DEF NamedBy
  <1>1. ASSUME NEW k \in 0 .. n - 1, src_index(x, k) + 1 = p PROVE k = i
    <2>1. /\ k \in Int /\ i \in Int /\ k * x.step \in Int /\ i * x.step \in Int
          /\ x.start \in Int /\ x.step # 0
      OBVIOUS
    <2>2. x.start + k * x.step + 1 = x.start + i * x.step + 1
      BY <1>1 DEF src_index
    <2>3. k * x.step = i * x.step
      <3> DEFINE u == k * x.step
                 v == i * x.step
      <3>1. u \in Int /\ v \in Int /\ x.start + u + 1 = x.start + v + 1
        BY <2>1, <2>2
      <3> HIDE DEF u, v
      <3>2. u = v
        BY ONLY <3>1, <2>1
      <3> QED BY <3>2 DEF u, v
    <2>4. (k - i) * x.step = 0
      BY <2>1, <2>3
    <2>5. k - i \in Int /\ (k - i = 0 \/ x.step = 0)
      BY <2>1, <2>4
    <2> QED BY ONLY <2>1, <2>5
  <1> QED BY <1>1 DEF IndexOf

\* The same slice of a list, replaced by items.
Replacing(s, x, n, b, items) ==
  IF x.step = 1 THEN SubSeq(b, 1, x.start) \o items \o SubSeq(b, x.start + n + 1, Len(b))
  ELSE [p \in DOMAIN b |-> IF Names(x, n, p) THEN Renewed(x, n, items, p) ELSE b[p]]

\* What replaces the slice of a list, said with the indices that the code goes over.
LEMMA ReplacedIs ==
  ASSUME NEW s, IsSlice(s), NEW b, NEW len, Len(b) = len, len \in 0 .. INT64_MAX, ~Steep(s, len),
         NEW x, x = slice_indices(s, len), NEW n, n = slice_len(x), NEW items
  PROVE  Replaced(b, s, items) = Replacing(s, x, n, b, items)
  <1> DEFINE at == Named(s, len)
             first == IF at # <<>> THEN at[1] ELSE x.start
  <1>1. /\ n \in Nat /\ DOMAIN at = 1 .. n /\ Len(at) = n
        /\ \A k \in 1 .. n : at[k] = src_index(x, k - 1)
        /\ \A i \in 0 .. n - 1 : src_index(x, i) \in 0 .. len - 1
        /\ x.step = IF s.step = ARGON_NULL THEN 1 ELSE s.step
    <2>1. Naming(s, len, x, n)
      BY NamedIs
    <2> QED BY <2>1 DEF Naming
  <1>2. Normalised(x, len)
    BY IndicesAre
  <1>3. x.start \in Int /\ x.step \in Int /\ x.step # 0
    BY <1>2, Limits DEF Normalised, Int64
  <1>4. s.step \in {1, ARGON_NULL} <=> x.step = 1
    BY <1>1
  <1>5. Replaced(b, s, items) =
          IF s.step \in {1, ARGON_NULL}
          THEN SubSeq(b, 1, first) \o items \o SubSeq(b, first + Len(at) + 1, Len(b))
          ELSE [p \in DOMAIN b |-> IF \E i \in DOMAIN at : at[i] + 1 = p
                                   THEN items[CHOOSE i \in DOMAIN at : at[i] + 1 = p] ELSE b[p]]
    BY Zenon DEF Replaced
  <1>6. first = x.start
    <2>1. CASE n = 0
      <3> HIDE DEF at
      <3>1. at = <<>> \/ at # <<>>
        OBVIOUS
      <3>2. \A i \in 1 .. n : FALSE
        BY <2>1
      <3> QED BY <2>1, <1>1
    <2>2. CASE n # 0
      <3>1. 1 \in 1 .. n /\ 0 * x.step = 0
        BY <2>2, <1>1, <1>3
      <3>2. at[1] = src_index(x, 1 - 1)
        BY <3>1, <1>1
      <3>3. src_index(x, 1 - 1) = x.start
        BY <3>1, <1>3 DEF src_index
      <3> QED BY <3>2, <3>3
    <2> QED BY <2>1, <2>2
  <1> HIDE DEF at, first
  <1>7. CASE x.step = 1
    BY <1>1, <1>4, <1>5, <1>6, <1>7 DEF Replacing
  <1>8. CASE x.step # 1
    <2>1. ASSUME NEW p
          PROVE  /\ (\E i \in DOMAIN at : at[i] + 1 = p) <=> Names(x, n, p)
                 /\ Names(x, n, p) => items[CHOOSE i \in DOMAIN at : at[i] + 1 = p]
                                        = Renewed(x, n, items, p)
      <3>1. ASSUME NEW i \in DOMAIN at, at[i] + 1 = p PROVE Names(x, n, p)
        <4>1. i - 1 \in 0 .. n - 1 /\ src_index(x, i - 1) + 1 = p
          BY <3>1, <1>1
        <4> QED BY <4>1 DEF Names
      <3>2. ASSUME Names(x, n, p)
            PROVE  /\ \E i \in DOMAIN at : at[i] + 1 = p
                   /\ items[CHOOSE i \in DOMAIN at : at[i] + 1 = p] = Renewed(x, n, items, p)
        <4>1. PICK k \in 0 .. n - 1 : src_index(x, k) + 1 = p
          BY <3>2 DEF Names
        <4>2. k + 1 \in 1 .. n /\ (k + 1) - 1 = k /\ k + 1 = 1 + k
          BY <1>1
        <4>3. k + 1 \in DOMAIN at /\ at[k + 1] + 1 = p
          BY <4>1, <4>2, <1>1
        <4>4. IndexOf(x, n, p) = k
          <5>1. NamedBy(x, n, p, k)
            BY <4>1, <1>1, <1>3 DEF NamedBy
          <5> QED BY <5>1, NamedOnce
        <4>5. ASSUME NEW j \in DOMAIN at, at[j] + 1 = p PROVE j = k + 1
          <5>1. j - 1 \in 0 .. n - 1 /\ src_index(x, j - 1) + 1 = p
            BY <4>5, <1>1
          <5>2. IndexOf(x, n, p) = j - 1
            <6>1. NamedBy(x, n, p, j - 1)
              BY <5>1, <1>1, <1>3 DEF NamedBy
            <6> QED BY <6>1, NamedOnce
          <5>3. j - 1 = k /\ j \in Int /\ k \in Int
            BY <4>4, <5>2, <1>1
          <5> QED BY ONLY <5>3
        <4>6. (CHOOSE j \in DOMAIN at : at[j] + 1 = p) = k + 1
          BY <4>3, <4>5
        <4>7. Renewed(x, n, items, p) = items[k + 1]
          BY <4>2, <4>4 DEF Renewed, IndexOf
        <4> QED BY <4>3, <4>6, <4>7
      <3> QED BY <3>1, <3>2
    <2> DEFINE F(p) == IF \E i \in DOMAIN at : at[i] + 1 = p
                       THEN items[CHOOSE i \in DOMAIN at : at[i] + 1 = p] ELSE b[p]
               G(p) == IF Names(x, n, p) THEN Renewed(x, n, items, p) ELSE b[p]
    <2>2. ASSUME NEW p PROVE F(p) = G(p)
      <3>1. CASE Names(x, n, p)
        BY <2>1, <3>1
      <3>2. CASE ~Names(x, n, p)
        BY <2>1, <3>2
      <3> QED BY <3>1, <3>2
    <2>3. Replaced(b, s, items) = [p \in DOMAIN b |-> F(p)]
      BY <1>4, <1>5, <1>8
    <2>4. Replacing(s, x, n, b, items) = [p \in DOMAIN b |-> G(p)]
      BY <1>8 DEF Replacing
    <2> HIDE DEF F, G
    <2> QED BY <2>2, <2>3, <2>4
  <1> QED BY <1>7, <1>8

\* An array to whose slice items have been assigned has the list with the slice replaced.
LEMMA AssignedIs ==
  ASSUME NEW d, Buffer(d), d.size <= INT64_MAX, NEW s, IsSlice(s), ~Steep(s, d.size),
         NEW x, x = slice_indices(s, d.size), NEW items \in Seq(Stored),
         NEW e, Buffer(e), Assigned(d, x, slice_len(x), items, e)
  PROVE  /\ Items(e) = Replaced(Items(d), s, items)
         /\ s.step \in {1, ARGON_NULL} \/ Len(items) = Len(Named(s, d.size))
  <1> DEFINE b == Items(d)
             z == d.size
             n == slice_len(x)
  <1>1. ListOf(b, d)
    BY ListIs
  <1> HIDE DEF b
  <1>2. /\ b \in Seq(Stored) /\ Len(b) = z /\ z \in Nat /\ DOMAIN b = 1 .. z
        /\ \A i \in 1 .. z : b[i] = d.data[i]
    BY <1>1 DEF ListOf
  <1>3. z \in 0 .. INT64_MAX
    BY <1>2, Limits
  <1>4. /\ n \in Nat /\ Len(Named(s, z)) = n
        /\ \A i \in 0 .. n - 1 : src_index(x, i) \in 0 .. z - 1
        /\ x.step = IF s.step = ARGON_NULL THEN 1 ELSE s.step
    <2>1. Naming(s, z, x, n)
      BY <1>3, NamedIs
    <2> QED BY <2>1 DEF Naming
  <1>5. Replaced(b, s, items) = Replacing(s, x, n, b, items)
    BY <1>2, <1>3, ReplacedIs
  <1>6. CASE x.step # 1 /\ Len(items) = n /\ e.size = z
             /\ \A p \in 1 .. z : e.data[p] = IF Names(x, n, p) THEN Renewed(x, n, items, p)
                                             ELSE d.data[p]
    <2>1. Items(e) = [p \in 1 .. z |-> e.data[p]]
      BY <1>6, ItemsAs
    <2>2. Replacing(s, x, n, b, items)
            = [p \in 1 .. z |-> IF Names(x, n, p) THEN Renewed(x, n, items, p) ELSE b[p]]
      BY <1>2, <1>6 DEF Replacing
    <2>3. \A p \in 1 .. z : e.data[p] = IF Names(x, n, p) THEN Renewed(x, n, items, p) ELSE b[p]
      BY <1>2, <1>6
    <2>4. Items(e) = Replacing(s, x, n, b, items)
      <3> HIDE DEF n, z
      <3> QED BY ONLY <2>1, <2>2, <2>3
    <2> QED BY <2>4, <1>4, <1>5, <1>6 DEF b
  <1>7. CASE /\ x.step = 1 /\ e.size = z - n + Len(items)
             /\ x.start + n <= z =>
                  \A p \in 1 .. e.size : e.data[p] = IF p <= x.start THEN d.data[p]
                                                   ELSE IF p <= x.start + Len(items)
                                                   THEN items[p - x.start]
                                                   ELSE d.data[p - Len(items) + n]
    <2> DEFINE c == SubSeq(b, 1, x.start) \o items \o SubSeq(b, x.start + n + 1, Len(b))
    <2>1. x.start \in 0 .. z /\ x.start + n <= z
      <3>1. Measured(x, z)
        BY <1>3, SliceIs
      <3> QED BY <3>1, <1>7 DEF Measured
    <2>2. x.start \in Nat /\ x.start <= z /\ Len(items) \in Nat
      BY <2>1, <1>2
    <2> HIDE DEF n, z, Stored
    <2>3. Spliced(c, b, x.start, n, items)
      BY <2>1, <2>2, <1>2, <1>4, SplicedIs
    <2> HIDE DEF c
    <2>4. /\ c \in Seq(Stored) /\ Len(c) = z - n + Len(items)
          /\ \A i \in 1 .. Len(c) : c[i] = IF i <= x.start THEN b[i]
                                           ELSE IF i <= x.start + Len(items) THEN items[i - x.start]
                                           ELSE b[i - Len(items) + n]
      BY <2>3, <1>2 DEF Spliced
    <2>5. Len(c) = e.size
      BY <2>4, <1>7
    <2>6. ASSUME NEW i \in 1 .. e.size PROVE e.data[i] = c[i]
      <3>1. i \in 1 .. z - n + Len(items) /\ i \in Nat /\ i \in 1 .. Len(c)
        BY <1>7, <2>5, <2>2, <1>2, <1>4
      <3>2. i <= x.start => i \in 1 .. z
        BY ONLY <3>1, <2>1, <2>2, <1>2
      <3>3. ~(i <= x.start + Len(items)) => i - Len(items) + n \in 1 .. z
        BY ONLY <3>1, <2>2, <1>2, <1>4
      <3>4. \A p \in 1 .. e.size : e.data[p] = IF p <= x.start THEN d.data[p]
                                              ELSE IF p <= x.start + Len(items)
                                              THEN items[p - x.start]
                                              ELSE d.data[p - Len(items) + n]
        BY <1>7, <2>1
      <3> QED BY <3>1, <3>2, <3>3, <3>4, <2>4, <1>2
    <2>7. Items(e) = c
      BY <2>4, <2>5, <2>6, ItemsBe
    <2>8. Replacing(s, x, n, b, items) = c
      BY <1>7 DEF Replacing, c
    <2> QED BY <2>7, <2>8, <1>4, <1>5, <1>7 DEF b
  <1> QED BY <1>6, <1>7 DEF Assigned

\* setslice puts what is iterated over in the place of the items that the slice names.
LEMMA SetsliceIs ==
  ASSUME NEW d, Buffer(d), d.size <= INT64_MAX, NEW op, op.m = "setslice", IsSlice(op.s),
         IsIterable(op.from), NEW o, o = setslice(d, op.s, op.from)
  PROVE  Exact(op, Items(d), o)
  <1> DEFINE b == Items(d)
             x == slice_indices(op.s, d.size)
             n == slice_len(x)
             items == collected(b, op.from)
  <1>1. \/ /\ o.end = "returned" /\ Buffer(o.arr) /\ o.out = items /\ ~NeverEnds(op.from)
           /\ Assigned(d, x, n, items, o.arr)
        \/ /\ o.end = "thrown" /\ o.arr = d /\ ~NeverEnds(op.from)
           /\ x.step # 1 /\ Len(items) # n
        \/ o.end = "endless"
    BY SetsliceKeeps DEF Kept
  <1>2. CASE o.end = "endless"
    BY <1>2 DEF Exact
  <1>3. CASE o.end # "endless"
    <2> SUFFICES ASSUME ~HugeStep(op, b), ~OverTheEdge(op) PROVE Exact(op, b, o)
      BY DEF Exact
    <2>1. ListOf(b, d)
      BY ListIs
    <2>2. items \in Seq(Stored)
      <3>1. ~NeverEnds(op.from)
        BY <1>1, <1>3
      <3>2. items \in ItemLists
        BY <3>1, CollectedIs
      <3> QED BY <3>2 DEF ItemLists
    <2>3. Source(b, op.from) = items /\ op.from.k # "program"
      BY SourceIs DEF IsIterable
    <2>4. Len(b) = d.size /\ d.size \in 0 .. INT64_MAX
      BY <2>1, Limits DEF ListOf
    <2>5. ~Steep(op.s, d.size)
      BY <2>4, NotSteep
    <2>6. /\ Len(Named(op.s, d.size)) = n
          /\ x.step = IF op.s.step = ARGON_NULL THEN 1 ELSE op.s.step
      <3>1. Naming(op.s, d.size, x, n)
        BY <2>4, <2>5, NamedIs
      <3> QED BY <3>1 DEF Naming
    <2>7. CASE o.end = "thrown"
      <3>1. o.arr = d /\ x.step # 1 /\ Len(items) # n
        BY <1>1, <2>7
      <3>2. Items(o.arr) = b
        BY <3>1
      <3> HIDE DEF b, items, n, x
      <3>3. Result(op, b, <<>>) = items
        BY <2>3 DEF Result
      <3>4. Refused(op, b, items)
        BY <3>1, <2>4, <2>6 DEF Refused
      <3> QED BY <2>7, <3>2, <3>3, <3>4 DEF Exact
    <2>8. CASE o.end = "returned"
      <3>1. /\ Buffer(o.arr) /\ o.out = items /\ Assigned(d, x, n, items, o.arr)
        BY <1>1, <2>8
      <3>2. /\ Items(o.arr) = Replaced(b, op.s, items)
            /\ op.s.step \in {1, ARGON_NULL} \/ Len(items) = Len(Named(op.s, d.size))
        BY <2>2, <2>5, <3>1, AssignedIs
      <3> HIDE DEF b, items, n, x
      <3>3. ~Refused(op, b, o.out)
        BY <3>1, <3>2, <2>4 DEF Refused
      <3>4. o.out = Result(op, b, o.out)
        BY <3>1, <2>3 DEF Result
      <3>5. Becomes(op, b, Items(o.arr), o.out)
        BY <3>1, <3>2 DEF Becomes
      <3> QED BY <2>8, <3>3, <3>4, <3>5 DEF Exact
    <2> QED BY <1>1, <1>3, <2>7, <2>8
  <1> QED BY <1>2, <1>3

\* Every method that does not call the program does what it does to a list.
LEMMA RunExact ==
  ASSUME NEW d, Buffer(d), d.size <= INT64_MAX, NEW op, IsInvocation(op), ~CallsBack(op)
  PROVE  Exact(op, Items(d), Run(op, d))
  <1> DEFINE o == Run(op, d)
  <1> SUFFICES Exact(op, Items(d), o)
    OBVIOUS
  <1>1. CASE op.m = "append"
    <2>1. o = append(d, op.items) /\ op.items \in Seq(Stored)
      BY <1>1 DEF Run, IsInvocation, ItemLists
    <2> HIDE DEF o
    <2> QED BY <1>1, <2>1, AppendIs
  <1>2. CASE op.m = "insert"
    <2>1. o = insert(d, op.pos, op.items) /\ op.items \in Seq(Stored) /\ op.pos \in Int
      BY <1>2, Limits DEF Run, IsInvocation, ItemLists, Int64
    <2> HIDE DEF o
    <2> QED BY <1>2, <2>1, InsertIs
  <1>3. CASE op.m = "pop"
    <2>1. o = pop(d, op.pos) /\ op.pos \in Int
      BY <1>3, Limits DEF Run, IsInvocation, Int64
    <2> HIDE DEF o
    <2> QED BY <1>3, <2>1, PopIs
  <1>4. CASE op.m = "getitem"
    <2>1. o = getitem(d, op.index) /\ op.index \in Int
      BY <1>4, Limits DEF Run, IsInvocation, Int64
    <2> HIDE DEF o
    <2> QED BY <1>4, <2>1, GetitemIs
  <1>5. CASE op.m = "setitem"
    <2>1. o = setitem(d, op.index, op.value) /\ op.value \in Stored /\ op.index \in Int
      BY <1>5, Limits DEF Run, IsInvocation, Int64
    <2> HIDE DEF o
    <2> QED BY <1>5, <2>1, SetitemIs
  <1>6. CASE op.m = "delitem"
    <2>1. o = delitem(d, op.index) /\ op.index \in Int
      BY <1>6, Limits DEF Run, IsInvocation, Int64
    <2> HIDE DEF o
    <2> QED BY <1>6, <2>1, DelitemIs
  <1>7. CASE op.m = "getslice"
    <2>1. o = getslice(d, op.s) /\ IsSlice(op.s)
      BY <1>7 DEF Run, IsInvocation
    <2> HIDE DEF o
    <2> QED BY <1>7, <2>1, GetsliceIs
  <1>8. CASE op.m = "delslice"
    <2>1. o = delslice(d, op.s) /\ IsSlice(op.s)
      BY <1>8 DEF Run, IsInvocation
    <2> HIDE DEF o
    <2> QED BY <1>8, <2>1, DelsliceIs
  <1>9. CASE op.m = "of_size"
    <2>1. o = of_size(op.n) /\ op.n \in Int
      BY <1>9, Limits DEF Run, IsInvocation, Int64
    <2> HIDE DEF o
    <2> QED BY <1>9, <2>1, OfSizeIs
  <1>10. CASE op.m \in {"setslice", "new", "tuple"}
    <2>1. IsIterable(op.from)
      BY <1>10 DEF IsInvocation, CallsBack
    <2>2. CASE op.m = "setslice"
      <3>1. o = setslice(d, op.s, op.from) /\ IsSlice(op.s)
        BY <2>2 DEF Run, IsInvocation
      <3> HIDE DEF o
      <3> QED BY <2>1, <2>2, <3>1, SetsliceIs
    <2>3. CASE op.m = "new"
      <3>1. o = new(d, op.from)
        BY <2>3 DEF Run
      <3> HIDE DEF o
      <3> QED BY <2>1, <2>3, <3>1, NewIs
    <2>4. CASE op.m = "tuple"
      <3>1. o = tuple_getslice(d, op.from, op.s) /\ IsSlice(op.s)
        BY <2>4 DEF Run, IsInvocation
      <3> HIDE DEF o
      <3> QED BY <2>1, <2>4, <3>1, TupleIs
    <2> QED BY <1>10, <2>2, <2>3, <2>4
  <1> QED BY <1>1, <1>2, <1>3, <1>4, <1>5, <1>6, <1>7, <1>8, <1>9, <1>10 DEF IsInvocation, CallsBack

\* What a method that waits for the program has made of the list, while nobody has changed it.
Faithful(c, d) ==
  /\ c.before = Items(d) /\ c.n = d.size
  /\ Reads(c.op) => c.i < c.n
  /\ c.op.m \in {"map", "filter", "contains"} => c.given = c.before[c.i + 1]
  /\ c.op.m = "map" => c.out = Prefix(c.before, c.i)
  /\ c.op.m = "for" => c.out = Prefix(c.before, c.i + 1)
  /\ c.op.m = "contains" => \A k \in 1 .. c.i : c.before[k] # c.op.value
  /\ c.op.m = "filter" => Picked(c.before, {k \in 1 .. c.i : c.before[k] # c.op.value}, c.out)
  /\ c.op.m = "sort" => c.out = c.before

\* The same when the method is about to go on.
Prepared(c, d) ==
  /\ c.before = Items(d) /\ c.n = d.size
  /\ Reads(c.op) => c.i <= c.n
  /\ c.op.m \in {"map", "for"} => c.out = Prefix(c.before, c.i)
  /\ c.op.m = "contains" =>
       /\ c.i > 0 => c.given = c.before[c.i]
       /\ \A k \in 1 .. c.i - 1 : c.before[k] # c.op.value
  /\ c.op.m = "filter" => Picked(c.before, {k \in 1 .. c.i : c.before[k] # c.op.value}, c.out)
  /\ c.op.m = "sort" /\ c.i # 0 => c.out = c.before

\* A method that goes on with a list as it should.
GoesRight(c, d, o) ==
  /\ o.end = "calls" => Faithful(o.call, d)
  /\ Exact(c.op, c.before, o)

\* All of a list.
LEMMA WholeIs ==
  ASSUME NEW b, NEW d, ListOf(b, d) PROVE Prefix(b, d.size) = b
  <1>1. /\ b \in Seq(Stored) /\ Len(b) = d.size /\ d.size \in Nat
    BY DEF ListOf
  <1> HIDE DEF Stored
  <1>2. b = [i \in 1 .. d.size |-> b[i]]
    BY <1>1
  <1> QED BY <1>2 DEF Prefix

\* map has made the list of what it has read.
LEMMA MapIs ==
  ASSUME NEW d, Buffer(d), NEW c, Ready(c, d), Prepared(c, d), c.op.m = "map",
         NEW o, o = map(d, c)
  PROVE  GoesRight(c, d, o)
  <1> DEFINE b == c.before
  <1>1. ListOf(b, d)
    BY ListIs DEF Prepared
  <1>2. /\ DOMAIN c = CallFields /\ c.i \in Nat /\ Reads(c.op) /\ c.n = d.size /\ c.i <= c.n
        /\ c.out = Prefix(b, c.i) /\ b = Items(d)
    BY DEF Ready, Begun, Reads, Prepared
  <1> HIDE DEF b
  <1>3. d.size \in Nat /\ \A i \in 1 .. d.size : b[i] = d.data[i]
    BY <1>1 DEF ListOf
  <1>4. CASE c.i = c.n
    <2>1. o.end = "returned" /\ o.arr = d /\ o.out = c.out
      BY <1>4 DEF map, Return, Ends
    <2>2. o.out = b
      BY <1>1, <1>2, <1>4, <2>1, WholeIs
    <2>3. Items(o.arr) = b
      BY <1>2, <2>1
    <2> QED BY <2>1, <2>2, <2>3 DEF GoesRight, Exact, Refused, Result, Becomes, b
  <1>5. CASE c.i # c.n
    <2>1. Gets(d, {c.i})
      BY <1>2, <1>3, <1>5 DEF Gets
    <2> DEFINE v == d.data[c.i + 1]
               e == [c EXCEPT !.given = v]
    <2>2. o.end = "calls" /\ o.arr = d /\ o.call = e
      BY <1>5, <2>1 DEF map, Calls
    <2>3. v = b[c.i + 1]
      BY <1>2, <1>3, <1>5
    <2> HIDE DEF v
    <2>4. /\ e.given = v /\ e.op = c.op /\ e.n = c.n /\ e.i = c.i /\ e.touched = c.touched
          /\ e.before = b /\ e.out = c.out
      BY <1>2 DEF CallFields, b
    <2> HIDE DEF e
    <2>5. c.i < c.n
      BY <1>2, <1>3, <1>5
    <2>6. Faithful(e, d)
      BY <1>2, <2>3, <2>4, <2>5 DEF Faithful
    <2> QED BY <2>2, <2>4, <2>6 DEF GoesRight, Exact
  <1> QED BY <1>4, <1>5

\* The iterator of an array delivers the list.
LEMMA NextIs ==
  ASSUME NEW d, Buffer(d), NEW c, Ready(c, d), Prepared(c, d), c.op.m = "for",
         NEW o, o = __next__(d, c)
  PROVE  GoesRight(c, d, o)
  <1> DEFINE b == c.before
  <1>1. ListOf(b, d)
    BY ListIs DEF Prepared
  <1>2. /\ DOMAIN c = CallFields /\ c.i \in Nat /\ Reads(c.op) /\ c.n = d.size /\ c.i <= c.n
        /\ c.out = Prefix(b, c.i) /\ b = Items(d)
    BY DEF Ready, Begun, Reads, Prepared
  <1> HIDE DEF b
  <1>3. d.size \in Nat /\ \A i \in 1 .. d.size : b[i] = d.data[i]
    BY <1>1 DEF ListOf
  <1>4. CASE ~(c.i < d.size)
    <2>1. o.end = "returned" /\ o.arr = d /\ o.out = c.out
      BY <1>4 DEF __next__, Return, Ends
    <2>2. c.i = d.size
      BY <1>2, <1>3, <1>4
    <2>3. o.out = b
      BY <1>1, <1>2, <2>1, <2>2, WholeIs
    <2>4. Items(o.arr) = b
      BY <1>2, <2>1
    <2> QED BY <2>1, <2>3, <2>4 DEF GoesRight, Exact, Refused, Result, Becomes, b
  <1>5. CASE c.i < d.size
    <2> DEFINE v == d.data[c.i + 1]
               w == Append(c.out, v)
               e == [c EXCEPT !.given = v, !.out = w]
    <2>1. o.end = "calls" /\ o.arr = d /\ o.call = e
      BY <1>5 DEF __next__, Calls
    <2>2. v = b[c.i + 1]
      BY <1>2, <1>3, <1>5
    <2> HIDE DEF v
    <2>3. w = Prefix(b, c.i + 1)
      <3>1. Prefix(b, c.i + 1) = Append(Prefix(b, c.i), v)
        BY <1>2, <2>2, PrefixMore
      <3> QED BY <1>2, <3>1
    <2> HIDE DEF w
    <2>4. /\ e.op = c.op /\ e.n = c.n /\ e.i = c.i /\ e.touched = c.touched
          /\ e.before = b /\ e.out = w
      BY <1>2 DEF CallFields, b
    <2> HIDE DEF e
    <2>5. Faithful(e, d)
      BY <1>2, <1>5, <2>3, <2>4 DEF Faithful
    <2> QED BY <2>1, <2>4, <2>5 DEF GoesRight, Exact
  <1> QED BY <1>4, <1>5

\* __contains__ finds the value if the list has it.
LEMMA ContainsIs ==
  ASSUME NEW d, Buffer(d), NEW c, Ready(c, d), Prepared(c, d), c.op.m = "contains",
         NEW o, o = __contains__(d, c)
  PROVE  GoesRight(c, d, o)
  <1> DEFINE b == c.before
             v == c.op.value
  <1>1. ListOf(b, d)
    BY ListIs DEF Prepared
  <1>2. /\ DOMAIN c = CallFields /\ c.i \in Nat /\ Reads(c.op) /\ c.n = d.size /\ c.i <= c.n
        /\ (c.i > 0 => c.given = b[c.i]) /\ (\A k \in 1 .. c.i - 1 : b[k] # v) /\ b = Items(d)
    BY DEF Ready, Begun, Reads, Prepared
  <1> HIDE DEF b
  <1>3. d.size \in Nat /\ DOMAIN b = 1 .. d.size /\ \A i \in 1 .. d.size : b[i] = d.data[i]
    BY <1>1 DEF ListOf
  <1>4. CASE c.i > 0 /\ c.given = v
    <2>1. o.end = "returned" /\ o.arr = d /\ o.out = <<v>>
      BY <1>4 DEF __contains__, Return, Ends
    <2>2. c.i \in DOMAIN b /\ v = b[c.i]
      BY <1>2, <1>3, <1>4
    <2>3. v \in Range(b)
      BY <2>2 DEF Range
    <2>4. Items(o.arr) = b
      BY <1>2, <2>1
    <2> QED BY <2>1, <2>3, <2>4 DEF GoesRight, Exact, Refused, Result, Becomes, b
  <1>5. CASE ~(c.i > 0 /\ c.given = v)
    <2>1. \A k \in 1 .. c.i : b[k] # v
      <3> SUFFICES ASSUME NEW k \in 1 .. c.i PROVE b[k] # v
        OBVIOUS
      <3>1. CASE k = c.i
        BY <1>2, <1>5, <3>1
      <3>2. CASE k # c.i
        BY <1>2, <3>2
      <3> QED BY <3>1, <3>2
    <2>2. CASE ~(c.i < d.size)
      <3>1. o.end = "returned" /\ o.arr = d /\ o.out = <<>>
        BY <1>5, <2>2 DEF __contains__, Return, Ends
      <3>2. v \notin Range(b)
        BY <1>2, <1>3, <2>1, <2>2 DEF Range
      <3>3. Items(o.arr) = b
        BY <1>2, <3>1
      <3> QED BY <3>1, <3>2, <3>3 DEF GoesRight, Exact, Refused, Result, Becomes, b
    <2>3. CASE c.i < d.size
      <3> DEFINE u == d.data[c.i + 1]
                 e == [c EXCEPT !.given = u]
      <3>1. o.end = "calls" /\ o.arr = d /\ o.call = e
        BY <1>5, <2>3 DEF __contains__, Calls
      <3>2. u = b[c.i + 1]
        BY <1>2, <1>3, <2>3
      <3> HIDE DEF u
      <3>3. /\ e.given = u /\ e.op = c.op /\ e.n = c.n /\ e.i = c.i /\ e.touched = c.touched
            /\ e.before = b
        BY <1>2 DEF CallFields, b
      <3> HIDE DEF e
      <3>4. Faithful(e, d)
        BY <1>2, <2>1, <2>3, <3>2, <3>3 DEF Faithful
      <3> QED BY <3>1, <3>3, <3>4 DEF GoesRight, Exact
    <2> QED BY <2>2, <2>3
  <1> QED BY <1>4, <1>5

\* filter keeps what is not equal to the value.
LEMMA FilterIs ==
  ASSUME NEW d, Buffer(d), NEW c, Ready(c, d), Prepared(c, d), c.op.m = "filter",
         NEW o, o = filter(d, c)
  PROVE  GoesRight(c, d, o)
  <1> DEFINE b == c.before
             v == c.op.value
             Left(i) == {k \in 1 .. i : b[k] # v}
  <1>1. ListOf(b, d)
    BY ListIs DEF Prepared
  <1>2. /\ DOMAIN c = CallFields /\ c.i \in Nat /\ Reads(c.op) /\ c.n = d.size /\ c.i <= c.n
        /\ Picked(b, Left(c.i), c.out) /\ b = Items(d)
    BY DEF Ready, Begun, Reads, Prepared
  <1> HIDE DEF b
  <1>3. d.size \in Nat /\ DOMAIN b = 1 .. d.size /\ \A i \in 1 .. d.size : b[i] = d.data[i]
    BY <1>1 DEF ListOf
  <1>4. CASE ~(c.i < d.size)
    <2>1. o.end = "returned" /\ o.arr = d /\ o.out = c.out
      BY <1>4 DEF filter, Return, Ends
    <2>2. c.i = d.size
      BY <1>2, <1>3, <1>4
    <2> DEFINE at == {i \in DOMAIN b : b[i] = v}
               S == Left(c.i)
    <2>3. Rest(S, b, at, b)
      BY <1>3, <2>2 DEF Rest
    <2> HIDE DEF at, S
    <2>4. c.out = Without(b, at)
      BY <1>2, <2>3, PickedIs DEF S
    <2>5. Items(o.arr) = b
      BY <1>2, <2>1
    <2> QED BY <2>1, <2>4, <2>5 DEF GoesRight, Exact, Refused, Result, Becomes, b, at
  <1>5. CASE c.i < d.size
    <2> DEFINE u == d.data[c.i + 1]
               e == [c EXCEPT !.given = u, !.moved = FALSE]
    <2>1. o.end = "calls" /\ o.arr = d /\ o.call = e
      BY <1>5 DEF filter, Calls
    <2>2. u = b[c.i + 1]
      BY <1>2, <1>3, <1>5
    <2> HIDE DEF u
    <2>3. /\ e.given = u /\ e.op = c.op /\ e.n = c.n /\ e.i = c.i /\ e.touched = c.touched
          /\ e.before = b /\ e.out = c.out
      BY <1>2 DEF CallFields, b
    <2> HIDE DEF e
    <2>4. Faithful(e, d)
      BY <1>2, <1>5, <2>2, <2>3 DEF Faithful
    <2> QED BY <2>1, <2>3, <2>4 DEF GoesRight, Exact
  <1> QED BY <1>4, <1>5

\* What the array holds when n numbers have been written over it.
LEMMA WrittenBackIs ==
  ASSUME NEW d, Buffer(d), NEW n, n = d.size, NEW s, s \in Numbers(n),
         NEW e, e = [d EXCEPT !.data = Write(@, 0, s)]
  PROVE  Items(e) = s
  <1> DEFINE f == Write(d.data, 0, s)
  <1>1. d \in DArrays /\ d.data \in Seq(Slots) /\ n \in Nat /\ n <= Len(d.data)
    BY BufferHas
  <1>2. Buffer(e)
    <2>1. n <= d.size
      BY <1>1
    <2> QED BY <1>1, <2>1, WriteBackKeeps DEF Kept
  <1>3. s \in Seq(Stored) /\ Len(s) = n
    <2>1. \A i \in 1 .. n : s[i] \in Stored
      BY <1>1, NumbersAre DEF Stored
    <2> HIDE DEF Stored
    <2>2. s = [i \in 1 .. n |-> s[i]] /\ Len(s) = n
      BY DEF Numbers
    <2>3. s \in [1 .. n -> Stored]
      BY <2>1, <2>2
    <2> QED BY <1>1, <2>2, <2>3
  <1>4. Written(f, d.data, 0, s)
    BY <1>1, <1>3, WriteIs
  <1>5. e = [data |-> f, size |-> n]
    <2> HIDE DEF f
    <2>1. e = [d EXCEPT !.data = f]
      BY DEF f
    <2> QED BY <1>1, <2>1, Remade
  <1> HIDE DEF f
  <1>6. e.size = n /\ e.data = f
    BY <1>5
  <1>7. ASSUME NEW i \in 1 .. n PROVE f[i] = s[i]
    <2>1. i \in 1 .. Len(d.data) /\ i \in 0 + 1 .. 0 + n /\ i - 0 = i
      BY <1>1
    <2> QED BY <1>3, <1>4, <2>1 DEF Written
  <1> QED BY <1>2, <1>3, <1>6, <1>7, ItemsBe

\* sort permutes the list, and puts it in order if the comparison is one.
LEMMA SortIs ==
  ASSUME NEW d, Buffer(d), NEW c, Ready(c, d), Prepared(c, d), c.op.m = "sort",
         NEW o, o = sort(d, c)
  PROVE  GoesRight(c, d, o)
  <1> DEFINE b == c.before
             n == c.n
             by == c.op.by
  <1>1. ListOf(b, d)
    BY ListIs DEF Prepared
  <1>2. /\ DOMAIN c = CallFields /\ ~Reads(c.op) /\ n = d.size /\ b = Items(d) /\ by \in Orders
        /\ \/ c.i = 0
           \/ c.i = 1 /\ 1 < n /\ c.out \in Numbers(n)
        /\ (c.i # 0 => c.out = b)
    BY DEF Ready, Begun, Reads, Prepared, IsInvocation, Orders
  <1> HIDE DEF b
  <1>3. n \in Nat /\ DOMAIN b = 1 .. n
    BY <1>1, <1>2 DEF ListOf
  <1>4. CASE n <= 1
    <2>1. o.end = "returned" /\ o.arr = d /\ o.out = <<>>
      BY <1>4 DEF sort, Return, Ends
    <2>2. Items(o.arr) = b
      BY <1>2, <2>1
    <2>3. \A i, j \in DOMAIN b : ~(i < j)
      BY <1>3, <1>4
    <2> QED BY <2>1, <2>2, <2>3 DEF GoesRight, Exact, Refused, Result, Becomes, b
  <1>5. CASE ~(n <= 1) /\ c.i = 0
    <2> DEFINE e == [c EXCEPT !.out = b]
    <2>1. o.end = "calls" /\ o.arr = d /\ o.call = e
      BY <1>2, <1>5 DEF sort, Calls
    <2>2. /\ e.op = c.op /\ e.n = c.n /\ e.i = c.i /\ e.touched = c.touched
          /\ e.before = b /\ e.out = b
      BY <1>2 DEF CallFields, b
    <2> HIDE DEF e
    <2>3. Faithful(e, d)
      BY <1>2, <2>2 DEF Faithful, Reads
    <2> QED BY <2>1, <2>2, <2>3 DEF GoesRight, Exact
  <1>6. CASE ~(n <= 1) /\ c.i # 0
    <2> DEFINE s == argon_qsort(b, 1, n, by)
               e == [d EXCEPT !.data = Write(@, 0, s)]
    <2>1. /\ o = IF s = <<>> \/ n > Len(d.data) THEN Dies(d, "wild")
                 ELSE IF n > d.size THEN Dies(d, "exit")
                 ELSE Return(e, <<>>)
          /\ b \in Numbers(n)
      BY <1>2, <1>6 DEF sort, write_back
    <2>2. \/ s \in Numbers(n) /\ Shuffled(b, s, n, 1, n) /\ (by \in Linear => Sorted(s, 1, n, by))
          \/ s = <<>>
      BY <1>2, <1>3, <1>6, <2>1, QsortSorts
    <2> HIDE DEF s, e
    <2>3. CASE s = <<>>
      BY <2>1, <2>3 DEF Dies, Ends, GoesRight, Exact
    <2>4. CASE s # <<>>
      <3>1. o.end = "returned" /\ o.arr = e /\ o.out = <<>>
        BY <1>2, <1>3, <2>1, <2>4, BufferHas DEF Return, Ends
      <3>2. Items(e) = s
        BY <1>2, <2>2, <2>4, WrittenBackIs DEF e
      <3>3. \A v : Count(v, s) = Count(v, b)
        <4>1. DOMAIN s = 1 .. n
          BY <1>3, <2>2, <2>4, NumbersAre
        <4> QED BY <1>3, <2>2, <2>4, <4>1, ShuffledCounts
      <3>4. by \in {"ascending", "descending"} =>
              \A i, j \in DOMAIN s : i < j => argon_array_compare(s[i], s[j], by) <= 0
        <4>1. DOMAIN s = 1 .. n
          BY <1>3, <2>2, <2>4, NumbersAre
        <4> QED BY <2>2, <2>4, <4>1 DEF Linear, Sorted, Le
      <3>5. Becomes(c.op, b, s, <<>>)
        BY <3>3, <3>4 DEF Becomes
      <3> QED BY <3>1, <3>2, <3>5 DEF GoesRight, Exact, Refused, Result, b
    <2> QED BY <2>3, <2>4
  <1> QED BY <1>4, <1>5, <1>6

\* What the program's iterator has yielded makes the array, or takes the place of the slice.
LEMMA CollectIs ==
  ASSUME NEW d, Buffer(d), d.size <= INT64_MAX, NEW c, Ready(c, d), Prepared(c, d),
         c.op.m \in {"new", "setslice"}, NEW o, o = collect(d, c)
  PROVE  GoesRight(c, d, o)
  <1> DEFINE b == c.before
             op == c.op
  <1>1. ListOf(b, d)
    BY ListIs DEF Prepared
  <1>2. /\ ~Reads(op) /\ c.n = d.size /\ b = Items(d) /\ c.out \in Seq(Stored)
        /\ IsInvocation(op) /\ CallsBack(op) /\ op.from.k = "program"
        /\ c.n \in 0 .. INT64_MAX
    BY DEF Ready, Begun, Reads, Prepared, CallsBack
  <1>3. CASE c.i = 0
    <2>1. o.end = "calls" /\ o.call = c
      BY <1>3 DEF collect, Calls
    <2>2. Faithful(c, d)
      BY <1>2 DEF Faithful
    <2> QED BY <2>1, <2>2 DEF GoesRight, Exact
  <1> HIDE DEF b
  <1>4. CASE c.i # 0 /\ op.m = "new"
    <2>1. o.end = "returned" /\ o.arr = d /\ o.out = c.out
      BY <1>4 DEF collect, Return, Ends
    <2>2. Items(o.arr) = b
      BY <1>2, <2>1
    <2> QED BY <1>2, <1>4, <2>1, <2>2 DEF GoesRight, Exact, Refused, Result, Becomes, b
  <1>5. CASE c.i # 0 /\ op.m = "setslice"
    <2> DEFINE x == c.x
               items == c.out
               n == slice_len(x)
    <2>1. o = assign(d, x, n, items)
      BY <1>5 DEF collect
    <2>2. IsSlice(op.s) /\ x = slice_indices(op.s, d.size) /\ d.size \in 0 .. INT64_MAX
      BY <1>2, <1>5 DEF Ready, Begun, IsInvocation
    <2>3. items \in Seq(Stored) /\ Len(b) = d.size
      BY <1>1, <1>2 DEF ListOf
    <2> HIDE DEF x, items, op
    <2>4. Normalised(x, d.size)
      BY <2>2, IndicesAre
    <2>5. \/ o.end = "returned" /\ Buffer(o.arr) /\ o.out = items /\ Assigned(d, x, n, items, o.arr)
          \/ o.end = "thrown" /\ o.arr = d
          \/ o.end \in {"exit", "huge"}
      BY <2>1, <2>2, <2>3, <2>4, AssignKeeps DEF Kept
    <2> HIDE DEF n
    <2>6. CASE o.end \in {"exit", "huge"}
      BY <2>6 DEF GoesRight, Exact
    <2>7. CASE o.end = "thrown"
      <3>1. Items(o.arr) = b
        BY <1>2, <2>5, <2>7
      <3> QED BY <1>2, <2>7, <3>1 DEF GoesRight, Exact, b, op
    <2>8. CASE o.end = "returned"
      <3> SUFFICES ASSUME ~HugeStep(op, b)
                   PROVE  ~Refused(op, b, o.out) /\ o.out = Result(op, b, o.out)
                          /\ Becomes(op, b, Items(o.arr), o.out)
        BY <2>8 DEF GoesRight, Exact, b, op
      <3>1. ~Steep(op.s, d.size)
        BY <1>5, <2>3, NotSteep DEF op
      <3>2. /\ Items(o.arr) = Replaced(b, op.s, items)
            /\ op.s.step \in {1, ARGON_NULL} \/ Len(items) = Len(Named(op.s, d.size))
            /\ o.out = items
        <4>1. Buffer(o.arr) /\ o.out = items /\ Assigned(d, x, slice_len(x), items, o.arr)
          BY <2>5, <2>8 DEF n
        <4> QED BY <1>2, <2>2, <2>3, <3>1, <4>1, AssignedIs
      <3> QED BY <1>2, <1>5, <2>3, <3>2 DEF Refused, Result, Becomes, op
    <2> QED BY <2>5, <2>6, <2>7, <2>8
  <1> QED BY <1>3, <1>4, <1>5

\* Whichever method goes on.
LEMMA EachIs ==
  ASSUME NEW d, Buffer(d), d.size <= INT64_MAX, NEW c, Ready(c, d), Prepared(c, d)
  PROVE  GoesRight(c, d, GoOn(d, c))
  <1> DEFINE o == GoOn(d, c)
  <1> SUFFICES GoesRight(c, d, o)
    OBVIOUS
  <1>1. c.op.m \in {"map", "filter", "contains", "for", "sort", "new", "setslice"}
    BY DEF Ready, Begun, CallsBack
  <1>2. CASE c.op.m = "map"
    <2>1. o = map(d, c)
      BY <1>2 DEF GoOn
    <2> HIDE DEF o
    <2> QED BY <1>2, <2>1, MapIs
  <1>3. CASE c.op.m = "filter"
    <2>1. o = filter(d, c)
      BY <1>3 DEF GoOn
    <2> HIDE DEF o
    <2> QED BY <1>3, <2>1, FilterIs
  <1>4. CASE c.op.m = "contains"
    <2>1. o = __contains__(d, c)
      BY <1>4 DEF GoOn
    <2> HIDE DEF o
    <2> QED BY <1>4, <2>1, ContainsIs
  <1>5. CASE c.op.m = "for"
    <2>1. o = __next__(d, c)
      BY <1>5 DEF GoOn
    <2> HIDE DEF o
    <2> QED BY <1>5, <2>1, NextIs
  <1>6. CASE c.op.m = "sort"
    <2>1. o = sort(d, c)
      BY <1>6 DEF GoOn
    <2> HIDE DEF o
    <2> QED BY <1>6, <2>1, SortIs
  <1>7. CASE c.op.m \in {"new", "setslice"}
    <2>1. o = collect(d, c)
      BY <1>7 DEF GoOn
    <2> HIDE DEF o
    <2> QED BY <1>7, <2>1, CollectIs
  <1> QED BY <1>1, <1>2, <1>3, <1>4, <1>5, <1>6, <1>7

\* A method that calls the program has not changed the array by itself.
LEMMA CallsUntouched ==
  ASSUME NEW c, DOMAIN c = CallFields, NEW d, NEW o, o = GoOn(d, c), o.end = "calls",
         c.op.m \in {"map", "filter", "contains", "for", "sort", "new", "setslice"}
  PROVE  o.call.touched = c.touched
  <1>1. \A v : [c EXCEPT !.given = v].touched = c.touched
    BY DEF CallFields
  <1>2. \A v : [c EXCEPT !.given = v, !.moved = FALSE].touched = c.touched
    BY DEF CallFields
  <1>3. \A v, w : [c EXCEPT !.given = v, !.out = w].touched = c.touched
    BY DEF CallFields
  <1>4. \A w : [c EXCEPT !.out = w].touched = c.touched
    BY DEF CallFields
  <1>5. CASE c.op.m = "map"
    <2>1. o.call = [c EXCEPT !.given = d.data[c.i + 1]]
      BY <1>5 DEF GoOn, map, Return, Dies, Ends, Calls
    <2> QED BY <1>1, <2>1
  <1>6. CASE c.op.m = "filter"
    <2>1. o.call = [c EXCEPT !.given = d.data[c.i + 1], !.moved = FALSE]
      BY <1>6 DEF GoOn, filter, Return, Ends, Calls
    <2> QED BY <1>2, <2>1
  <1>7. CASE c.op.m = "contains"
    <2>1. o.call = [c EXCEPT !.given = d.data[c.i + 1]]
      BY <1>7 DEF GoOn, __contains__, Return, Ends, Calls
    <2> QED BY <1>1, <2>1
  <1>8. CASE c.op.m = "for"
    <2> DEFINE v == d.data[c.i + 1]
               w == Append(c.out, v)
    <2>1. o.call = [c EXCEPT !.given = v, !.out = w]
      BY <1>8 DEF GoOn, __next__, Return, Ends, Calls
    <2> QED BY <1>3, <2>1
  <1>9. CASE c.op.m = "sort"
    <2>1. o.call = [c EXCEPT !.out = Items(d)]
      <3>1. o = sort(d, c)
        BY <1>9 DEF GoOn
      <3>2. write_back(d, c).end # "calls"
        BY DEF write_back, Return, Dies, Ends
      <3> QED BY <3>1, <3>2 DEF sort, Return, Ends, Calls
    <2> QED BY <1>4, <2>1
  <1>10. CASE c.op.m \in {"new", "setslice"}
    <2>1. o = collect(d, c)
      BY <1>10 DEF GoOn
    <2>2. assign(d, c.x, slice_len(c.x), c.out).end # "calls"
      BY DEF assign, Return, Throw, Dies, Ends
    <2>3. o.call = c
      BY <2>1, <2>2 DEF collect, Return, Ends, Calls
    <2> QED BY <2>3
  <1> QED BY <1>5, <1>6, <1>7, <1>8, <1>9, <1>10

\* Whatever the program answers, the method can go on with the list as it should.
LEMMA AnswerPrepares ==
  ASSUME NEW d, Buffer(d), NEW c, Calling(c, d), ~c.touched, Faithful(c, d),
         NEW e \in Answered(d, c)
  PROVE  Prepared(e, d)
  <1> DEFINE b == c.before
             v == c.op.value
             Left(i) == {k \in 1 .. i : b[k] # v}
             next == [c EXCEPT !.i = @ + 1]
             Same(a) == /\ a.op = c.op /\ a.n = c.n /\ a.before = b /\ a.given = c.given
  <1>1. /\ DOMAIN c = CallFields /\ c.i \in Nat /\ c.n \in Int /\ b = Items(d) /\ c.n = d.size
        /\ (Reads(c.op) => c.i < c.n)
    BY Limits DEF Calling, Begun, Faithful
  <1>2. Same(next) /\ next.i = c.i + 1 /\ next.out = c.out
    BY <1>1 DEF CallFields
  <1>3. ASSUME NEW w
        PROVE  LET a == [next EXCEPT !.out = w] IN Same(a) /\ a.i = c.i + 1 /\ a.out = w
    BY <1>1, <1>2 DEF CallFields
  <1>4. ASSUME NEW w
        PROVE  LET a == [c EXCEPT !.out = w] IN Same(a) /\ a.i = c.i /\ a.out = w
    BY <1>1 DEF CallFields
  <1>5. ListOf(b, d)
    BY <1>1, ListIs
  <1> HIDE DEF next
  <1>6. CASE c.op.m = "map"
    <2> DEFINE w == Append(c.out, c.given)
    <2>1. e = [next EXCEPT !.out = w]
      BY <1>2, <1>6 DEF Answered, next
    <2>2. c.out = Prefix(b, c.i) /\ c.given = b[c.i + 1] /\ c.i < c.n
      BY <1>1, <1>6 DEF Faithful, Reads
    <2>3. w = Prefix(b, c.i + 1)
      <3>1. Prefix(b, c.i + 1) = Append(Prefix(b, c.i), c.given)
        BY <1>1, <2>2, PrefixMore
      <3> QED BY <2>2, <3>1
    <2> HIDE DEF w
    <2>4. Same(e) /\ e.i = c.i + 1 /\ e.out = w
      BY <1>3, <2>1
    <2>5. c.i + 1 <= c.n
      BY <1>1, <2>2
    <2> QED BY <1>1, <1>6, <2>3, <2>4, <2>5 DEF Prepared
  <1>7. CASE c.op.m = "filter"
    <2> DEFINE S == Left(c.i)
               p == c.i + 1
    <2>1. Picked(b, S, c.out) /\ c.given = b[p] /\ c.i < c.n /\ ~c.moved
      BY <1>1, <1>7 DEF Faithful, Reads, Calling
    <2>2. c.i + 1 <= c.n
      BY <1>1, <2>1
    <2>3. CASE c.given = v
      <3>1. e = next
        BY <1>7, <2>3 DEF Answered, next
      <3>2. Left(c.i + 1) = S
        <4> SUFFICES ASSUME NEW k \in 1 .. c.i + 1, b[k] # v PROVE k \in 1 .. c.i
          BY <1>1
        <4>1. k # c.i + 1
          BY <2>1, <2>3
        <4> QED BY <1>1, <4>1
      <3> HIDE DEF S
      <3>3. Same(e) /\ e.i = c.i + 1 /\ e.out = c.out
        BY <1>2, <3>1
      <3>4. Picked(b, Left(c.i + 1), e.out)
        BY <2>1, <3>2, <3>3
      <3> QED BY <1>1, <1>7, <2>2, <3>3, <3>4 DEF Prepared
    <2>4. CASE c.given # v
      <3> DEFINE u == Reread(d, c)
                 w == Append(c.out, u)
                 T == Left(c.i + 1)
      <3>1. e = [next EXCEPT !.out = w]
        BY <1>2, <1>7, <2>4 DEF Answered, next
      <3>2. u = b[p]
        <4>1. u = d.data[p]
          BY <1>1, <2>1, BufferHas DEF Reread
        <4>2. p \in 1 .. d.size
          BY <1>1, <2>1
        <4> QED BY <1>5, <4>1, <4>2 DEF ListOf
      <3>3. T = S \cup {p} /\ S \subseteq Int /\ p \in Int /\ \A q \in S : q < p
        BY <1>1, <2>1, <2>4
      <3> HIDE DEF S, T, p, u
      <3>4. Picked(b, T, w)
        BY <2>1, <3>2, <3>3, PickedMore
      <3> HIDE DEF w
      <3>5. Same(e) /\ e.i = c.i + 1 /\ e.out = w
        BY <1>3, <3>1
      <3>6. Picked(b, Left(c.i + 1), e.out)
        BY <3>4, <3>5 DEF T
      <3> QED BY <1>1, <1>7, <2>2, <3>5, <3>6 DEF Prepared
    <2> QED BY <2>3, <2>4
  <1>8. CASE c.op.m = "contains"
    <2>1. e = next
      BY <1>8 DEF Answered, next
    <2>2. c.given = b[c.i + 1] /\ c.i + 1 <= c.n /\ \A k \in 1 .. c.i : b[k] # v
      BY <1>1, <1>8 DEF Faithful, Reads
    <2>3. Same(e) /\ e.i = c.i + 1 /\ e.i - 1 = c.i
      BY <1>1, <1>2, <2>1
    <2> QED BY <1>1, <1>8, <2>2, <2>3 DEF Prepared
  <1>9. CASE c.op.m = "for"
    <2>1. e = next
      BY <1>9 DEF Answered, next
    <2>2. c.out = Prefix(b, c.i + 1) /\ c.i + 1 <= c.n
      BY <1>1, <1>9 DEF Faithful, Reads
    <2> QED BY <1>1, <1>2, <1>9, <2>1, <2>2 DEF Prepared
  <1>10. CASE c.op.m = "sort"
    <2>1. e = next
      BY <1>10 DEF Answered, next
    <2>2. c.out = b
      BY <1>10 DEF Faithful
    <2> QED BY <1>1, <1>2, <1>10, <2>1, <2>2 DEF Prepared, Reads
  <1>11. CASE c.op.m \in {"new", "setslice"}
    <2>1. Same(e)
      <3>1. CASE e = next
        BY <1>2, <3>1
      <3>2. CASE e # next
        <4>1. PICK u \in Values : e = [c EXCEPT !.out = Append(@, u)]
          BY <1>11, <3>2 DEF Answered, next
        <4> DEFINE w == Append(c.out, u)
        <4>2. e = [c EXCEPT !.out = w]
          BY <4>1
        <4> HIDE DEF w
        <4> QED BY <1>4, <4>2
      <3> QED BY <3>1, <3>2
    <2> QED BY <1>1, <1>11, <2>1 DEF Prepared, Reads
  <1> QED BY <1>1, <1>6, <1>7, <1>8, <1>9, <1>10, <1>11 DEF Calling, Begun, CallsBack

\* Every method that has ended did what it does to a list, and the one that waits has begun to.
ExactSoFar ==
  /\ UndisturbedIsExactBut
  /\ Alive /\ call # Idle /\ ~call.touched => Faithful(call, arr)

\* What the property says of a method that has ended is what is known of it.
LEMMA EndsExact ==
  ASSUME NEW op, NEW b, NEW o, ~last'.touched => Exact(op, b, o), last'.op = op,
         last'.before = b, last'.out = o.out, last'.end = o.end, arr' = o.arr
  PROVE  UndisturbedIsExactBut'
  BY DEF UndisturbedIsExactBut, Exact

\* A step by which a method goes on, or ends, keeps the invariant.
LEMMA StepExact ==
  ASSUME Alive, ExactSoFar, NEW c, NEW o, GoesOn(c, arr, o), ~c.touched => GoesRight(c, arr, o),
         o.end = "calls" => o.call.touched = c.touched, Step(c, o)
  PROVE  ExactSoFar'
  <1>1. CASE o.end = "calls"
    <2>1. o.arr = arr
      BY <1>1 DEF GoesOn
    <2>2. arr' = arr /\ call' = o.call /\ last' = last
      BY <1>1, <2>1 DEF Step
    <2>3. ~call'.touched => Faithful(call', arr')
      BY <1>1, <2>2 DEF GoesRight
    <2>4. UndisturbedIsExactBut'
      BY <2>2 DEF ExactSoFar, UndisturbedIsExactBut
    <2> QED BY <2>3, <2>4 DEF ExactSoFar
  <1>2. CASE o.end # "calls"
    <2>1. /\ call' = Idle /\ arr' = o.arr
          /\ last'.op = c.op /\ last'.before = c.before /\ last'.out = o.out /\ last'.end = o.end
          /\ last'.touched = c.touched
      BY <1>2 DEF Step
    <2>2. UndisturbedIsExactBut'
      BY <2>1, EndsExact DEF GoesRight
    <2> QED BY <2>1, <2>2 DEF ExactSoFar
  <1> QED BY <1>1, <1>2

\* So does a method that does not call the program.
LEMMA SimpleExact ==
  ASSUME BufferInv, ExactSoFar, NEW op, IsInvocation(op), Simple(op)
  PROVE  ExactSoFar'
  <1> DEFINE o == Run(op, arr)
  <1>1. /\ ~CallsBack(op) /\ Buffer(arr) /\ arr.size <= INT64_MAX
        /\ (call # Idle => Calling(call, arr))
    BY DEF Simple, BufferInv, IsArray
  <1>2. Exact(op, Items(arr), o)
    BY <1>1, RunExact
  <1>3. /\ arr' = o.arr /\ last' = Report(op, Items(arr), o)
        /\ IF call = Idle THEN UNCHANGED call
           ELSE \E moves \in {FALSE, Len(o.arr.data) # Len(arr.data)} :
                  call' = [call EXCEPT !.moved = @ \/ moves, !.touched = TRUE,
                                       !.shrunk = @ \/ o.arr.size < arr.size,
                                       !.held = @ \cup Range(Items(o.arr))]
    BY DEF Simple
  <1> HIDE DEF o
  <1>4. last'.op = op /\ last'.out = o.out /\ last'.end = o.end /\ last'.before = Items(arr)
    BY <1>3 DEF Report
  <1>5. UndisturbedIsExactBut'
    BY <1>2, <1>3, <1>4, EndsExact
  <1>6. call' = Idle \/ call'.touched
    <2>1. CASE call = Idle
      BY <1>3, <2>1
    <2>2. CASE call # Idle
      <3>1. DOMAIN call = CallFields
        BY <1>1, <2>2 DEF Calling, Begun
      <3>2. PICK moves \in {FALSE, Len(o.arr.data) # Len(arr.data)} :
              call' = [call EXCEPT !.moved = @ \/ moves, !.touched = TRUE,
                                   !.shrunk = @ \/ o.arr.size < arr.size,
                                   !.held = @ \cup Range(Items(o.arr))]
        BY <1>3, <2>2
      <3> QED BY <3>1, <3>2 DEF CallFields
    <2> QED BY <2>1, <2>2
  <1> QED BY <1>5, <1>6 DEF ExactSoFar

\* So does the beginning of one that does.
LEMMA BeginExact ==
  ASSUME BufferInv, ExactSoFar, NEW op, IsInvocation(op), Begin(op)
  PROVE  ExactSoFar'
  <1> DEFINE b == Items(arr)
             c == [op |-> op, n |-> arr.size, i |-> 0, given |-> Nowhere, moved |-> FALSE,
                   out |-> <<>>,
                   x |-> IF op.m = "setslice" THEN slice_indices(op.s, arr.size) ELSE ARGON_NULL,
                   before |-> Items(arr), held |-> Range(Items(arr)),
                   touched |-> FALSE, shrunk |-> FALSE]
             o == GoOn(arr, c)
  <1>1. Alive /\ CallsBack(op) /\ Buffer(arr) /\ arr.size <= INT64_MAX
    BY DEF Begin, BufferInv, IsArray
  <1>2. Step(c, o)
    BY DEF Begin
  <1>3. /\ DOMAIN c = CallFields /\ c.op = op /\ c.n = arr.size /\ c.i = 0 /\ c.out = <<>>
        /\ c.before = b /\ c.held = Range(Items(arr)) /\ c.touched = FALSE
        /\ (op.m = "setslice" => c.x = slice_indices(op.s, arr.size))
    BY DEF CallFields
  <1> HIDE DEF c
  <1>4. Ready(c, arr)
    <2>1. /\ c.held = Held(arr) /\ c.held \subseteq Stored /\ arr.size \in 0 .. INT64_MAX
          /\ arr.size <= arr.size
      BY <1>1, <1>3, ItemsAre, BufferHas, Limits
    <2>2. c.out \in Seq(Slots) /\ c.out \in Seq(Stored) /\ Range(c.out) \subseteq Delivered(c)
      <3> HIDE DEF Slots, Stored
      <3> QED BY <1>3 DEF Range
    <2>3. Begun(c, arr)
      BY <1>1, <1>3, <2>1, <2>2 DEF Begun
    <2> QED BY <1>3, <2>1, <2>3 DEF Ready
  <1>5. Prepared(c, arr)
    <2> HIDE DEF b
    <2>1. <<>> = Prefix(b, 0)
      BY DEF Prefix
    <2>2. Picked(b, {k \in 1 .. 0 : b[k] # op.value}, <<>>)
      <3>1. {k \in 1 .. 0 : b[k] # op.value} = {}
        OBVIOUS
      <3> QED BY <3>1, PickedNone
    <2>3. 0 <= arr.size
      BY <1>1, BufferHas
    <2> QED BY <1>3, <2>1, <2>2, <2>3 DEF Prepared, b
  <1>6. GoesOn(c, arr, o) /\ GoesRight(c, arr, o)
    BY <1>1, <1>4, <1>5, EachGoes, EachIs
  <1>7. o.end = "calls" => o.call.touched = c.touched
    BY <1>1, <1>3, CallsUntouched DEF CallsBack
  <1> HIDE DEF o
  <1> QED BY <1>1, <1>2, <1>6, <1>7, StepExact

\* So does the program's answer.
LEMMA AnswerExact ==
  ASSUME BufferInv, ExactSoFar, Answer
  PROVE  ExactSoFar'
  <1>1. Alive /\ call # Idle /\ Buffer(arr) /\ arr.size <= INT64_MAX /\ Calling(call, arr)
    BY DEF Answer, BufferInv, IsArray
  <1>2. PICK c \in Answered(arr, call) : Step(c, GoOn(arr, c))
    BY DEF Answer
  <1>3. Ready(c, arr) /\ c.touched = call.touched
    BY <1>1, AnsweredIs
  <1>4. GoesOn(c, arr, GoOn(arr, c))
    BY <1>1, <1>3, EachGoes
  <1>5. ~c.touched => GoesRight(c, arr, GoOn(arr, c))
    <2> SUFFICES ASSUME ~c.touched PROVE GoesRight(c, arr, GoOn(arr, c))
      OBVIOUS
    <2>1. Prepared(c, arr)
      BY <1>1, <1>3, AnswerPrepares DEF ExactSoFar
    <2> QED BY <1>1, <1>3, <2>1, EachIs
  <1>6. GoOn(arr, c).end = "calls" => GoOn(arr, c).call.touched = c.touched
    BY <1>3, CallsUntouched DEF Ready, Begun, CallsBack
  <1> QED BY <1>1, <1>2, <1>4, <1>5, <1>6, StepExact

\* So does an exception of the program, which leaves the list as it was.
LEMMA RaiseExact ==
  ASSUME BufferInv, ExactSoFar, Raise
  PROVE  ExactSoFar'
  <1> DEFINE o == Throw(arr)
  <1>1. Alive /\ call # Idle /\ Buffer(arr) /\ Calling(call, arr) /\ Step(call, o)
    BY DEF Raise, BufferInv, IsArray
  <1>2. o.end = "thrown" /\ o.arr = arr /\ Range(o.out) = {}
    BY DEF Throw, Ends, Range
  <1>3. GoesOn(call, arr, o)
    <2> HIDE DEF o
    <2> QED BY <1>1, <1>2, KeptAsIs DEF GoesOn
  <1>4. ~call.touched => GoesRight(call, arr, o)
    <2>1. CallsBack(call.op)
      BY <1>1 DEF Calling, Begun
    <2>2. ~call.touched => call.before = Items(arr)
      BY <1>1 DEF ExactSoFar, Faithful
    <2> HIDE DEF o
    <2> QED BY <1>2, <2>1, <2>2 DEF GoesRight, Exact
  <1> HIDE DEF o
  <1> QED BY <1>1, <1>2, <1>3, <1>4, StepExact

\* Nothing has ended before the first call.
LEMMA InitExact ==
  ASSUME Init PROVE ExactSoFar
  <1>1. call = Idle /\ last.op.m = "none"
    BY DEF Init, Report, Idle
  <1> QED BY <1>1 DEF ExactSoFar, UndisturbedIsExactBut

\* Every step keeps the invariant.
LEMMA NextExact ==
  ASSUME BufferInv, ExactSoFar, [Next]_vars PROVE ExactSoFar'
  <1>1. CASE UNCHANGED vars
    BY <1>1 DEF vars, ExactSoFar, Alive, UndisturbedIsExactBut
  <1>2. CASE \E op \in Methods \cup Later : Simple(op) \/ Begin(op)
    <2>1. PICK op \in Methods \cup Later : Simple(op) \/ Begin(op)
      BY <1>2
    <2>2. IsInvocation(op)
      BY ArrayAssumption
    <2> QED BY <2>1, <2>2, SimpleExact, BeginExact
  <1>3. CASE Answer
    BY <1>3, AnswerExact
  <1>4. CASE Raise
    BY <1>4, RaiseExact
  <1> QED BY <1>1, <1>2, <1>3, <1>4 DEF Next

\* A method during which the program does not change the array does what the same method does to
\* a list, but for the exceptions that the property names.
THEOREM ArraysAreExact == Spec => []UndisturbedIsExactBut
  <1>1. Init => BufferInv /\ ExactSoFar
    BY InitKeeps, InitExact
  <1>2. BufferInv /\ ExactSoFar /\ [Next]_vars => (BufferInv /\ ExactSoFar)'
    BY NextKeeps, NextExact
  <1>3. ExactSoFar => UndisturbedIsExactBut
    BY DEF ExactSoFar
  <1> QED BY <1>1, <1>2, <1>3, PTL DEF Spec

==============================================================================
