---------------------------- MODULE NumbersProofs ----------------------------
(* Theorems about the numbers, for every width of the integers, all modules with their  *)
(* literals, and numbers of any size: NormalForm, ExactBut, OrderBut and               *)
(* LoadsWhatIsWritten are invariants. An induction over the natural numbers is done     *)
(* through the least element of a set, as a set can be quantified over.                 *)
EXTENDS Numbers, SequenceTheorems, WellFoundedInduction, TLAPS

\* A set of natural numbers that is not empty has a least element.
LEMMA Least ==
  ASSUME NEW S \in SUBSET Nat, S # {}
  PROVE  \E m \in S : \A n \in S : m <= n
  <1>1. OpToRel(<, Nat) = {ss \in Nat \X Nat : ss[1] < ss[2]}
    BY Zenon DEF OpToRel
  <1>2. PICK m \in S : \A n \in S : <<n, m>> \notin OpToRel(<, Nat)
    BY NatLessThanWellFounded, WFMin, Zenon
  <1>3. \A n \in S : ~(n < m)
    BY <1>1, <1>2
  <1> QED BY <1>3

\* Induction: a set with 0, and with the successor of each of its numbers, has all of them.
LEMMA Induction ==
  ASSUME NEW S, 0 \in S, \A n \in Nat : n \in S => n + 1 \in S
  PROVE  \A n \in Nat : n \in S
  <1> SUFFICES ASSUME NEW k \in Nat, k \notin S PROVE FALSE
    OBVIOUS
  <1>1. PICK m \in Nat \ S : \A n \in Nat \ S : m <= n
    BY Least, Nat \ S # {}, Nat \ S \subseteq Nat
  <1>2. m # 0
    BY <1>1
  <1>3. m - 1 \in Nat /\ m - 1 \in S
    BY <1>1, <1>2
  <1> QED BY <1>1, <1>3

\* f starts with c and goes on with g.
Goes(f, S, c, g) == f \in [Nat -> S] /\ f[0] = c /\ \A n \in Nat : f[n + 1] = g[<<n, f[n]>>]
Rounds(g, S) == \A i \in Nat : \A v \in S : g[<<i, v>>] \in S

\* What starts with c and goes on with g is a function.
LEMMA Recursion ==
  ASSUME NEW S, NEW c \in S, NEW g, Rounds(g, S)
  PROVE  \E f : Goes(f, S, c, g)
  <1> USE DEF Rounds
  <1> DEFINE From(h, n) == h[0] = c /\ \A i \in 0 .. n - 1 : h[i + 1] = g[<<i, h[i]>>]
             Up(n) == {h \in [0 .. n -> S] : From(h, n)}
             N == {n \in Nat : Up(n) # {}}
  <1>1. \A n \in Nat : n \in N
    <2>1. 0 \in N
      <3>1. [i \in 0 .. 0 |-> c] \in Up(0)
        OBVIOUS
      <3> QED BY <3>1
    <2>2. ASSUME NEW n \in Nat, n \in N PROVE n + 1 \in N
      <3>1. PICK h \in [0 .. n -> S] : From(h, n)
        BY <2>2
      <3> DEFINE k == [i \in 0 .. n + 1 |-> IF i = n + 1 THEN g[<<n, h[n]>>] ELSE h[i]]
      <3>2. k \in [0 .. n + 1 -> S]
        BY <3>1
      <3>3. \A i \in 0 .. n : k[i] = h[i]
        OBVIOUS
      <3>4. k[n + 1] = g[<<n, h[n]>>]
        OBVIOUS
      <3>5. k[0] = c
        BY <3>1, <3>3
      <3>6. ASSUME NEW i \in 0 .. n PROVE k[i + 1] = g[<<i, k[i]>>]
        <4>1. CASE i = n
          BY <4>1, <3>3, <3>4
        <4>2. CASE i # n
          <5>1. i \in 0 .. n - 1 /\ i + 1 \in 0 .. n
            BY <4>2
          <5> QED BY <5>1, <3>1, <3>3
        <4> QED BY <4>1, <4>2
      <3> HIDE DEF k
      <3>7. (n + 1) - 1 = n
        OBVIOUS
      <3>8. From(k, n + 1)
        BY <3>5, <3>6, <3>7
      <3> QED BY <3>2, <3>8
    <2> HIDE DEF N
    <2> QED BY <2>1, <2>2, Induction
  <1>2. ASSUME NEW n \in Nat, NEW h, From(h, n), NEW m \in Nat, NEW k, From(k, m), n <= m
        PROVE  h[n] = k[n]
    <2> DEFINE T == {i \in Nat : i <= n => h[i] = k[i]}
    <2>1. 0 \in T
      BY <1>2
    <2>2. ASSUME NEW i \in Nat, i \in T PROVE i + 1 \in T
      <3> SUFFICES ASSUME i + 1 <= n PROVE h[i + 1] = k[i + 1]
        OBVIOUS
      <3>1. h[i] = k[i] /\ i \in 0 .. n - 1 /\ i \in 0 .. m - 1
        BY <2>2, <1>2
      <3> QED BY <3>1, <1>2
    <2>3. n \in T
      <3> HIDE DEF T
      <3> QED BY <2>1, <2>2, Induction
    <2> QED BY <2>3
  <1> DEFINE H(n) == CHOOSE h : h \in Up(n)
  <1>3. \A n \in Nat : H(n) \in [0 .. n -> S] /\ From(H(n), n)
    <2> SUFFICES ASSUME NEW n \in Nat PROVE H(n) \in [0 .. n -> S] /\ From(H(n), n)
      OBVIOUS
    <2>1. Up(n) # {}
      BY <1>1
    <2>2. H(n) \in Up(n)
      <3> HIDE DEF Up
      <3> QED BY <2>1
    <2> HIDE DEF H
    <2> QED BY <2>2
  <1> DEFINE f == [n \in Nat |-> H(n)[n]]
  <1> HIDE DEF H
  <1>4. f \in [Nat -> S]
    BY <1>3
  <1>5. f[0] = c
    BY <1>3
  <1>6. ASSUME NEW n \in Nat PROVE f[n + 1] = g[<<n, f[n]>>]
    <2>1. f[n] = H(n)[n] /\ f[n + 1] = H(n + 1)[n + 1]
      OBVIOUS
    <2>2. From(H(n), n) /\ From(H(n + 1), n + 1)
      BY <1>3
    <2>3. H(n)[n] = H(n + 1)[n]
      <3> HIDE DEF From
      <3> QED BY <2>2, <1>2
    <2>4. H(n + 1)[n + 1] = g[<<n, H(n + 1)[n]>>]
      BY <2>2
    <2> QED BY <2>1, <2>3, <2>4
  <1> HIDE DEF f
  <1> QED BY <1>4, <1>5, <1>6 DEF Goes

\* What Power computes: a round of its recursion.
LEMMA PowerRounds ==
  ASSUME NEW b \in Int
  PROVE  /\ Power(b, 0) = 1
         /\ \A n \in Nat : Power(b, n) \in Int /\ Power(b, n + 1) = b * Power(b, n)
  <1> DEFINE F(to) == [i \in Nat |-> IF i = 0 THEN 1 ELSE b * to[i - 1]]
             to == CHOOSE t : t = F(t)
             g == [p \in Nat \X Int |-> b * p[2]]
  <1>1. PICK f : f \in [Nat -> Int] /\ f[0] = 1 /\ \A n \in Nat : f[n + 1] = g[<<n, f[n]>>]
    <2>1. Rounds(g, Int)
      BY DEF Rounds
    <2>2. \E f : Goes(f, Int, 1, g)
      <3> HIDE DEF g
      <3> QED BY <2>1, Recursion, 1 \in Int
    <2> QED BY <2>2 DEF Goes
  <1>2. f = F(f)
    <2>1. \A n \in Nat : f[n + 1] = b * f[n]
      BY <1>1
    <2>2. ASSUME NEW i \in Nat, i # 0 PROVE f[i] = b * f[i - 1]
      BY <2>1, <2>2, i - 1 \in Nat, (i - 1) + 1 = i
    <2> QED BY <1>1, <2>2
  <1>3. to = F(to)
    <2> HIDE DEF F
    <2> QED BY <1>2
  <1>4. \A n \in Nat : Power(b, n) = to[n]
    BY DEF Power
  <1> HIDE DEF to
  <1>5. to[0] = 1 /\ \A n \in Nat : to[n + 1] = b * to[n]
    BY <1>3
  <1>6. \A n \in Nat : to[n] \in Int
    <2> DEFINE S == {n \in Nat : to[n] \in Int}
    <2>1. 0 \in S /\ \A n \in Nat : n \in S => n + 1 \in S
      BY <1>5
    <2>2. \A n \in Nat : n \in S
      <3> HIDE DEF S
      <3> QED BY <2>1, Induction
    <2> QED BY <2>2
  <1> QED BY <1>4, <1>5, <1>6

\* Division with a remainder.
LEMMA Division ==
  ASSUME NEW n \in Int, NEW d \in Nat \ {0}
  PROVE  n \div d \in Int /\ n % d \in 0 .. d - 1 /\ n = d * (n \div d) + (n % d)
  OBVIOUS

\* What can be cancelled.
LEMMA Cancel ==
  ASSUME NEW a \in Int, NEW b \in Int, NEW c \in Int \ {0}, c * a = c * b
  PROVE  a = b
  OBVIOUS

\* A quotient and a remainder are determined by the number they make.
LEMMA DivUnique ==
  ASSUME NEW n \in Int, NEW d \in Nat \ {0}, NEW q \in Int, NEW r \in 0 .. d - 1, n = d * q + r
  PROVE  n % d = r /\ n \div d = q
  <1> DEFINE e == n \div d
             t == n % d
  <1>1. e \in Int /\ t \in 0 .. d - 1 /\ n = d * e + t
    BY Division
  <1> HIDE DEF e, t
  <1>2. d * (e - q) = r - t
    BY <1>1
  <1>3. ~(e - q >= 1) /\ ~(e - q <= -1)
    <2>1. ASSUME e - q >= 1 PROVE FALSE
      <3>1. d * (e - q) >= d
        BY <1>1, <2>1
      <3> QED BY <1>1, <1>2, <3>1
    <2>2. ASSUME e - q <= -1 PROVE FALSE
      <3>1. d * (e - q) <= -d
        BY <1>1, <2>2
      <3> QED BY <1>1, <1>2, <3>1
    <2> QED BY <2>1, <2>2
  <1>4. e = q
    BY <1>1, <1>3
  <1>5. t = r
    BY <1>1, <1>4
  <1> QED BY <1>4, <1>5 DEF e, t

\* A multiple leaves nothing, and only a multiple does.
LEMMA Multiple ==
  ASSUME NEW n \in Int, NEW d \in Nat \ {0}
  PROVE  n % d = 0 <=> \E q \in Int : n = d * q
  <1>1. ASSUME n % d = 0 PROVE \E q \in Int : n = d * q
    <2> DEFINE e == n \div d
    <2>1. e \in Int /\ n = d * e + 0
      BY <1>1, Division
    <2> HIDE DEF e
    <2>2. n = d * e
      BY <2>1
    <2> QED BY <2>1, <2>2
  <1>2. ASSUME NEW q \in Int, n = d * q PROVE n % d = 0
    <2>1. n = d * q + 0 /\ 0 \in 0 .. d - 1
      BY <1>2
    <2> QED BY <2>1, DivUnique
  <1> QED BY <1>1, <1>2

-------------------------------------------------------------------------------
(* Rationals in lowest terms *)

\* There is a lowest denominator.
LEMMA LowestDenIs ==
  ASSUME NEW n \in Int, NEW d \in Nat \ {0}
  PROVE  /\ LowestDen(n, d) \in 1 .. d
         /\ Denominates(LowestDen(n, d), n, d)
         /\ \A f \in 1 .. LowestDen(n, d) - 1 : ~Denominates(f, n, d)
  <1> DEFINE S == {e \in 1 .. d : Denominates(e, n, d)}
  <1>1. d \in S
    <2>1. n * d = d * n
      OBVIOUS
    <2> QED BY <2>1, Multiple, n * d \in Int DEF Denominates
  <1>2. PICK e \in S : \A f \in S : e <= f
    BY <1>1, Least, S \subseteq Nat, S # {}
  <1>3. \A f \in 1 .. e - 1 : f \in 1 .. d /\ ~(e <= f)
    BY <1>2
  <1>4. e \in 1 .. d /\ Denominates(e, n, d) /\ \A f \in 1 .. e - 1 : ~Denominates(f, n, d)
    BY <1>2, <1>3
  <1>5. \E g \in 1 .. d : Denominates(g, n, d) /\ \A f \in 1 .. g - 1 : ~Denominates(f, n, d)
    BY <1>4
  <1> QED BY <1>5 DEF LowestDen

\* Common factors go: a rational that is made of n and d is n / d, in lowest terms.
LEMMA Canonical ==
  ASSUME NEW n \in Int, NEW d \in Int \ {0}, NEW q, q = mpq_canonicalize(n, d)
  PROVE  InLowestTerms(q) /\ q.num * d = n * q.den
  <1> DEFINE m == IF d < 0 THEN -n ELSE n
             D == Abs(d)
             e == LowestDen(m, D)
  <1>1. m \in Int /\ D \in Nat \ {0} /\ ((m = n /\ D = d) \/ (m = -n /\ D = -d))
    BY DEF Abs
  <1>2. q.num = (m * e) \div D /\ q.den = e
    BY DEF mpq_canonicalize
  <1> HIDE DEF m, D
  <1>3. /\ e \in 1 .. D
        /\ Denominates(e, m, D)
        /\ \A f \in 1 .. e - 1 : ~Denominates(f, m, D)
    BY <1>1, LowestDenIs
  <1> HIDE DEF e
  <1>4. e \in Nat \ {0} /\ m * e \in Int
    BY <1>1, <1>3
  <1>5. q.num \in Int /\ m * e = D * q.num
    <2> DEFINE p == m * e
    <2>1. p \in Int /\ p % D = 0
      BY <1>3, <1>4 DEF Denominates
    <2>2. q.num = p \div D
      BY <1>2
    <2> HIDE DEF p
    <2>3. q.num \in Int /\ p = D * q.num
      BY <1>1, <2>1, <2>2, Division
    <2> QED BY <2>3 DEF p
  <1>6. q.num * d = n * q.den
    <2>1. CASE m = n /\ D = d
      BY <2>1, <1>2, <1>5, <1>4
    <2>2. CASE m = -n /\ D = -d
      <3>1. (-n) * e = (-d) * q.num
        BY <2>2, <1>5
      <3> QED BY <3>1, <1>2, <1>5, <1>4
    <2> QED BY <1>1, <2>1, <2>2
  <1>7. ASSUME NEW f \in 1 .. e - 1, Denominates(f, q.num, e) PROVE FALSE
    <2>1. PICK k \in Int : q.num * f = e * k
      BY <1>7, <1>4, <1>5, Multiple, q.num * f \in Int DEF Denominates
    <2>2. e * (m * f) = e * (D * k)
      <3>1. e * (m * f) = (m * e) * f
        BY <1>1, <1>4
      <3>2. (D * q.num) * f = D * (q.num * f)
        BY <1>1, <1>5
      <3>3. D * (e * k) = e * (D * k)
        BY <1>1, <1>4
      <3> QED BY <3>1, <3>2, <3>3, <2>1, <1>5
    <2>3. m * f \in Int /\ D * k \in Int /\ e \in Int \ {0}
      BY <1>1, <1>4
    <2>4. m * f = D * k
      BY <2>2, <2>3, Cancel
    <2>5. (m * f) % D = 0
      BY <2>3, <2>4, <1>1, Multiple
    <2> QED BY <2>5, <1>3 DEF Denominates
  <1> QED BY <1>2, <1>4, <1>5, <1>6, <1>7 DEF InLowestTerms

\* Of two equal numbers, one in lowest terms has no greater denominator.
LEMMA NoLowerDen ==
  ASSUME NEW x, NEW y, InLowestTerms(x), InLowestTerms(y), x.num * y.den = y.num * x.den
  PROVE  ~(x.den < y.den)
  <1> SUFFICES ASSUME x.den < y.den PROVE FALSE
    OBVIOUS
  <1>1. y.num * x.den = y.den * x.num
    BY DEF InLowestTerms
  <1>2. (y.num * x.den) % y.den = 0
    BY <1>1, Multiple, y.num * x.den \in Int DEF InLowestTerms
  <1>3. x.den \in 1 .. y.den - 1
    BY DEF InLowestTerms
  <1> QED BY <1>2, <1>3 DEF InLowestTerms, Denominates

\* A number has one form in lowest terms.
LEMMA OneForm ==
  ASSUME NEW x, NEW y, InLowestTerms(x), InLowestTerms(y), x.num * y.den = y.num * x.den
  PROVE  x.num = y.num /\ x.den = y.den
  <1>1. ~(x.den < y.den)
    BY NoLowerDen
  <1>2. ~(y.den < x.den)
    BY NoLowerDen
  <1>3. x.den = y.den
    BY <1>1, <1>2 DEF InLowestTerms
  <1>4. x.den * x.num = x.den * y.num
    BY <1>3 DEF InLowestTerms
  <1> QED BY <1>3, <1>4, Cancel, x.den \in Int \ {0} DEF InLowestTerms

\* An integer is in lowest terms.
LEMMA IntegerIs ==
  ASSUME NEW x, x.num \in Int, x.den = 1
  PROVE  InLowestTerms(x)
  <1>1. 1 .. x.den - 1 = {}
    OBVIOUS
  <1> QED BY <1>1 DEF InLowestTerms

\* What is in lowest terms and equals an integer is that integer.
LEMMA AnInteger ==
  ASSUME NEW x, InLowestTerms(x), NEW n \in Int, x.num = n * x.den
  PROVE  x.num = n /\ x.den = 1
  <1> DEFINE y == [num |-> n, den |-> 1]
  <1>1. InLowestTerms(y)
    BY IntegerIs
  <1>2. y.num = n /\ y.den = 1 /\ x.num * y.den = y.num * x.den
    BY DEF InLowestTerms
  <1> HIDE DEF y
  <1> QED BY <1>1, <1>2, OneForm
\* The negation of what is in lowest terms is so, too.
LEMMA NegatedLowest ==
  ASSUME NEW x, InLowestTerms(x), NEW q, q.num = -x.num, q.den = x.den
  PROVE  InLowestTerms(q)
  <1>1. x.num \in Int /\ x.den \in Nat \ {0}
    BY DEF InLowestTerms
  <1>2. ASSUME NEW f \in 1 .. x.den - 1, Denominates(f, -x.num, x.den) PROVE FALSE
    <2>1. f \in Int /\ (-x.num) * f \in Int /\ x.num * f \in Int
      BY <1>1
    <2>2. PICK k \in Int : (-x.num) * f = x.den * k
      BY <1>1, <1>2, <2>1, Multiple DEF Denominates
    <2>3. x.num * f = x.den * (-k)
      BY <1>1, <2>1, <2>2
    <2>4. (x.num * f) % x.den = 0
      BY <1>1, <2>1, <2>3, Multiple, -k \in Int
    <2> QED BY <2>4 DEF InLowestTerms, Denominates
  <1> QED BY <1>1, <1>2 DEF InLowestTerms

-------------------------------------------------------------------------------
(* Numbers *)

Number(x) == IsNumber(x) /\ Normal(x)

\* v is the number n / d.
Made(v, n, d) == Number(v) /\ v.num * d = n * v.den

\* The parts of a number.
LEMMA NumberParts ==
  ASSUME NEW x, Number(x)
  PROVE  /\ x.num \in Int /\ x.den \in Nat \ {0} /\ InLowestTerms(x)
         /\ x.is_int64 \in BOOLEAN /\ (x.is_int64 <=> x.den = 1 /\ x.num \in int64)
  BY DEF Number, Normal, InLowestTerms

\* The limits of an int64.
LEMMA Limits ==
  /\ INT64_MAX \in Nat \ {0} /\ INT64_MIN \in Int /\ INT64_MIN = -INT64_MAX - 1
  /\ Width \in Nat \ {0} /\ Width = INT64_MAX - INT64_MIN + 1
  BY NumbersAssumption DEF INT64_MIN, Width

\* A number from a rational in lowest terms.
LEMMA FromRational ==
  ASSUME NEW q, InLowestTerms(q), NEW v, v = new_number_object(q)
  PROVE  Number(v) /\ v.num = q.num /\ v.den = q.den
  <1>1. v = [type |-> "number", is_int64 |-> mpq_to_int64(q), num |-> q.num, den |-> q.den]
    BY DEF new_number_object, Object
  <1>2. InLowestTerms(v)
    BY <1>1 DEF InLowestTerms
  <1>3. v.is_int64 = (v.den = 1 /\ v.num \in int64)
    <2>1. v.num = q.num /\ v.den = q.den
      BY <1>1
    <2>2. v.is_int64 = mpq_to_int64(q)
      BY <1>1
    <2> QED BY <2>1, <2>2, Zenon DEF mpq_to_int64
  <1> QED BY <1>1, <1>2, <1>3 DEF Number, IsNumber, Normal

\* A number from an int64.
LEMMA FromInt64 ==
  ASSUME NEW n \in int64, NEW v, v = new_number_object_from_int64(n)
  PROVE  Number(v) /\ v.num = n /\ v.den = 1
  <1>1. v = [type |-> "number", is_int64 |-> TRUE, num |-> n, den |-> 1]
    BY DEF new_number_object_from_int64, Object
  <1>2. n \in Int
    BY Limits DEF int64
  <1>3. InLowestTerms(v)
    BY <1>1, <1>2, IntegerIs
  <1>4. v.num = n /\ v.den = 1 /\ v.type = "number"
    BY <1>1
  <1>5. v.is_int64 = TRUE
    BY <1>1
  <1>6. v.is_int64 = (v.den = 1 /\ v.num \in int64)
    BY <1>4, <1>5, Zenon
  <1> QED BY <1>3, <1>4, <1>6 DEF Number, IsNumber, Normal

\* Wrapping leaves an int64 as it is, and makes one of any integer.
LEMMA Wraps ==
  ASSUME NEW n \in Int
  PROVE  Wrap(n) \in int64 /\ (n \in int64 => Wrap(n) = n)
  <1> DEFINE m == n - INT64_MIN
  <1>1. m \in Int
    BY Limits
  <1>2. m % Width \in 0 .. Width - 1
    BY <1>1, Limits, Division
  <1>3. Wrap(n) = (m % Width) + INT64_MIN
    BY DEF Wrap
  <1>4. Wrap(n) \in int64
    <2> HIDE DEF m
    <2> QED BY <1>2, <1>3, Limits DEF int64
  <1>5. ASSUME n \in int64 PROVE Wrap(n) = n
    <2>1. m \in 0 .. Width - 1 /\ m = Width * 0 + m
      BY <1>5, Limits DEF int64
    <2>2. m % Width = m
      <3> HIDE DEF m
      <3> QED BY <2>1, <1>1, Limits, DivUnique
    <2> QED BY <2>2, <1>3, Limits
  <1> QED BY <1>4, <1>5

\* What made v tells what v is.
LEMMA MadeIs ==
  ASSUME NEW v, NEW n, NEW d, NEW k, NEW e, Made(v, n, d),
         n \in Int, d \in Int, d # 0, k \in Int, e \in Int, e # 0
  PROVE  Is(Value(v), k, e) <=> n * e = k * d
  <1>1. v.num \in Int /\ v.den \in Nat \ {0} /\ IsNumber(v) /\ v.num * d = n * v.den
    BY NumberParts DEF Made, Number
  <1>2. Is(Value(v), k, e) <=> v.num * e = k * v.den
    BY <1>1 DEF Is, Value, Outcome
  <1>3. ASSUME v.num * e = k * v.den PROVE n * e = k * d
    <2>1. v.den * (n * e) = v.den * (k * d)
      <3>1. v.den * (n * e) = (n * v.den) * e
        BY <1>1
      <3>2. (v.num * d) * e = (v.num * e) * d
        BY <1>1
      <3>3. (k * v.den) * d = v.den * (k * d)
        BY <1>1
      <3> QED BY <3>1, <3>2, <3>3, <1>1, <1>3
    <2> QED BY <2>1, <1>1, Cancel, n * e \in Int, k * d \in Int, v.den \in Int \ {0}
  <1>4. ASSUME n * e = k * d PROVE v.num * e = k * v.den
    <2>1. d * (v.num * e) = d * (k * v.den)
      <3>1. d * (v.num * e) = (v.num * d) * e
        BY <1>1
      <3>2. (n * v.den) * e = (n * e) * v.den
        BY <1>1
      <3>3. (k * d) * v.den = d * (k * v.den)
        BY <1>1
      <3> QED BY <3>1, <3>2, <3>3, <1>1, <1>4
    <2> QED BY <2>1, <1>1, Cancel, v.num * e \in Int, k * v.den \in Int
  <1> QED BY <1>2, <1>3, <1>4

\* A number from n / d.
LEMMA MadeOf ==
  ASSUME NEW n \in Int, NEW d \in Int \ {0}, NEW v, v = new_number_object(mpq_canonicalize(n, d))
  PROVE  Made(v, n, d)
  <1> DEFINE q == mpq_canonicalize(n, d)
  <1>1. InLowestTerms(q) /\ q.num * d = n * q.den
    BY Canonical
  <1>2. v = new_number_object(q)
    OBVIOUS
  <1> HIDE DEF q
  <1> QED BY <1>1, <1>2, FromRational DEF Made

\* A number from an int64.
LEMMA MadeOfInt64 ==
  ASSUME NEW n \in int64, NEW v, v = new_number_object_from_int64(n)
  PROVE  Made(v, n, 1)
  BY FromInt64, Limits DEF Made, int64

\* What two int64 have in common: they are integers.
LEMMA Int64s ==
  ASSUME NEW x, NEW y, Number(x), Number(y), BothInt64(x, y)
  PROVE  x.den = 1 /\ y.den = 1 /\ x.num \in int64 /\ y.num \in int64
  BY NumberParts DEF BothInt64

\* The smallest int64 is its own negation.
LEMMA NegatedMin ==
  Wrap(-INT64_MIN) = INT64_MIN
  <1> DEFINE m == (-INT64_MIN) - INT64_MIN
  <1>1. m = Width * 1 + 0 /\ m \in Int
    BY Limits
  <1>2. m % Width = 0
    <2> HIDE DEF m
    <2> QED BY <1>1, Limits, DivUnique, 0 \in 0 .. Width - 1
  <1>3. Wrap(-INT64_MIN) = (m % Width) + INT64_MIN
    BY DEF Wrap
  <1> HIDE DEF m
  <1> QED BY <1>2, <1>3, Limits

\* Negation is exact, but of the smallest int64.
LEMMA Negation ==
  ASSUME NEW x, Number(x), NEW o, o = __negation__(x)
  PROVE  o = Value(o.value) /\ Number(o.value) /\ (Is(o, -x.num, x.den) <=> ~NegationWraps(x))
  <1> USE NumberParts, Limits
  <1>1. CASE x.is_int64
    <2> DEFINE v == new_number_object_from_int64(Wrap(-x.num))
    <2>1. o = Value(v) /\ o.value = v
      BY <1>1 DEF __negation__, Value, Outcome
    <2>2. x.den = 1 /\ x.num \in int64 /\ -x.num \in Int
      BY <1>1
    <2>3. Wrap(-x.num) \in int64 /\ (-x.num \in int64 => Wrap(-x.num) = -x.num)
      BY <2>2, Wraps
    <2>4. Made(v, Wrap(-x.num), 1)
      BY <2>3, MadeOfInt64
    <2> HIDE DEF v
    <2> DEFINE w == Wrap(-x.num)
    <2>5. Is(Value(v), -x.num, x.den) <=> w * x.den = (-x.num) * 1
      <3>1. /\ w \in Int /\ -x.num \in Int /\ Made(v, w, 1)
            /\ 1 \in Int \ {0} /\ x.den \in Int \ {0}
        BY <2>2, <2>3, <2>4 DEF int64
      <3> HIDE DEF w
      <3> QED BY ONLY <3>1, MadeIs
    <2>6. Wrap(-x.num) = -x.num <=> x.num # INT64_MIN
      BY <2>2, <2>3 DEF int64
    <2> QED BY <1>1, <2>1, <2>2, <2>3, <2>4, <2>5, <2>6 DEF NegationWraps, Made, int64
  <1>2. CASE ~x.is_int64
    <2> DEFINE q == [num |-> -x.num, den |-> x.den]
               v == new_number_object(q)
    <2>1. o = Value(v) /\ o.value = v
      BY <1>2 DEF __negation__, Value, Outcome
    <2>2. q.num = -x.num /\ q.den = x.den
      OBVIOUS
    <2> HIDE DEF q
    <2>3. InLowestTerms(q)
      BY <2>2, NegatedLowest
    <2>4. Number(v) /\ v.num = -x.num /\ v.den = x.den
      BY <2>2, <2>3, FromRational
    <2> HIDE DEF v
    <2> QED BY <1>2, <2>1, <2>4 DEF NegationWraps, Is, Value, Outcome, Number
  <1> QED BY <1>1, <1>2

\* A sum is exact: the sums of int64 that do not fit are noticed.
LEMMA Sum ==
  ASSUME NEW x, NEW y, Number(x), Number(y), NEW o, o = __add__(x, y)
  PROVE  /\ o = Value(o.value)
         /\ Made(o.value, x.num * y.den + y.num * x.den, x.den * y.den)
  <1> USE NumberParts, Limits
  <1>0. x.num * y.den + y.num * x.den \in Int /\ x.den * y.den \in Int \ {0}
    OBVIOUS
  <1>1. CASE BothInt64(x, y) /\ ~AddOverflows(x.num, y.num)
    <2> DEFINE v == new_number_object_from_int64(Wrap(x.num + y.num))
    <2>1. o = Value(v) /\ o.value = v
      BY <1>1 DEF __add__, WithNumber, Value, Outcome, Number
    <2>2. x.den = 1 /\ y.den = 1 /\ x.num \in int64 /\ y.num \in int64
      BY <1>1, Int64s
    <2>3. x.num + y.num \in int64
      BY <1>1, <2>2 DEF AddOverflows, int64
    <2>4. Wrap(x.num + y.num) = x.num + y.num
      BY <2>3, Wraps, x.num + y.num \in Int
    <2>5. Made(v, x.num + y.num, 1)
      BY <2>3, <2>4, MadeOfInt64
    <2>6. x.num * y.den + y.num * x.den = x.num + y.num /\ x.den * y.den = 1
      BY <2>2
    <2> HIDE DEF v
    <2> QED BY <2>1, <2>5, <2>6
  <1>2. CASE ~(BothInt64(x, y) /\ ~AddOverflows(x.num, y.num))
    <2> DEFINE v == new_number_object(mpq_add(x, y))
    <2>1. o = Value(v) /\ o.value = v
      BY <1>2 DEF __add__, WithNumber, Value, Outcome, Number
    <2>2. Made(v, x.num * y.den + y.num * x.den, x.den * y.den)
      BY <1>0, MadeOf DEF mpq_add
    <2> HIDE DEF v
    <2> QED BY <2>1, <2>2
  <1> QED BY <1>1, <1>2

\* A difference is exact, unless it overflows and the test of the negated x misses it.
LEMMA Difference ==
  ASSUME NEW x, NEW y, Number(x), Number(y), NEW o, o = __subtract__(x, y)
  PROVE  /\ o = Value(o.value) /\ Number(o.value)
         /\ Is(o, x.num * y.den - y.num * x.den, x.den * y.den) <=> ~SubtractionWraps(x, y)
  <1> USE NumberParts, Limits
  <1>0. x.num * y.den - y.num * x.den \in Int /\ x.den * y.den \in Int \ {0}
    OBVIOUS
  <1>1. CASE BothInt64(x, y) /\ ~SubtractOverflows(x.num, y.num)
    <2> DEFINE n == x.num - y.num
               v == new_number_object_from_int64(Wrap(n))
    <2>1. o = Value(v) /\ o.value = v
      BY <1>1 DEF __subtract__, WithNumber, Value, Outcome, Number
    <2>2. x.den = 1 /\ y.den = 1 /\ x.num \in int64 /\ y.num \in int64
      BY <1>1, Int64s
    <2>3. n \in Int
      OBVIOUS
    <2>4. Wrap(n) \in int64 /\ (n \in int64 => Wrap(n) = n)
      BY <2>3, Wraps
    <2>5. Made(v, Wrap(n), 1)
      BY <2>4, MadeOfInt64
    <2>6. x.num * y.den - y.num * x.den = n /\ x.den * y.den = 1
      BY <2>2
    <2>7. -x.num \in Int /\ Wrap(-x.num) \in int64 /\ (-x.num \in int64 => Wrap(-x.num) = -x.num)
      BY Wraps
    <2>8. n \in int64 <=> ~SubtractionWraps(x, y)
      <3>1. CASE x.num = INT64_MIN
        <4>1. Wrap(-x.num) = INT64_MIN
          BY <3>1, NegatedMin
        <4> QED BY <1>1, <2>2, <3>1, <4>1 DEF SubtractOverflows, SubtractionWraps, int64
      <3>2. CASE x.num # INT64_MIN
        <4>1. Wrap(-x.num) = -x.num
          BY <2>2, <2>7, <3>2 DEF int64
        <4> QED BY <1>1, <2>2, <3>2, <4>1 DEF SubtractOverflows, SubtractionWraps, int64
      <3> QED BY <3>1, <3>2
    <2> HIDE DEF v, n
    <2>9. Wrap(n) \in Int /\ n \in Int
      BY <2>3, <2>4 DEF int64
    <2> DEFINE w == Wrap(n)
    <2>10. Is(Value(v), n, 1) <=> w * 1 = n * 1
      <3>1. w \in Int /\ n \in Int /\ Made(v, w, 1) /\ 1 \in Int \ {0}
        BY <2>5, <2>9
      <3> HIDE DEF w
      <3> QED BY ONLY <3>1, MadeIs
    <2>11. Is(o, n, 1) <=> n \in int64
      BY <2>1, <2>4, <2>9, <2>10
    <2> QED BY <2>1, <2>5, <2>6, <2>8, <2>11 DEF Made
  <1>2. CASE ~(BothInt64(x, y) /\ ~SubtractOverflows(x.num, y.num))
    <2> DEFINE v == new_number_object(mpq_sub(x, y))
    <2>1. o = Value(v) /\ o.value = v
      BY <1>2 DEF __subtract__, WithNumber, Value, Outcome, Number
    <2>2. Made(v, x.num * y.den - y.num * x.den, x.den * y.den)
      BY <1>0, MadeOf DEF mpq_sub
    <2> HIDE DEF v
    <2>3. ~SubtractionWraps(x, y)
      <3> SUFFICES ASSUME BothInt64(x, y) PROVE ~SubtractionWraps(x, y)
        BY DEF SubtractionWraps
      <3>1. x.num \in int64 /\ y.num \in int64
        BY Int64s
      <3>2. SubtractOverflows(x.num, y.num)
        BY <1>2
      <3>3. -x.num \in Int /\ Wrap(-x.num) \in int64 /\ (-x.num \in int64 => Wrap(-x.num) = -x.num)
        BY Wraps
      <3>4. CASE x.num = INT64_MIN
        <4>1. Wrap(-x.num) = INT64_MIN
          BY <3>4, NegatedMin
        <4> QED BY <3>1, <3>2, <3>4, <4>1 DEF SubtractOverflows, SubtractionWraps, int64
      <3>5. CASE x.num # INT64_MIN
        <4>1. Wrap(-x.num) = -x.num
          BY <3>1, <3>3, <3>5 DEF int64
        <4> QED BY <3>1, <3>2, <3>5, <4>1 DEF SubtractOverflows, SubtractionWraps, int64
      <3> QED BY <3>4, <3>5
    <2>4. ASSUME NEW n \in Int, NEW d \in Int \ {0}, Made(v, n, d) PROVE Is(Value(v), n, d)
      BY <2>4, MadeIs
    <2> QED BY <1>0, <2>1, <2>2, <2>3, <2>4 DEF Made
  <1> QED BY <1>1, <1>2

\* The division of C: what is left is smaller than the divisor and has the dividend's sign.
LEMMA CDivision ==
  ASSUME NEW a, NEW b, a \in Int, b \in Int, b # 0
  PROVE  /\ CDiv(a, b) \in Int /\ CRem(a, b) \in Int /\ a = b * CDiv(a, b) + CRem(a, b)
         /\ CRem(a, b) < Abs(b) /\ -CRem(a, b) < Abs(b)
         /\ (a >= 0 => CRem(a, b) >= 0) /\ (a <= 0 => CRem(a, b) <= 0)
  <1> DEFINE m == Abs(a)
             d == Abs(b)
             k == m \div d
             r == m % d
             c == CDiv(a, b)
  <1>1. m \in Nat /\ d \in Nat \ {0}
    BY DEF Abs
  <1>2. k \in Int /\ r \in 0 .. d - 1 /\ m = d * k + r
    <2> HIDE DEF m, d
    <2> QED BY <1>1, Division
  <1>3. c = Sgn(a) * Sgn(b) * k /\ CRem(a, b) = a - b * c
    BY DEF CDiv, CRem
  <1> HIDE DEF k, r, c
  <1>4. CASE a = 0
    <2>1. c = 0
      BY <1>2, <1>3, <1>4 DEF Sgn
    <2> QED BY <2>1, <1>3, <1>4, <1>1 DEF c, Abs
  <1>5. CASE a > 0 /\ b > 0
    <2>1. c = k /\ m = a /\ d = b
      BY <1>2, <1>3, <1>5 DEF Sgn, Abs
    <2> QED BY <2>1, <1>2, <1>3, <1>5 DEF c
  <1>6. CASE a > 0 /\ b < 0
    <2>1. c = -k /\ m = a /\ d = -b
      BY <1>2, <1>3, <1>6 DEF Sgn, Abs
    <2>2. b * c = (-b) * k
      BY <2>1, <1>2
    <2> QED BY <2>1, <2>2, <1>2, <1>3, <1>6 DEF c
  <1>7. CASE a < 0 /\ b > 0
    <2>1. c = -k /\ m = -a /\ d = b
      BY <1>2, <1>3, <1>7 DEF Sgn, Abs
    <2>2. b * c = -(b * k)
      BY <2>1, <1>2
    <2> QED BY <2>1, <2>2, <1>2, <1>3, <1>7 DEF c
  <1>8. CASE a < 0 /\ b < 0
    <2>1. c = k /\ m = -a /\ d = -b
      BY <1>2, <1>3, <1>8 DEF Sgn, Abs
    <2>2. b * c = -((-b) * k)
      BY <2>1, <1>2
    <2> QED BY <2>1, <2>2, <1>2, <1>3, <1>8 DEF c
  <1> QED BY <1>4, <1>5, <1>6, <1>7, <1>8

\* The limit that a factor is compared with, by dividing a limit of int64 by the other factor.
LEMMA FactorLimit ==
  ASSUME NEW a, NEW b, NEW l, a \in Int, b \in Int, l \in Int, b # 0
  PROVE  /\ b > 0 /\ l >= 0 => (a > CDiv(l, b) <=> a * b > l)
         /\ b < 0 /\ l >= 0 => (a < CDiv(l, b) <=> a * b > l)
         /\ b > 0 /\ l <= 0 => (a < CDiv(l, b) <=> a * b < l)
  <1> DEFINE c == CDiv(l, b)
             r == CRem(l, b)
  <1>1. /\ c \in Int /\ r \in Int /\ l = b * c + r
        /\ r < Abs(b) /\ -r < Abs(b) /\ (l >= 0 => r >= 0) /\ (l <= 0 => r <= 0)
    BY CDivision
  <1> HIDE DEF c, r
  <1>2. b * (c + 1) = b * c + b /\ b * (c - 1) = b * c - b /\ a * b = b * a
    BY <1>1
  <1>3. ASSUME b > 0, l >= 0 PROVE a > c <=> a * b > l
    <2>1. ASSUME a > c PROVE b * a >= b * (c + 1)
      BY <2>1, <1>1, <1>3
    <2>2. ASSUME a <= c PROVE b * a <= b * c
      BY <2>2, <1>1, <1>3
    <2> QED BY <2>1, <2>2, <1>1, <1>2, <1>3 DEF Abs
  <1>4. ASSUME b < 0, l >= 0 PROVE a < c <=> a * b > l
    <2>1. ASSUME a < c PROVE b * a >= b * (c - 1)
      BY <2>1, <1>1, <1>4
    <2>2. ASSUME a >= c PROVE b * a <= b * c
      BY <2>2, <1>1, <1>4
    <2> QED BY <2>1, <2>2, <1>1, <1>2, <1>4 DEF Abs
  <1>5. ASSUME b > 0, l <= 0 PROVE a < c <=> a * b < l
    <2>1. ASSUME a < c PROVE b * a <= b * (c - 1)
      BY <2>1, <1>1, <1>5
    <2>2. ASSUME a >= c PROVE b * a >= b * c
      BY <2>2, <1>1, <1>5
    <2> QED BY <2>1, <2>2, <1>1, <1>2, <1>5 DEF Abs
  <1> QED BY <1>3, <1>4, <1>5 DEF c

\* The test of a product notices exactly the products that are no int64.
LEMMA ProductTest ==
  ASSUME NEW a, NEW b, a \in int64, b \in int64
  PROVE  MultiplyOverflows(a, b) <=> a * b \notin int64
  <1> USE Limits
  <1>1. a \in Int /\ b \in Int /\ a * b \in Int /\ a * b = b * a
    BY DEF int64
  <1>2. CASE a > 0 /\ b > 0
    <2>1. a > CDiv(INT64_MAX, b) <=> a * b > INT64_MAX
      BY <1>1, <1>2, FactorLimit
    <2>2. a * b > 0
      BY <1>1, <1>2
    <2> QED BY <1>1, <1>2, <2>1, <2>2 DEF MultiplyOverflows, int64
  <1>3. CASE a > 0 /\ b <= 0
    <2>1. b < CDiv(INT64_MIN, a) <=> b * a < INT64_MIN
      BY <1>1, <1>3, FactorLimit
    <2>2. a * b <= 0
      BY <1>1, <1>3
    <2> QED BY <1>1, <1>3, <2>1, <2>2 DEF MultiplyOverflows, int64
  <1>4. CASE a <= 0 /\ b > 0
    <2>1. a < CDiv(INT64_MIN, b) <=> a * b < INT64_MIN
      BY <1>1, <1>4, FactorLimit
    <2>2. a * b <= 0
      BY <1>1, <1>4
    <2> QED BY <1>1, <1>4, <2>1, <2>2 DEF MultiplyOverflows, int64
  <1>5. CASE a < 0 /\ b <= 0
    <2>1. b < CDiv(INT64_MAX, a) <=> b * a > INT64_MAX
      BY <1>1, <1>5, FactorLimit
    <2>2. a * b >= 0
      BY <1>1, <1>5
    <2> QED BY <1>1, <1>5, <2>1, <2>2 DEF MultiplyOverflows, int64
  <1>6. CASE a = 0 /\ b <= 0
    BY <1>1, <1>6 DEF MultiplyOverflows, int64
  <1> QED BY <1>1, <1>2, <1>3, <1>4, <1>5, <1>6

\* A product is exact.
LEMMA Product ==
  ASSUME NEW x, NEW y, Number(x), Number(y), NEW o, o = __multiply__(x, y)
  PROVE  o = Value(o.value) /\ Made(o.value, x.num * y.num, x.den * y.den)
  <1> USE NumberParts, Limits
  <1>0. x.num * y.num \in Int /\ x.den * y.den \in Int \ {0}
    OBVIOUS
  <1>1. CASE BothInt64(x, y) /\ ~MultiplyOverflows(x.num, y.num)
    <2> DEFINE n == x.num * y.num
               v == new_number_object_from_int64(Wrap(n))
    <2>1. o = Value(v) /\ o.value = v
      BY <1>1 DEF __multiply__, WithNumber, Value, Outcome, Number
    <2>2. x.den = 1 /\ y.den = 1 /\ x.num \in int64 /\ y.num \in int64
      BY <1>1, Int64s
    <2>3. n \in int64 /\ n \in Int
      BY <1>0, <1>1, <2>2, ProductTest
    <2>4. x.den * y.den = 1
      BY <2>2
    <2>5. Wrap(n) = n
      <3> HIDE DEF n
      <3> QED BY <2>3, Wraps
    <2>6. Made(v, n, 1)
      BY <2>3, <2>5, MadeOfInt64
    <2> HIDE DEF v
    <2> QED BY <2>1, <2>4, <2>6
  <1>2. CASE ~(BothInt64(x, y) /\ ~MultiplyOverflows(x.num, y.num))
    <2> DEFINE v == new_number_object(mpq_mul(x, y))
    <2>1. o = Value(v) /\ o.value = v
      BY <1>2 DEF __multiply__, WithNumber, Value, Outcome, Number
    <2>2. Made(v, x.num * y.num, x.den * y.den)
      BY <1>0, MadeOf DEF mpq_mul
    <2> HIDE DEF v
    <2> QED BY <2>1, <2>2
  <1> QED BY <1>1, <1>2

\* A number that is zero is the int64: the test for a zero divisor need not look at rationals.
LEMMA ZeroIsInt64 ==
  ASSUME NEW y, Number(y)
  PROVE  IsZero(y) <=> y.num = 0
  <1>1. ASSUME y.num = 0 PROVE y.is_int64
    <2>1. y.num = 0 * y.den /\ 0 \in Int /\ InLowestTerms(y)
      BY <1>1, NumberParts
    <2>2. y.den = 1
      BY <2>1, AnInteger
    <2> QED BY <1>1, <2>2, NumberParts, Limits DEF int64
  <1> QED BY <1>1 DEF IsZero

\* C divides within int64, but for the smallest by -1.
LEMMA CDivFits ==
  ASSUME NEW a, NEW b, a \in int64, b \in int64, b # 0, ~(a = INT64_MIN /\ b = -1)
  PROVE  CDiv(a, b) \in int64 /\ CRem(a, b) \in int64
  <1> DEFINE c == CDiv(a, b)
             r == CRem(a, b)
  <1> USE Limits
  <1>1. a \in Int /\ b \in Int /\ INT64_MIN <= a /\ a <= INT64_MAX
    BY DEF int64
  <1>2. /\ c \in Int /\ r \in Int /\ a = b * c + r
        /\ r < Abs(b) /\ -r < Abs(b) /\ (a >= 0 => r >= 0) /\ (a <= 0 => r <= 0)
    BY <1>1, CDivision
  <1>3. INT64_MIN <= b /\ b <= INT64_MAX
    BY DEF int64
  <1> HIDE DEF c, r
  <1>4. r \in int64
    BY <1>1, <1>2, <1>3 DEF Abs, int64
  <1>5. CASE b > 0
    <2>1. ASSUME c >= 1 PROVE c <= a
      <3>1. b * c >= c
        BY <1>1, <1>2, <1>5, <2>1
      <3> QED BY <3>1, <1>1, <1>2, <1>5, <2>1 DEF Abs
    <2>2. ASSUME c <= -1 PROVE c >= a
      <3>1. b * c <= c
        BY <1>1, <1>2, <1>5, <2>2
      <3> QED BY <3>1, <1>1, <1>2, <1>5, <2>2 DEF Abs
    <2>3. c <= INT64_MAX /\ c >= INT64_MIN
      BY <1>1, <1>2, <2>1, <2>2
    <2> QED BY <1>2, <1>4, <2>3 DEF int64, c, r
  <1>6. CASE b = -1
    <2>1. c = -a /\ r = 0
      BY <1>2, <1>6 DEF Abs
    <2>2. c \in int64
      BY <1>1, <2>1, <1>6 DEF int64
    <2> QED BY <2>2, <1>4 DEF c, r
  <1>7. CASE b <= -2
    <2>1. ASSUME c >= 1 PROVE b * c <= -(c + c)
      BY <1>1, <1>2, <1>7, <2>1
    <2>2. ASSUME c <= -1 PROVE b * c >= -(c + c)
      BY <1>1, <1>2, <1>7, <2>2
    <2>3. c <= INT64_MAX
      <3> SUFFICES ASSUME c >= 1 PROVE c <= INT64_MAX
        BY <1>2
      <3>1. b * c < 0
        BY <2>1, <1>2
      <3>2. a <= 0
        BY <3>1, <1>1, <1>2, <1>7 DEF Abs
      <3>3. r <= 0 /\ r > b /\ b * c \in Int
        BY <3>2, <1>1, <1>2, <1>7 DEF Abs
      <3>4. b * c >= a
        BY <3>3, <1>1, <1>2
      <3> QED BY <3>4, <2>1, <1>1, <1>2
    <2>4. c >= INT64_MIN
      <3> SUFFICES ASSUME c <= -1 PROVE c >= INT64_MIN
        BY <1>2
      <3>1. b * c > 0
        BY <2>2, <1>2
      <3>2. a >= 0
        BY <3>1, <1>1, <1>2, <1>7 DEF Abs
      <3>3. b * c <= a
        BY <3>2, <1>1, <1>2
      <3> QED BY <3>3, <2>2, <1>1, <1>2
    <2> QED BY <1>2, <1>4, <2>3, <2>4 DEF int64, c, r
  <1> QED BY <1>1, <1>5, <1>6, <1>7

\* A number from the quotient of two int64 of C.
LEMMA FromNumAndDen ==
  ASSUME NEW n, NEW d, n \in int64, d \in int64, d # 0, d # -1,
         NEW v, v = new_number_object_from_num_and_den(n, d)
  PROVE  Made(v, n, d)
  <1>1. n \in Int /\ d \in Int
    BY Limits DEF int64
  <1>2. CDiv(n, d) \in Int /\ CRem(n, d) \in Int /\ n = d * CDiv(n, d) + CRem(n, d)
    BY <1>1, CDivision
  <1>3. CASE CRem(n, d) = 0
    <2> DEFINE c == CDiv(n, d)
    <2>1. c \in int64 /\ c \in Int
      BY <1>2, CDivFits
    <2>2. v = new_number_object_from_int64(Wrap(c))
      BY <1>3 DEF new_number_object_from_num_and_den
    <2>3. n = d * c
      BY <1>1, <1>2, <1>3
    <2> HIDE DEF c
    <2>4. Wrap(c) = c
      BY <2>1, Wraps
    <2>5. Made(v, c, 1)
      BY <2>1, <2>2, <2>4, MadeOfInt64
    <2>6. Number(v) /\ v.num * 1 = c * v.den /\ v.num \in Int /\ v.den \in Int
      BY <2>5, NumberParts DEF Made
    <2>7. v.num = c * v.den
      BY <2>1, <2>6
    <2>8. v.num * d = (d * c) * v.den
      BY <1>1, <2>1, <2>6, <2>7
    <2> QED BY <2>3, <2>6, <2>8 DEF Made
  <1>4. CASE CRem(n, d) # 0
    <2> DEFINE q == mpq_canonicalize(n, d)
    <2>1. InLowestTerms(q) /\ q.num * d = n * q.den
      BY <1>1, Canonical
    <2>2. v = Object("number", FALSE, q)
      BY <1>4 DEF new_number_object_from_num_and_den
    <2> HIDE DEF q
    <2>3. /\ v.type = "number" /\ v.num = q.num /\ v.den = q.den
          /\ v.is_int64 = FALSE
      BY <2>2 DEF Object
    <2>4. q.den # 1
      <3> SUFFICES ASSUME q.den = 1 PROVE FALSE
        OBVIOUS
      <3> DEFINE k == q.num
                 c == CDiv(n, d)
                 r == CRem(n, d)
      <3>1. k \in Int /\ n = k * d
        BY <2>1, <1>1 DEF InLowestTerms
      <3>2. c \in Int /\ r \in Int /\ n = d * c + r /\ r < Abs(d) /\ -r < Abs(d) /\ r # 0
        BY <1>1, <1>4, CDivision
      <3> HIDE DEF k, c, r
      <3>3. r = d * (k - c)
        BY <1>1, <3>1, <3>2
      <3> DEFINE e == k - c
      <3>4. e \in Int /\ r = d * e
        BY <3>1, <3>2, <3>3
      <3> HIDE DEF e
      <3>5. e # 0
        BY <3>2, <3>4
      <3>6. CASE d > 0
        BY <1>1, <3>2, <3>4, <3>5, <3>6 DEF Abs
      <3>7. CASE d < 0
        BY <1>1, <3>2, <3>4, <3>5, <3>7 DEF Abs
      <3> QED BY <1>1, <3>6, <3>7
    <2>5. InLowestTerms(v)
      BY <2>1, <2>3 DEF InLowestTerms
    <2>6. v.is_int64 = (v.den = 1 /\ v.num \in int64)
      BY <2>3, <2>4
    <2> QED BY <2>1, <2>3, <2>5, <2>6 DEF Made, Number, IsNumber, Normal
  <1> QED BY <1>2, <1>3, <1>4

\* A quotient is exact, unless negating a negative divisor, or the dividend with it, wraps.
LEMMA Quotient ==
  ASSUME NEW x, NEW y, Number(x), Number(y), NEW o, o = __division__(x, y)
  PROVE  /\ IsZero(y) => o = ZeroDivision
         /\ ~IsZero(y) =>
              /\ o = Value(o.value) /\ Number(o.value)
              /\ Is(o, Sgn(y.num) * (x.num * y.den), Abs(y.num) * x.den) <=> ~DivisionWraps(x, y)
  <1> USE NumberParts, Limits
  <1>1. IsZero(y) => o = ZeroDivision
    BY DEF __division__, WithNumber, Number
  <1> SUFFICES ASSUME ~IsZero(y)
               PROVE  /\ o = Value(o.value) /\ Number(o.value)
                      /\ Is(o, Sgn(y.num) * (x.num * y.den), Abs(y.num) * x.den)
                           <=> ~DivisionWraps(x, y)
    BY <1>1
  <1>2. y.num # 0
    BY ZeroIsInt64
  <1>3. CASE ~BothInt64(x, y)
    <2> DEFINE v == new_number_object(mpq_div(x, y))
               n == x.num * y.den
               d == x.den * y.num
               k == Sgn(y.num) * n
               e == Abs(y.num) * x.den
    <2>1. o = Value(v) /\ o.value = v
      BY <1>3 DEF __division__, WithNumber, Value, Outcome, Number
    <2>2. n \in Int /\ d \in Int /\ d # 0
      BY <1>2
    <2>3. Made(v, n, d)
      BY <2>2, MadeOf DEF mpq_div
    <2>4. k \in Int /\ e \in Int /\ e # 0 /\ n * e = k * d
      <3>1. CASE y.num > 0
        <4>1. Sgn(y.num) = 1 /\ Abs(y.num) = y.num
          BY <3>1 DEF Sgn, Abs
        <4> QED BY <4>1, <2>2
      <3>2. CASE y.num < 0
        <4>1. Sgn(y.num) = -1 /\ Abs(y.num) = -y.num
          BY <3>2 DEF Sgn, Abs
        <4>2. k = -n /\ e = -d
          BY <4>1, <2>2
        <4> HIDE DEF n, d, k, e
        <4> QED BY <4>2, <2>2
      <3> QED BY <1>2, <3>1, <3>2
    <2>5. ~DivisionWraps(x, y)
      BY <1>3 DEF DivisionWraps
    <2>6. Is(Value(v), k, e)
      <3> HIDE DEF v, n, d, k, e
      <3> QED BY <2>2, <2>3, <2>4, MadeIs
    <2> HIDE DEF v
    <2> QED BY <2>1, <2>3, <2>5, <2>6 DEF Made
  <1>4. CASE BothInt64(x, y)
    <2>1. x.den = 1 /\ y.den = 1 /\ x.num \in int64 /\ y.num \in int64
      BY <1>4, Int64s
    <2> DEFINE a == IF y.num < 0 THEN Wrap(-x.num) ELSE x.num
               b == IF y.num < 0 THEN Wrap(-y.num) ELSE y.num
               v == new_number_object_from_num_and_den(a, b)
               k == Sgn(y.num) * (x.num * y.den)
               e == Abs(y.num) * x.den
    <2>2. o = Value(v) /\ o.value = v
      BY <1>4 DEF __division__, WithNumber, Value, Outcome, Number
    <2>3. \A n \in Int : Wrap(n) \in int64 /\ (n \in int64 => Wrap(n) = n)
      BY Wraps
    <2>4. y.num >= 0 => a = x.num /\ b = y.num
      OBVIOUS
    <2>5. y.num < 0 => /\ a = IF x.num = INT64_MIN THEN INT64_MIN ELSE -x.num
                       /\ b = IF y.num = INT64_MIN THEN INT64_MIN ELSE -y.num
      <3> SUFFICES ASSUME y.num < 0 PROVE /\ a = IF x.num = INT64_MIN THEN INT64_MIN ELSE -x.num
                                          /\ b = IF y.num = INT64_MIN THEN INT64_MIN ELSE -y.num
        OBVIOUS
      <3>1. \A n \in int64 : Wrap(-n) = IF n = INT64_MIN THEN INT64_MIN ELSE -n
        BY <2>3, NegatedMin DEF int64
      <3> QED BY <2>1, <3>1
    <2>6. a \in int64 /\ b \in int64 /\ b # 0 /\ b # -1 /\ a \in Int /\ b \in Int
      BY <1>2, <2>1, <2>4, <2>5 DEF int64
    <2>7. k \in Int /\ e \in Int /\ e # 0 /\ e = Abs(y.num)
          /\ k = IF y.num < 0 THEN -x.num ELSE x.num
      BY <1>2, <2>1 DEF Sgn, Abs
    <2>8. Made(v, a, b)
      <3> HIDE DEF a, b
      <3> QED BY <2>6, FromNumAndDen
    <2>9. Is(Value(v), k, e) <=> a * e = k * b
      <3> HIDE DEF a, b, v, k, e
      <3> QED BY <2>6, <2>7, <2>8, MadeIs
    <2>10. a * e = k * b <=> ~DivisionWraps(x, y)
      <3>1. CASE y.num > 0
        <4>1. e = b /\ a = k
          BY <2>4, <2>7, <3>1 DEF Abs
        <4> QED BY <2>6, <4>1, <3>1 DEF DivisionWraps
      <3>2. CASE y.num < 0 /\ x.num # INT64_MIN /\ y.num # INT64_MIN
        <4>1. e = b /\ a = k
          BY <2>5, <2>7, <3>2 DEF Abs
        <4> QED BY <2>6, <4>1, <3>2 DEF DivisionWraps
      <3>3. CASE y.num < 0 /\ x.num = INT64_MIN /\ y.num = INT64_MIN
        <4>1. a = INT64_MIN /\ b = INT64_MIN /\ e = -INT64_MIN /\ k = -INT64_MIN
          BY <2>5, <2>7, <3>3 DEF Abs
        <4> QED BY <4>1, <3>3 DEF DivisionWraps
      <3>4. CASE y.num < 0 /\ x.num = INT64_MIN /\ y.num # INT64_MIN
        <4>1. a = x.num /\ b = -y.num /\ e = -y.num /\ k = -x.num
          BY <2>5, <2>7, <3>4 DEF Abs
        <4>2. x.num * (-y.num) # (-x.num) * (-y.num)
          <5>1. x.num < 0 /\ -y.num > 0
            BY <3>4
          <5>2. x.num * (-y.num) < 0
            BY <5>1
          <5>3. (-x.num) * (-y.num) > 0
            BY <5>1
          <5> QED BY <5>2, <5>3
        <4> QED BY <4>1, <4>2, <1>4, <3>4 DEF DivisionWraps
      <3>5. CASE y.num < 0 /\ x.num # INT64_MIN /\ y.num = INT64_MIN
        <4>1. a = -x.num /\ b = y.num /\ e = -y.num /\ k = -x.num
          BY <2>5, <2>7, <3>5 DEF Abs
        <4>2. (-x.num) * (-y.num) = x.num * y.num /\ (-x.num) * y.num = -(x.num * y.num)
          OBVIOUS
        <4>3. x.num * y.num = 0 <=> x.num = 0
          BY <1>2
        <4>4. x.num * y.num \in Int
          OBVIOUS
        <4>5. a * e = k * b <=> x.num = 0
          BY <4>1, <4>2, <4>3, <4>4
        <4>6. DivisionWraps(x, y) <=> x.num # 0
          BY <1>4, <3>5 DEF DivisionWraps
        <4> QED BY <4>5, <4>6
      <3> QED BY <1>2, <3>1, <3>2, <3>3, <3>4, <3>5
    <2> HIDE DEF v, a, b
    <2> QED BY <2>2, <2>8, <2>9, <2>10 DEF Made
  <1> QED BY <1>3, <1>4

\* The floor of a fraction.
LEMMA FloorIs ==
  ASSUME NEW n, NEW d, NEW f, n \in Int, d \in Nat \ {0}, f \in Int, d * f <= n, n < d * f + d
  PROVE  n \div d = f
  <1> DEFINE r == n - d * f
  <1>1. r \in 0 .. d - 1 /\ n = d * f + r
    OBVIOUS
  <1> HIDE DEF r
  <1> QED BY <1>1, DivUnique

\* Equal fractions have one floor.
LEMMA OneFloor ==
  ASSUME NEW a, NEW b, NEW n, NEW d, a \in Int, b \in Int, b > 0, n \in Int, d \in Int, d > 0,
         a * d = n * b
  PROVE  a \div b = n \div d
  <1> DEFINE f == a \div b
             r == a % b
  <1>1. f \in Int /\ r \in 0 .. b - 1 /\ a = b * f + r
    BY Division
  <1> HIDE DEF f, r
  <1>2. b * (n - d * f) = r * d
    <2>1. b * (n - d * f) = n * b - (b * f) * d
      BY <1>1
    <2>2. a * d = (b * f) * d + r * d
      BY <1>1
    <2>3. b * (n - d * f) \in Int /\ n * b \in Int /\ (b * f) * d \in Int /\ r * d \in Int
      BY <1>1
    <2> QED BY <2>1, <2>2, <2>3
  <1> DEFINE t == n - d * f
  <1>3. t \in Int /\ b * t = r * d
    BY <1>1, <1>2
  <1>4. r * d >= 0 /\ r * d < b * d
    BY <1>1
  <1> HIDE DEF t
  <1>5. t >= 0
    <2> SUFFICES ASSUME t <= -1 PROVE FALSE
      BY <1>3
    <2>1. b * t < 0
      BY <1>3
    <2> QED BY <2>1, <1>1, <1>3, <1>4
  <1>6. t < d
    <2> SUFFICES ASSUME t >= d PROVE FALSE
      BY <1>3
    <2>1. b * t >= b * d
      BY <1>3
    <2> QED BY <2>1, <1>1, <1>3, <1>4
  <1>7. d * f <= n /\ n < d * f + d
    BY <1>1, <1>5, <1>6 DEF t
  <1>8. n \div d = f
    BY <1>1, <1>7, FloorIs
  <1> QED BY <1>8 DEF f

\* The floor of x / y, written with a positive divisor.
Floor(x, y) == (Sgn(y.num) * (x.num * y.den)) \div (Abs(y.num) * x.den)

\* The parts of the floor are integers, and the divisor is positive.
LEMMA FloorParts ==
  ASSUME NEW x, NEW y, Number(x), Number(y), y.num # 0
  PROVE  /\ Sgn(y.num) * (x.num * y.den) \in Int /\ Abs(y.num) * x.den \in Nat \ {0}
         /\ Floor(x, y) \in Int
  <1> DEFINE n == Sgn(y.num) * (x.num * y.den)
             d == Abs(y.num) * x.den
  <1>1. n \in Int /\ d \in Nat \ {0}
    <2>1. /\ Sgn(y.num) \in Int /\ x.num * y.den \in Int
          /\ Abs(y.num) \in Nat \ {0} /\ x.den \in Nat \ {0}
      BY NumberParts DEF Sgn, Abs
    <2> QED BY <2>1
  <1>2. n \div d \in Int
    <2> HIDE DEF n, d
    <2> QED BY <1>1, Division
  <1> QED BY <1>1, <1>2 DEF Floor

\* mpq_fdiv gives the floor.
LEMMA FloorRational ==
  ASSUME NEW x, NEW y, Number(x), Number(y), y.num # 0, NEW q, q = mpq_fdiv(x, y)
  PROVE  q.num = Floor(x, y) /\ q.den = 1
  <1> USE NumberParts
  <1> DEFINE f == Floor(x, y)
  <1> DEFINE n == x.num * y.den
             d == x.den * y.num
             t == mpq_canonicalize(n, d)
             k == Sgn(y.num) * n
             e == Abs(y.num) * x.den
  <1>1. n \in Int /\ d \in Int \ {0}
    OBVIOUS
  <1>2. InLowestTerms(t) /\ t.num * d = n * t.den
    BY <1>1, Canonical
  <1>3. q.num = t.num \div t.den /\ q.den = 1
    BY DEF mpq_fdiv, mpq_div
  <1>4. k \in Int /\ e \in Nat \ {0} /\ f = k \div e /\ f \in Int
    BY FloorParts DEF Floor
  <1>5. (k = n /\ e = d) \/ (k = -n /\ e = -d)
    <2>1. CASE y.num > 0
      BY <2>1, <1>1 DEF Sgn, Abs
    <2>2. CASE y.num < 0
      BY <2>2, <1>1 DEF Sgn, Abs
    <2> QED BY <2>1, <2>2
  <1> HIDE DEF n, d, t, k, e, f
  <1>6. t.num \in Int /\ t.den \in Nat \ {0}
    BY <1>2 DEF InLowestTerms
  <1>7. t.num * e = k * t.den
    <2>1. CASE k = n /\ e = d
      BY <2>1, <1>2
    <2>2. CASE k = -n /\ e = -d
      <3>1. t.num * (-d) = -(t.num * d) /\ (-n) * t.den = -(n * t.den)
        BY <1>1, <1>6
      <3> QED BY <2>2, <3>1, <1>2
    <2> QED BY <1>5, <2>1, <2>2
  <1>8. t.num \div t.den = k \div e
    <2>1. t.den \in Int /\ t.den > 0 /\ e \in Int /\ e > 0
      BY <1>4, <1>6
    <2> QED BY ONLY <1>4, <1>6, <1>7, <2>1, OneFloor, SMTT(30)
  <1> QED BY <1>3, <1>4, <1>8 DEF f

\* The quotient of C is the floor, unless it is cut towards zero.
LEMMA CutOrFloor ==
  ASSUME NEW x, NEW y, Number(x), Number(y), BothInt64(x, y), y.num # 0
  PROVE  CDiv(x.num, y.num) = Floor(x, y) <=> ~Truncates(x, y)
  <1> USE NumberParts
  <1> DEFINE a == x.num
             b == y.num
             c == CDiv(a, b)
             r == CRem(a, b)
  <1>1. x.den = 1 /\ y.den = 1 /\ a \in Int /\ b \in Int /\ b # 0
    BY Int64s
  <1>2. /\ c \in Int /\ r \in Int /\ a = b * c + r
        /\ r < Abs(b) /\ -r < Abs(b) /\ (a >= 0 => r >= 0) /\ (a <= 0 => r <= 0)
    BY <1>1, CDivision
  <1>3. Floor(x, y) = (Sgn(b) * a) \div Abs(b) /\ CDiv(x.num, y.num) = c
    BY <1>1 DEF Floor, Sgn, Abs
  <1>4. Truncates(x, y) <=> Sgn(a) # Sgn(b) /\ r # 0
    BY DEF Truncates
  <1> HIDE DEF a, b, c, r
  <1> DEFINE n == Sgn(b) * a
             d == Abs(b)
             s == Sgn(b) * r
  <1>5. n \in Int /\ d \in Nat \ {0} /\ s \in Int /\ n = d * c + s /\ s < d /\ -s < d
    <2>1. CASE b > 0
      BY <2>1, <1>1, <1>2 DEF Sgn, Abs
    <2>2. CASE b < 0
      <3>1. n = -a /\ s = -r /\ d = -b
        BY <2>2, <1>1, <1>2 DEF Sgn, Abs
      <3>2. (-b) * c = -(b * c)
        BY <1>1, <1>2
      <3> HIDE DEF n, d, s
      <3> QED BY <3>1, <3>2, <2>2, <1>1, <1>2 DEF Abs
    <2> QED BY <1>1, <2>1, <2>2
  <1>6. s < 0 <=> Sgn(a) # Sgn(b) /\ r # 0
    BY <1>1, <1>2 DEF Sgn
  <1>10. Floor(x, y) = n \div d
    BY <1>3
  <1> HIDE DEF n, d, s
  <1>7. CASE s >= 0
    <2>1. n \div d = c
      BY <1>2, <1>5, <1>7, FloorIs
    <2> QED BY <2>1, <1>3, <1>4, <1>5, <1>6, <1>7, <1>10
  <1>8. CASE s < 0
    <2>1. d * (c - 1) = d * c - d /\ c - 1 \in Int
      BY <1>2, <1>5
    <2>2. n \div d = c - 1
      <3>1. d * (c - 1) <= n /\ n < d * (c - 1) + d
        BY <1>2, <1>5, <1>8, <2>1
      <3> QED BY <3>1, <2>1, <1>5, FloorIs
    <2> QED BY <2>2, <1>2, <1>3, <1>4, <1>6, <1>8, <1>10
  <1> QED BY <1>5, <1>7, <1>8

\* The processor's trap ends floor division and remainder.
LEMMA NoNumberFromTrap ==
  ASSUME NEW n, NEW d
  PROVE  ~Is(Fails("SIGFPE"), n, d)
  BY DEF Is, Fails, Outcome

\* Floor division gives the floor, unless two int64 of different signs are cut towards zero
\* or the processor traps.
LEMMA FloorQuotient ==
  ASSUME NEW x, NEW y, Number(x), Number(y), NEW o, o = __floor_division__(x, y)
  PROVE  /\ IsZero(y) => o = ZeroDivision
         /\ ~IsZero(y) =>
              /\ IsNumber(o.value) => Number(o.value)
              /\ Is(o, Floor(x, y), 1) <=> ~(Truncates(x, y) \/ Traps(x, y))
  <1> USE NumberParts, Limits
  <1>1. IsZero(y) => o = ZeroDivision
    BY DEF __floor_division__, WithNumber, Number
  <1> SUFFICES ASSUME ~IsZero(y)
               PROVE  /\ IsNumber(o.value) => Number(o.value)
                      /\ Is(o, Floor(x, y), 1) <=> ~(Truncates(x, y) \/ Traps(x, y))
    BY <1>1
  <1>2. y.num # 0
    BY ZeroIsInt64
  <1>3. CASE ~BothInt64(x, y)
    <2> DEFINE q == mpq_fdiv(x, y)
               v == new_number_object(q)
               f == Floor(x, y)
    <2>1. o = Value(v) /\ o.value = v
      BY <1>3 DEF __floor_division__, WithNumber, Value, Outcome, Number
    <2>2. q.num = f /\ q.den = 1 /\ f \in Int
      BY <1>2, FloorParts, FloorRational
    <2> HIDE DEF q
    <2>3. InLowestTerms(q)
      BY <2>2, IntegerIs
    <2>4. Number(v) /\ v.num = f /\ v.den = 1
      BY <2>2, <2>3, FromRational
    <2>5. ~Truncates(x, y) /\ ~Traps(x, y)
      BY <1>3 DEF Truncates, Traps
    <2> HIDE DEF v, f
    <2>6. Is(Value(v), f, 1)
      BY <2>2, <2>4 DEF Is, Value, Outcome, Number
    <2> QED BY <2>1, <2>4, <2>5, <2>6 DEF f
  <1>4. CASE BothInt64(x, y) /\ DivisionTraps(x, y)
    <2>1. o = Fails("SIGFPE")
      BY <1>4 DEF __floor_division__, WithNumber, Number
    <2>2. Traps(x, y)
      BY <1>4 DEF Traps
    <2>3. ~IsNumber(o.value)
      BY <2>1 DEF Fails, Outcome, IsNumber, ARGON_NULL, Object
    <2> QED BY <2>1, <2>2, <2>3, NoNumberFromTrap
  <1>5. CASE BothInt64(x, y) /\ ~DivisionTraps(x, y)
    <2> DEFINE c == CDiv(x.num, y.num)
               v == new_number_object_from_int64(c)
               f == Floor(x, y)
    <2>1. o = Value(v) /\ o.value = v
      BY <1>5 DEF __floor_division__, WithNumber, Value, Outcome, Number
    <2>2. c \in int64 /\ c \in Int
      <3>1. x.num \in int64 /\ y.num \in int64 /\ ~(x.num = INT64_MIN /\ y.num = -1)
        BY <1>5, Int64s DEF DivisionTraps
      <3>2. c \in int64
        BY <3>1, <1>2, CDivFits
      <3> HIDE DEF c
      <3> QED BY <3>2 DEF int64
    <2>3. c = f <=> ~Truncates(x, y)
      BY <1>2, <1>5, CutOrFloor
    <2>4. f \in Int
      BY <1>2, FloorParts
    <2>5. ~Traps(x, y)
      BY <1>5 DEF Traps
    <2> HIDE DEF c, f
    <2>6. Made(v, c, 1)
      BY <2>2, MadeOfInt64
    <2> HIDE DEF v
    <2>7. Is(Value(v), f, 1) <=> c * 1 = f * 1
      BY <2>2, <2>4, <2>6, MadeIs
    <2>8. Is(Value(v), f, 1) <=> c = f
      BY <2>2, <2>4, <2>7
    <2> QED BY <2>1, <2>3, <2>5, <2>6, <2>8 DEF f, Made
  <1> QED BY <1>3, <1>4, <1>5

\* A remainder is what the floor leaves, unless two int64 of different signs are cut towards
\* zero or the processor traps.
LEMMA Remainder ==
  ASSUME NEW x, NEW y, Number(x), Number(y), NEW o, o = __modulo__(x, y)
  PROVE  /\ IsZero(y) => o = ZeroDivision
         /\ ~IsZero(y) =>
              /\ IsNumber(o.value) => Number(o.value)
              /\ Is(o, x.num * y.den - y.num * x.den * Floor(x, y), x.den * y.den)
                   <=> ~(Truncates(x, y) \/ Traps(x, y))
  <1> USE NumberParts, Limits
  <1> DEFINE f == Floor(x, y)
             k == x.num * y.den - y.num * x.den * f
             e == x.den * y.den
  <1>1. IsZero(y) => o = ZeroDivision
    BY DEF __modulo__, WithNumber, Number
  <1> SUFFICES ASSUME ~IsZero(y)
               PROVE  /\ IsNumber(o.value) => Number(o.value)
                      /\ Is(o, k, e) <=> ~(Truncates(x, y) \/ Traps(x, y))
    BY <1>1
  <1>2. y.num # 0 /\ y.num \in Int
    BY ZeroIsInt64
  <1>3. f \in Int
    BY <1>2, FloorParts
  <1> HIDE DEF f
  <1>4. k \in Int /\ e \in Int /\ e # 0
    BY <1>3
  <1>5. CASE ~BothInt64(x, y)
    <2> DEFINE g == mpq_fdiv(x, y)
               m == mpq_mul(y, g)
               n == x.num * m.den - m.num * x.den
               d == x.den * m.den
               v == new_number_object(mpq_fmod(x, y))
    <2>1. o = Value(v) /\ o.value = v
      BY <1>5 DEF __modulo__, WithNumber, Value, Outcome, Number
    <2>2. g.num = f /\ g.den = 1
      BY <1>2, FloorRational DEF f
    <2>3. v = new_number_object(mpq_canonicalize(n, d))
      BY DEF mpq_fmod, mpq_sub
    <2>4. m = mpq_canonicalize(y.num * f, y.den)
      BY <2>2 DEF mpq_mul
    <2> HIDE DEF g, m
    <2>5. InLowestTerms(m) /\ m.num * y.den = (y.num * f) * m.den
      BY <1>3, <2>4, Canonical, y.num * f \in Int, y.den \in Int \ {0}
    <2>6. m.num \in Int /\ m.den \in Nat \ {0}
      BY <2>5 DEF InLowestTerms
    <2>7. n \in Int /\ d \in Int /\ d # 0
      BY <2>6
    <2>8. Made(v, n, d)
      <3> HIDE DEF n, d, v
      <3> QED BY <2>3, <2>7, MadeOf
    <2>9. n * e = k * d
      <3> DEFINE a == x.num
                 b == x.den
                 p == y.num
                 q == y.den
                 s == m.num
                 t == m.den
      <3>1. /\ a \in Int /\ b \in Int /\ p \in Int /\ q \in Int /\ s \in Int /\ t \in Int
            /\ s * q = (p * f) * t
        BY <2>5, <2>6
      <3>2. n = a * t - s * b /\ e = b * q /\ k = a * q - p * b * f /\ d = b * t
        OBVIOUS
      <3> HIDE DEF a, b, p, q, s, t, n, d, e, k
      <3>3. (a * t - s * b) * (b * q) = (a * t) * (b * q) - (b * b) * (s * q)
        BY <3>1
      <3>4. (a * q - p * b * f) * (b * t) = (a * t) * (b * q) - (b * b) * ((p * f) * t)
        BY <1>3, <3>1
      <3> QED BY <3>1, <3>2, <3>3, <3>4
    <2>10. ~Truncates(x, y) /\ ~Traps(x, y)
      BY <1>5 DEF Truncates, Traps
    <2>11. Is(Value(v), k, e)
      <3> HIDE DEF n, d, v, k, e
      <3> QED BY <1>4, <2>7, <2>8, <2>9, MadeIs
    <2> HIDE DEF v
    <2> QED BY <2>1, <2>8, <2>10, <2>11 DEF Made
  <1>6. CASE BothInt64(x, y) /\ DivisionTraps(x, y)
    <2>1. o = Fails("SIGFPE")
      BY <1>6 DEF __modulo__, WithNumber, Number
    <2>2. Traps(x, y)
      BY <1>6 DEF Traps
    <2>3. ~IsNumber(o.value)
      BY <2>1 DEF Fails, Outcome, IsNumber, ARGON_NULL, Object
    <2> HIDE DEF k, e
    <2> QED BY <2>1, <2>2, <2>3, NoNumberFromTrap
  <1>7. CASE BothInt64(x, y) /\ ~DivisionTraps(x, y)
    <2> DEFINE c == CDiv(x.num, y.num)
               r == CRem(x.num, y.num)
               v == new_number_object_from_int64(r)
    <2>1. o = Value(v) /\ o.value = v
      BY <1>7 DEF __modulo__, WithNumber, Value, Outcome, Number
    <2>2. c \in Int /\ r \in Int /\ x.num = y.num * c + r
      BY <1>2, CDivision
    <2>3. r \in int64
      <3>1. x.num \in int64 /\ y.num \in int64 /\ ~(x.num = INT64_MIN /\ y.num = -1)
        BY <1>7, Int64s DEF DivisionTraps
      <3> QED BY <3>1, <1>2, CDivFits
    <2>4. c = f <=> ~Truncates(x, y)
      BY <1>2, <1>7, CutOrFloor DEF f
    <2>5. ~Traps(x, y)
      BY <1>7 DEF Traps
    <2>6. x.den = 1 /\ y.den = 1
      BY <1>7, Int64s
    <2>7. k = x.num - y.num * f /\ e = 1
      BY <1>3, <2>6
    <2> HIDE DEF c, r, k, e
    <2>8. Made(v, r, 1)
      BY <2>3, MadeOfInt64
    <2> HIDE DEF v
    <2>9. Is(Value(v), k, e) <=> r * 1 = k * 1
      BY <1>4, <2>2, <2>7, <2>8, MadeIs
    <2>10. Is(Value(v), k, e) <=> y.num * c = y.num * f
      <3> DEFINE a == x.num
                 p == y.num * c
                 s == y.num * f
      <3>1. p \in Int /\ s \in Int /\ a \in Int /\ a = p + r /\ k = a - s
        BY <1>2, <1>3, <2>2, <2>7
      <3> HIDE DEF a, p, s
      <3>3. r * 1 = k * 1 <=> p = s
        BY ONLY <1>4, <2>2, <3>1
      <3>2. r * 1 = k * 1 <=> y.num * c = y.num * f
        BY <3>3 DEF p, s
      <3> QED BY <2>9, <3>2
    <2>11. y.num * c = y.num * f <=> c = f
      BY <1>2, <1>3, <2>2, Cancel
    <2> QED BY <2>1, <2>4, <2>5, <2>8, <2>10, <2>11 DEF Made
  <1> QED BY <1>5, <1>6, <1>7

-------------------------------------------------------------------------------
(* Powers *)

\* A power is zero only for the base zero, and positive for a positive base.
LEMMA PowerSigns ==
  ASSUME NEW b, b \in Int, b # 0
  PROVE  \A n \in Nat : Power(b, n) \in Int /\ Power(b, n) # 0 /\ (b > 0 => Power(b, n) > 0)
  <1> DEFINE S == {n \in Nat : Power(b, n) # 0 /\ (b > 0 => Power(b, n) > 0)}
  <1>1. Power(b, 0) = 1 /\ \A n \in Nat : Power(b, n) \in Int /\ Power(b, n + 1) = b * Power(b, n)
    BY PowerRounds
  <1>2. 0 \in S
    BY <1>1
  <1>3. ASSUME NEW n \in Nat, n \in S PROVE n + 1 \in S
    <2> DEFINE p == Power(b, n)
    <2>1. p \in Int /\ p # 0 /\ (b > 0 => p > 0) /\ Power(b, n + 1) = b * p
      BY <1>1, <1>3
    <2> HIDE DEF p
    <2>2. b * p # 0 /\ (b > 0 => b * p > 0)
      BY <2>1
    <2> QED BY <2>1, <2>2
  <1>4. \A n \in Nat : n \in S
    <2> HIDE DEF S
    <2> QED BY <1>2, <1>3, Induction
  <1> QED BY <1>1, <1>4

\* An even power is a power of the square.
LEMMA EvenPower ==
  ASSUME NEW b, b \in Int
  PROVE  \A m \in Nat : Power(b, 2 * m) = Power(b * b, m)
  <1> DEFINE S == {m \in Nat : Power(b, 2 * m) = Power(b * b, m)}
             s == b * b
  <1>1. Power(b, 0) = 1 /\ \A n \in Nat : Power(b, n) \in Int /\ Power(b, n + 1) = b * Power(b, n)
    BY PowerRounds
  <1>2. s \in Int
    OBVIOUS
  <1>3. Power(s, 0) = 1 /\ \A n \in Nat : Power(s, n) \in Int /\ Power(s, n + 1) = s * Power(s, n)
    <2> HIDE DEF s
    <2> QED BY <1>2, PowerRounds
  <1>4. 0 \in S
    BY <1>1, <1>3
  <1>5. ASSUME NEW m \in Nat, m \in S PROVE m + 1 \in S
    <2> DEFINE p == Power(b, 2 * m)
    <2>1. 2 * m \in Nat /\ 2 * m + 1 \in Nat /\ 2 * (m + 1) = (2 * m + 1) + 1
      OBVIOUS
    <2>2. p \in Int /\ Power(b, 2 * (m + 1)) = b * (b * p)
      BY <1>1, <2>1
    <2>3. Power(s, m + 1) = s * p
      BY <1>3, <1>5
    <2> HIDE DEF p
    <2>4. b * (b * p) = (b * b) * p
      BY <2>2
    <2> QED BY <2>2, <2>3, <2>4
  <1>6. \A m \in Nat : m \in S
    <2> HIDE DEF S
    <2> QED BY <1>4, <1>5, Induction
  <1> QED BY <1>6

\* An exponent is twice its half, or one more.
LEMMA Halves ==
  ASSUME NEW e, e \in Nat
  PROVE  /\ e \div 2 \in Nat /\ e % 2 \in {0, 1} /\ e = 2 * (e \div 2) + (e % 2)
         /\ (e # 0 => e \div 2 <= e - 1)
  OBVIOUS

\* The sign of a power is the sign of its base where the exponent is odd.
LEMMA PowerOfAbs ==
  ASSUME NEW b, b \in Int, b # 0, NEW e, e \in Nat
  PROVE  Power(b, e) = (IF e % 2 = 1 THEN Sgn(b) ELSE 1) * Power(Abs(b), e)
  <1> DEFINE a == Abs(b)
             m == e \div 2
  <1>1. a \in Int /\ (b > 0 => a = b) /\ (b < 0 => a = -b)
    BY DEF Abs
  <1>2. m \in Nat /\ e % 2 \in {0, 1} /\ e = 2 * m + (e % 2)
    BY Halves
  <1>3. a * a = b * b
    BY <1>1
  <1> HIDE DEF a, m
  <1>4. Power(b, 2 * m) = Power(a, 2 * m)
    BY <1>1, <1>2, <1>3, EvenPower
  <1>5. /\ Power(b, 2 * m) \in Int /\ Power(b, 2 * m + 1) = b * Power(b, 2 * m)
        /\ Power(a, 2 * m) \in Int /\ Power(a, 2 * m + 1) = a * Power(a, 2 * m)
    BY <1>1, <1>2, PowerRounds, 2 * m \in Nat
  <1>6. CASE e % 2 = 1
    <2> DEFINE p == Power(a, 2 * m)
    <2>1. Power(b, e) = b * p /\ Power(a, e) = a * p /\ p \in Int
      BY <1>2, <1>4, <1>5, <1>6
    <2> HIDE DEF p
    <2>2. b * p = Sgn(b) * (a * p)
      <3>1. CASE b > 0
        BY <3>1, <1>1, <2>1 DEF Sgn
      <3>2. CASE b < 0
        BY <3>2, <1>1, <2>1 DEF Sgn
      <3> QED BY <3>1, <3>2
    <2> QED BY <1>6, <2>1, <2>2 DEF a
  <1>7. CASE e % 2 = 0
    <2>1. e = 2 * m
      BY <1>2, <1>7
    <2>2. Power(b, e) = Power(a, e) /\ Power(a, e) \in Int
      BY <2>1, <1>4, <1>5
    <2> QED BY <1>7, <2>2 DEF a
  <1> QED BY <1>2, <1>6, <1>7

\* What a round of exponentiation by squaring keeps: the result by what is left to multiply.
LEMMA SquaredKeeps ==
  ASSUME NEW s, NEW t, t = Squared(s), s.overflow = FALSE, s.result \in int64, s.a \in Int,
         s.e \in Nat, s.e # 0, t.overflow # TRUE
  PROVE  /\ t.overflow = FALSE /\ t.result \in int64 /\ t.a \in Int /\ t.e = s.e \div 2
         /\ t.result * Power(t.a, t.e) = s.result * Power(s.a, s.e)
  <1> DEFINE r == s.result
             a == s.a
             e == s.e
             m == e \div 2
             product == IF e % 2 = 1 THEN r * a ELSE r
             square == IF m > 0 THEN a * a ELSE a
  <1>1. r \in Int /\ a \in Int /\ e \in Nat
    BY Limits DEF int64
  <1>2. m \in Nat /\ e % 2 \in {0, 1} /\ e = 2 * m + (e % 2)
    BY <1>1, Halves
  <1>3. product \in int64 /\ square \in int64
    <2> SUFFICES ASSUME ~(product \in int64 /\ square \in int64) PROVE FALSE
      OBVIOUS
    <2>1. t = [s EXCEPT !.overflow = TRUE]
      BY DEF Squared
    <2> QED BY <2>1
  <1>4. t = [result |-> product, a |-> square, e |-> m, overflow |-> FALSE]
    BY <1>3 DEF Squared
  <1>5. t.result = product /\ t.a = square /\ t.e = m /\ t.overflow = FALSE
    BY <1>4
  <1> HIDE DEF r, a, e, m
  <1>6. product * Power(square, m) = r * Power(a, e)
    <2>0. Power(a, 0) = 1 /\ \A n \in Nat : Power(a, n) \in Int /\ Power(a, n + 1) = a * Power(a, n)
      BY <1>1, PowerRounds
    <2> DEFINE p == Power(a, 2 * m)
    <2>1. p \in Int /\ Power(a, 2 * m + 1) = a * p
      BY <1>2, <2>0, 2 * m \in Nat
    <2>2. Power(square, m) = p
      <3>1. CASE m > 0
        <4>1. square = a * a
          BY <3>1
        <4> QED BY <1>1, <1>2, <4>1, EvenPower
      <3>2. CASE m = 0
        <4>1. square = a /\ 2 * m = m
          BY <3>2
        <4> QED BY <4>1
      <3> QED BY <1>2, <3>1, <3>2
    <2>3. CASE e % 2 = 1
      <3>1. product = r * a /\ Power(a, e) = a * p
        BY <1>2, <2>1, <2>3
      <3> HIDE DEF p, product, square
      <3> QED BY <3>1, <1>1, <2>1, <2>2
    <2>4. CASE e % 2 = 0
      <3>1. product = r /\ Power(a, e) = p
        BY <1>2, <2>4
      <3> HIDE DEF p, product, square
      <3> QED BY <3>1, <2>2
    <2> QED BY <1>2, <2>3, <2>4
  <1>7. square \in Int
    BY <1>1
  <1> HIDE DEF product, square
  <1> QED BY <1>3, <1>5, <1>6, <1>7 DEF m, a, r, e

\* The loop of __exponent__ ends within int64 with the power, or it has noticed that it does not.
LEMMA IntPowIs ==
  ASSUME NEW a, a \in Int, NEW e, e \in Nat, NEW p, p = IntPow(a, e)
  PROVE  \/ p.overflow = TRUE
         \/ p.overflow = FALSE /\ p.result \in int64 /\ p.result = Power(a, e)
  <1> DEFINE c == [result |-> 1, a |-> a, e |-> e, overflow |-> FALSE]
             Body(f, n) == [i \in 0 .. n |-> IF i = 0 THEN c ELSE Squared(f[i - 1])]
             Rounded(n) == \E f : f = Body(f, n)
             after == CHOOSE f : f = Body(f, e)
  <1>1. \A n \in Nat : Rounded(n)
    <2> DEFINE S == {n \in Nat : Rounded(n)}
    <2>1. 0 \in S
      <3> DEFINE f == [i \in 0 .. 0 |-> c]
      <3>1. \A i \in 0 .. 0 : i = 0
        OBVIOUS
      <3>2. f = Body(f, 0)
        BY <3>1, Zenon
      <3> QED BY <3>2
    <2>2. ASSUME NEW n \in Nat, n \in S PROVE n + 1 \in S
      <3>1. PICK f : f = Body(f, n)
        BY <2>2
      <3> DEFINE g == [i \in 0 .. n + 1 |-> IF i = n + 1 THEN Squared(f[n]) ELSE f[i]]
      <3>2. g = Body(g, n + 1)
        <4>1. ASSUME NEW i \in 0 .. n + 1 PROVE g[i] = IF i = 0 THEN c ELSE Squared(g[i - 1])
          <5>1. CASE i = 0
            <6>1. g[i] = f[0] /\ f[0] = c
              BY <3>1, <5>1
            <6> QED BY <5>1, <6>1
          <5>2. CASE i # 0 /\ i # n + 1
            <6>1. i \in 0 .. n /\ i - 1 \in 0 .. n /\ i - 1 # n + 1 /\ i - 1 \in 0 .. n + 1
              BY <5>2
            <6>2. g[i] = f[i] /\ g[i - 1] = f[i - 1]
              BY <6>1, <5>2
            <6>3. f[i] = Squared(f[i - 1])
              BY <3>1, <5>2, <6>1
            <6> QED BY <5>2, <6>2, <6>3
          <5>3. CASE i = n + 1
            <6>1. g[i] = Squared(f[n]) /\ g[i - 1] = f[n] /\ i # 0
              BY <5>3
            <6> QED BY <6>1
          <5> QED BY <5>1, <5>2, <5>3
        <4> HIDE DEF c
        <4> QED BY <4>1
      <3> HIDE DEF Body, g
      <3> QED BY <3>2
    <2> HIDE DEF S
    <2>3. \A n \in Nat : n \in S
      BY <2>1, <2>2, Induction
    <2> QED BY <2>3 DEF S
  <1>2. after = Body(after, e)
    <2> HIDE DEF Body
    <2> QED BY <1>1
  <1>3. p = after[e]
    BY DEF IntPow
  <1> HIDE DEF after
  <1>4. after[0] = c /\ \A i \in 0 .. e - 1 : after[i + 1] = Squared(after[i])
    <2>1. after[0] = c
      BY <1>2
    <2>2. ASSUME NEW i \in 0 .. e - 1 PROVE after[i + 1] = Squared(after[i])
      <3>1. i + 1 \in 0 .. e /\ i + 1 # 0 /\ (i + 1) - 1 = i
        OBVIOUS
      <3> HIDE DEF c
      <3> QED BY <3>1, <1>2
    <2> QED BY <2>1, <2>2
  <1> DEFINE Left(s, i) == /\ s.overflow = FALSE /\ s.result \in int64 /\ s.a \in Int
                           /\ s.e \in Nat /\ s.e <= e - i
                           /\ s.result * Power(s.a, s.e) = Power(a, e)
             Good(i) == i <= e => after[i].overflow = TRUE \/ Left(after[i], i)
             S == {i \in Nat : Good(i)}
  <1>5. 0 \in S
    <2>1. /\ c.overflow = FALSE /\ c.result = 1 /\ c.a = a /\ c.e = e
          /\ 1 \in int64 /\ Power(a, e) \in Int
      BY Limits, PowerRounds DEF int64
    <2>2. Left(c, 0)
      BY <2>1
    <2> HIDE DEF c
    <2> QED BY <1>4, <2>2
  <1>6. ASSUME NEW i \in Nat, i \in S PROVE i + 1 \in S
    <2> HIDE DEF Left, Good
    <2> SUFFICES Good(i + 1)
      OBVIOUS
    <2> SUFFICES ASSUME i + 1 <= e
                 PROVE  after[i + 1].overflow = TRUE \/ Left(after[i + 1], i + 1)
      BY Zenon DEF Good
    <2> USE DEF Good
    <2> DEFINE s == after[i]
               t == after[i + 1]
    <2> USE DEF Left
    <2>1. t = Squared(s) /\ (s.overflow = TRUE \/ Left(s, i))
      BY <1>4, <1>6
    <2> HIDE DEF s, t
    <2>2. CASE s.overflow = TRUE
      <3>1. t = s
        BY <2>1, <2>2 DEF Squared
      <3> QED BY <2>2, <3>1 DEF t
    <2>3. CASE Left(s, i) /\ s.e = 0
      <3>1. t = s
        BY <2>1, <2>3 DEF Squared
      <3>2. Left(t, i + 1)
        BY <2>3, <3>1
      <3> HIDE DEF Left
      <3> QED BY <3>2 DEF t
    <2>4. CASE Left(s, i) /\ s.e # 0 /\ t.overflow # TRUE
      <3>1. s.e \div 2 \in Nat /\ s.e \div 2 <= s.e - 1
        BY <2>4, Halves
      <3>2. /\ t.overflow = FALSE /\ t.result \in int64 /\ t.a \in Int /\ t.e = s.e \div 2
            /\ t.result * Power(t.a, t.e) = s.result * Power(s.a, s.e)
        BY <2>1, <2>4, SquaredKeeps
      <3>3. Left(t, i + 1)
        BY <2>4, <3>1, <3>2
      <3> HIDE DEF Left
      <3> QED BY <3>3 DEF t
    <2> QED BY <2>1, <2>2, <2>3, <2>4 DEF t
  <1>7. e \in S
    <2> HIDE DEF S
    <2> QED BY <1>5, <1>6, Induction
  <1>8. ASSUME Left(p, e) PROVE p.overflow = FALSE /\ p.result \in int64 /\ p.result = Power(a, e)
    <2>1. p.e = 0 /\ p.result \in Int
      BY <1>8, Limits DEF int64
    <2>2. Power(p.a, 0) = 1
      BY <1>8, PowerRounds
    <2> QED BY <1>8, <2>1, <2>2
  <1>9. p.overflow = TRUE \/ Left(p, e)
    BY <1>3, <1>7
  <1> HIDE DEF Left
  <1> QED BY <1>8, <1>9

\* A power with an integral exponent.
LEMMA PowZ ==
  ASSUME NEW x, Number(x), NEW n, n \in Int, n < 0 => x.num # 0,
         NEW v, v = new_number_object(mpq_pow_z(x, n))
  PROVE  /\ n >= 0 => Made(v, Power(x.num, n), Power(x.den, n))
         /\ n < 0 => Made(v, Power(x.den, -n), Power(x.num, -n))
  <1> USE NumberParts
  <1>1. CASE n >= 0
    <2> DEFINE a == Power(x.num, n)
               b == Power(x.den, n)
    <2>1. n \in Nat /\ x.den \in Int /\ x.den # 0
      BY <1>1
    <2>2. a \in Int
      BY <2>1, PowerRounds
    <2>3. b \in Int \ {0}
      BY <2>1, PowerSigns
    <2>4. v = new_number_object(mpq_canonicalize(a, b))
      BY <1>1 DEF mpq_pow_z
    <2> HIDE DEF a, b
    <2>5. Made(v, a, b)
      BY <2>2, <2>3, <2>4, MadeOf
    <2> QED BY <1>1, <2>5 DEF a, b
  <1>2. CASE n < 0
    <2> DEFINE a == Power(x.den, -n)
               b == Power(x.num, -n)
    <2>1. -n \in Nat /\ x.den \in Int /\ x.num \in Int /\ x.num # 0
      BY <1>2
    <2>2. a \in Int
      BY <2>1, PowerRounds
    <2>3. b \in Int \ {0}
      BY <2>1, PowerSigns
    <2>4. v = new_number_object(mpq_canonicalize(a, b))
      BY <1>2 DEF mpq_pow_z
    <2> HIDE DEF a, b
    <2>5. Made(v, a, b)
      BY <2>2, <2>3, <2>4, MadeOf
    <2> QED BY <1>2, <2>5 DEF a, b
  <1> QED BY <1>1, <1>2

\* What has been made as n / d is n / d.
LEMMA MadeIsThat ==
  ASSUME NEW v, NEW n, NEW d, Made(v, n, d), n \in Int, d \in Int, d # 0
  PROVE  Is(Value(v), n, d)
  BY MadeIs

\* A power of x with the integral exponent y is exact, where the rationals compute it.
LEMMA PowerIs ==
  ASSUME NEW x, NEW y, Number(x), Number(y), y.num < 0 => x.num # 0,
         NEW o, o = Value(new_number_object(mpq_pow_z(x, y.num)))
  PROVE  /\ Number(o.value)
         /\ y.num >= 0 => Is(o, Power(x.num, y.num), Power(x.den, y.num))
         /\ y.num < 0 =>
              LET e == -y.num
                  s == IF e % 2 = 1 THEN Sgn(x.num) ELSE 1
              IN Is(o, s * Power(x.den, e), Power(Abs(x.num), e))
  <1> USE NumberParts
  <1> DEFINE v == new_number_object(mpq_pow_z(x, y.num))
  <1>1. o = Value(v) /\ o.value = v
    BY DEF Value, Outcome
  <1>2. /\ y.num >= 0 => Made(v, Power(x.num, y.num), Power(x.den, y.num))
        /\ y.num < 0 => Made(v, Power(x.den, -y.num), Power(x.num, -y.num))
    BY PowZ
  <1> HIDE DEF v
  <1>3. CASE y.num >= 0
    <2> DEFINE a == Power(x.num, y.num)
               b == Power(x.den, y.num)
    <2>1. y.num \in Nat /\ x.den \in Int /\ x.den # 0 /\ x.num \in Int
      BY <1>3
    <2>2. a \in Int /\ b \in Int /\ b # 0
      BY <2>1, PowerRounds, PowerSigns
    <2>3. Made(v, a, b)
      BY <1>2, <1>3
    <2> HIDE DEF a, b
    <2>4. Is(Value(v), a, b)
      BY <2>2, <2>3, MadeIsThat
    <2> QED BY <1>1, <1>3, <2>3, <2>4 DEF a, b, Made
  <1>4. CASE y.num < 0
    <2> DEFINE e == -y.num
               s == IF e % 2 = 1 THEN Sgn(x.num) ELSE 1
               a == Power(x.den, e)
               b == Power(x.num, e)
               k == Power(Abs(x.num), e)
    <2>1. /\ e \in Nat /\ x.den \in Int /\ x.den # 0 /\ x.num \in Int /\ x.num # 0
          /\ Abs(x.num) \in Int /\ Abs(x.num) # 0
      BY <1>4 DEF Abs
    <2>2. a \in Int /\ b \in Int /\ b # 0 /\ k \in Int /\ k # 0
      BY <2>1, PowerRounds, PowerSigns
    <2>3. Made(v, a, b)
      BY <1>2, <1>4
    <2>4. b = s * k
      BY <2>1, PowerOfAbs
    <2>5. s = 1 \/ s = -1
      BY <2>1 DEF Sgn
    <2> HIDE DEF a, b, k, s, e
    <2>6. s * a \in Int
      BY <2>2, <2>5
    <2>7. a * k = (s * a) * b
      <3>1. CASE s = 1
        BY <3>1, <2>2, <2>4
      <3>2. CASE s = -1
        BY <3>2, <2>2, <2>4
      <3> QED BY <2>5, <3>1, <3>2
    <2>8. Is(Value(v), s * a, k)
      BY <2>2, <2>3, <2>6, <2>7, MadeIs
    <2> QED BY <1>1, <1>4, <2>3, <2>8 DEF s, a, k, e, Made
  <1> QED BY <1>3, <1>4

\* Exponentiation is exact for integral exponents, has no number for the root of a negative
\* number or the inverse of zero, and gives 1 for zero to the power of zero.
LEMMA Exponentiation ==
  ASSUME NEW x, NEW y, Number(x), Number(y), NEW o, o = __exponent__(x, y)
  PROVE  /\ IsNumber(o.value) => Number(o.value)
         /\ y.den = 1 /\ y.num >= 0 /\ ~(x.num = 0 /\ y.num = 0) =>
              Is(o, Power(x.num, y.num), Power(x.den, y.num))
         /\ y.den = 1 /\ y.num < 0 /\ x.num # 0 =>
              LET e == -y.num
                  s == IF e % 2 = 1 THEN Sgn(x.num) ELSE 1
              IN Is(o, s * Power(x.den, e), Power(Abs(x.num), e))
         /\ y.den # 1 /\ x.num < 0 => o.err = "MathsError"
         /\ x.num = 0 /\ y.num = 0 => Is(o, 1, 1)
         /\ x.num = 0 /\ y.num < 0 => o.err = IF y.is_int64 THEN "SIGFPE" ELSE "MathsError"
  <1> USE NumberParts, Limits
  <1> DEFINE v == new_number_object(mpq_pow_z(x, y.num))
             Exact == /\ y.num >= 0 => Is(o, Power(x.num, y.num), Power(x.den, y.num))
                      /\ y.num < 0 =>
                           LET e == -y.num
                               s == IF e % 2 = 1 THEN Sgn(x.num) ELSE 1
                           IN Is(o, s * Power(x.den, e), Power(Abs(x.num), e))
  <1>1. ASSUME o = Value(v), y.num < 0 => x.num # 0 PROVE Number(o.value) /\ Exact
    BY <1>1, PowerIs
  <1>2. (x.num = 0 => x.is_int64 /\ x.den = 1) /\ (y.num = 0 => y.is_int64 /\ y.den = 1)
    BY ZeroIsInt64 DEF IsZero
  <1>3. \A e : Fails(e).err = e /\ ~IsNumber(Fails(e).value)
    BY DEF Fails, Outcome, IsNumber, ARGON_NULL, Object
  <1> HIDE DEF Exact
  <1>4. ASSUME o = ExponentOfRational(x, y)
        PROVE  /\ IsNumber(o.value) => Number(o.value)
               /\ y.den = 1 /\ ~(x.num = 0 /\ y.num <= 0) => Exact
               /\ y.den # 1 /\ x.num < 0 => o.err = "MathsError"
               /\ x.num = 0 /\ y.num <= 0 => o.err = "MathsError"
    <2>1. CASE x.num = 0 /\ y.num <= 0
      <3>1. o = Fails("MathsError")
        BY <1>4, <2>1 DEF ExponentOfRational
      <3> QED BY <2>1, <3>1, <1>3
    <2>2. CASE ~(x.num = 0 /\ y.num <= 0) /\ x.num < 0 /\ y.den # 1
      <3>1. o = Fails("MathsError")
        BY <1>4, <2>2 DEF ExponentOfRational
      <3> QED BY <2>2, <3>1, <1>3
    <2>3. CASE ~(x.num = 0 /\ y.num <= 0) /\ y.den = 1
      <3>1. o = Value(v)
        BY <1>4, <2>3 DEF ExponentOfRational
      <3> QED BY <2>3, <3>1, <1>1
    <2>4. CASE ~(x.num = 0 /\ y.num <= 0) /\ ~(x.num < 0) /\ y.den # 1
      <3> DEFINE q == [num |-> x.num, den |-> 1]
                 w == new_number_object(q)
      <3>1. o = Value(w) /\ o.value = w
        BY <1>4, <2>4 DEF ExponentOfRational, Value, Outcome
      <3>2. InLowestTerms(q)
        BY IntegerIs
      <3> HIDE DEF q
      <3>3. Number(w)
        BY <3>2, FromRational
      <3> QED BY <2>4, <3>1, <3>3
    <2> QED BY <2>1, <2>2, <2>3, <2>4
  <1>5. CASE ~BothInt64(x, y)
    <2>1. o = ExponentOfRational(x, y)
      BY <1>5 DEF __exponent__, WithNumber, Number
    <2>2. ~(x.num = 0 /\ y.num = 0) /\ (x.num = 0 => ~y.is_int64)
      BY <1>2, <1>5 DEF BothInt64
    <2> QED BY <2>1, <2>2, <1>4 DEF Exact
  <1>6. CASE BothInt64(x, y) /\ y.num < 0
    <2>1. x.den = 1 /\ y.den = 1 /\ y.is_int64
      BY <1>6, Int64s DEF BothInt64
    <2>2. CASE x.num = 0
      <3>1. o = Fails("SIGFPE")
        BY <1>6, <2>2 DEF __exponent__, WithNumber, Number
      <3> QED BY <1>3, <1>6, <2>1, <2>2, <3>1
    <2>3. CASE x.num # 0
      <3>1. o = Value(v)
        BY <1>6, <2>3 DEF __exponent__, WithNumber, Number
      <3>2. Number(o.value) /\ Exact
        BY <2>3, <3>1, <1>1
      <3> QED BY <1>6, <2>1, <2>3, <3>2 DEF Exact
    <2> QED BY <2>2, <2>3
  <1>7. CASE BothInt64(x, y) /\ y.num >= 0
    <2> DEFINE p == IntPow(x.num, y.num)
               w == new_number_object_from_int64(p.result)
    <2>1. x.den = 1 /\ y.den = 1 /\ y.is_int64 /\ x.num \in int64 /\ y.num \in Nat
      BY <1>7, Int64s DEF BothInt64
    <2>2. \/ p.overflow = TRUE
          \/ p.overflow = FALSE /\ p.result \in int64 /\ p.result = Power(x.num, y.num)
      <3>1. x.num \in Int /\ y.num \in Nat
        BY <2>1
      <3> HIDE DEF p
      <3>2. p = IntPow(x.num, y.num)
        BY DEF p
      <3> QED BY ONLY <3>1, <3>2, IntPowIs
    <2>3. p.overflow = TRUE => o = ExponentOfRational(x, y)
      BY <1>7 DEF __exponent__, WithNumber, Number
    <2>4. p.overflow = FALSE => o = Value(w) /\ o.value = w
      BY <1>7 DEF __exponent__, WithNumber, Number, Value, Outcome
    <2>5. ASSUME p.overflow = FALSE
          PROVE  Number(o.value) /\ Is(o, Power(x.num, y.num), Power(x.den, y.num))
      <3> DEFINE b == Power(x.den, y.num)
      <3>1. b = 1
        <4> DEFINE S == {n \in Nat : Power(1, n) = 1}
        <4>1. 0 \in S /\ \A n \in Nat : n \in S => n + 1 \in S
          BY PowerRounds
        <4>2. y.num \in S
          <5> HIDE DEF S
          <5> QED BY <2>1, <4>1, Induction
        <4> QED BY <2>1, <4>2
      <3>2. p.result \in int64 /\ p.result \in Int /\ p.result = Power(x.num, y.num)
        BY <2>2, <2>5 DEF int64
      <3> HIDE DEF p, b
      <3>3. Made(w, p.result, 1)
        BY <3>2, MadeOfInt64
      <3> HIDE DEF w
      <3>4. Is(Value(w), p.result, 1)
        BY <3>2, <3>3, MadeIsThat
      <3> QED BY <2>4, <2>5, <3>1, <3>2, <3>3, <3>4 DEF b, Made
    <2>6. ASSUME x.num = 0, y.num = 0
          PROVE  p.overflow = FALSE /\ Power(x.num, y.num) = 1 /\ Power(x.den, y.num) = 1
      <3>1. Power(x.num, 0) = 1 /\ Power(x.den, 0) = 1
        <4>1. x.num \in Int /\ x.den \in Int
          OBVIOUS
        <4> QED BY ONLY <4>1, PowerRounds
      <3>2. p = [result |-> 1, a |-> x.num, e |-> y.num, overflow |-> FALSE]
        <4> DEFINE c == [result |-> 1, a |-> x.num, e |-> y.num, overflow |-> FALSE]
                   Body(f) == [i \in 0 .. y.num |-> IF i = 0 THEN c ELSE Squared(f[i - 1])]
                   g == [i \in 0 .. y.num |-> c]
        <4>1. \A i \in 0 .. y.num : i = 0
          BY <2>6
        <4>2. g = Body(g)
          BY <4>1, Zenon
        <4>3. \E f : f = Body(f)
          <5> HIDE DEF g, Body
          <5> QED BY <4>2
        <4> DEFINE after == CHOOSE f : f = Body(f)
        <4>4. after = Body(after)
          <5> HIDE DEF Body
          <5> QED BY <4>3
        <4>5. p = after[y.num]
          BY DEF IntPow
        <4> HIDE DEF after
        <4>6. after[0] = c
          BY <2>6, <4>4
        <4> QED BY <4>5, <4>6, <2>6
      <3> HIDE DEF p
      <3> QED BY <2>6, <3>1, <3>2
    <2> HIDE DEF p
    <2>7. CASE p.overflow = TRUE
      <3>1. ~(x.num = 0 /\ y.num = 0)
        BY <2>6, <2>7
      <3> QED BY <1>4, <1>7, <2>1, <2>3, <2>7, <3>1 DEF Exact
    <2>8. CASE p.overflow = FALSE
      <3>1. Number(o.value) /\ Is(o, Power(x.num, y.num), Power(x.den, y.num))
        BY <2>5, <2>8
      <3>2. x.num = 0 /\ y.num = 0 => Is(o, 1, 1)
        BY <2>6, <3>1
      <3> QED BY ONLY <1>7, <2>1, <3>1, <3>2
    <2> QED BY <2>2, <2>7, <2>8
  <1> QED BY <1>5, <1>6, <1>7

-------------------------------------------------------------------------------
(* The properties of two numbers *)

\* ExactBut of any two numbers.
LEMMA ExactPair ==
  ASSUME NEW x, NEW y, Number(x), Number(y)
  PROVE  LET n == x.num * y.den
             d == Abs(y.num) * x.den
             floor == (Sgn(y.num) * n) \div d
         IN /\ Is(__negation__(x), -x.num, x.den) <=> ~NegationWraps(x)
            /\ Is(__add__(x, y), n + y.num * x.den, x.den * y.den)
            /\ Is(__subtract__(x, y), n - y.num * x.den, x.den * y.den) <=> ~SubtractionWraps(x, y)
            /\ Is(__multiply__(x, y), x.num * y.num, x.den * y.den)
            /\ IF IsZero(y)
                 THEN /\ __division__(x, y) = ZeroDivision
                      /\ __floor_division__(x, y) = ZeroDivision
                      /\ __modulo__(x, y) = ZeroDivision
                 ELSE /\ Is(__division__(x, y), Sgn(y.num) * n, d) <=> ~DivisionWraps(x, y)
                      /\ Is(__floor_division__(x, y), floor, 1)
                           <=> ~(Truncates(x, y) \/ Traps(x, y))
                      /\ Is(__modulo__(x, y), n - y.num * x.den * floor, x.den * y.den)
                           <=> ~(Truncates(x, y) \/ Traps(x, y))
  <1> DEFINE n == x.num * y.den
             d == Abs(y.num) * x.den
             floor == (Sgn(y.num) * n) \div d
             sum == n + y.num * x.den
             den == x.den * y.den
             product == x.num * y.num
  <1>1. Is(__negation__(x), -x.num, x.den) <=> ~NegationWraps(x)
    BY Negation
  <1>2. Is(__add__(x, y), sum, den) /\ Is(__multiply__(x, y), product, den)
    <2>1. sum \in Int /\ product \in Int /\ den \in Int /\ den # 0
      BY NumberParts
    <2>2. /\ __add__(x, y) = Value(__add__(x, y).value) /\ Made(__add__(x, y).value, sum, den)
          /\ __multiply__(x, y) = Value(__multiply__(x, y).value)
          /\ Made(__multiply__(x, y).value, product, den)
      BY Sum, Product
    <2> HIDE DEF sum, product, den
    <2> QED BY <2>1, <2>2, MadeIsThat
  <1>3. Is(__subtract__(x, y), n - y.num * x.den, x.den * y.den) <=> ~SubtractionWraps(x, y)
    BY Difference
  <1>4. /\ IsZero(y) => __division__(x, y) = ZeroDivision
        /\ ~IsZero(y) => (Is(__division__(x, y), Sgn(y.num) * n, d) <=> ~DivisionWraps(x, y))
    BY Quotient
  <1>5. /\ IsZero(y) => __floor_division__(x, y) = ZeroDivision
        /\ ~IsZero(y) => (Is(__floor_division__(x, y), floor, 1)
                            <=> ~(Truncates(x, y) \/ Traps(x, y)))
    BY FloorQuotient DEF Floor
  <1>6. /\ IsZero(y) => __modulo__(x, y) = ZeroDivision
        /\ ~IsZero(y) => (Is(__modulo__(x, y), n - y.num * x.den * floor, x.den * y.den)
                            <=> ~(Truncates(x, y) \/ Traps(x, y)))
    BY Remainder DEF Floor
  <1> QED BY <1>1, <1>2, <1>3, <1>4, <1>5, <1>6

\* mpq_cmp is zero for one number only.
LEMMA EqualNumbers ==
  ASSUME NEW x, NEW y, Number(x), Number(y)
  PROVE  mpq_cmp(x, y) = 0 <=> x.num = y.num /\ x.den = y.den
  <1> DEFINE a == x.num * y.den
             b == y.num * x.den
  <1>1. a \in Int /\ b \in Int
    BY NumberParts
  <1>2. mpq_cmp(x, y) = 0 <=> a = b
    BY <1>1 DEF mpq_cmp, Sgn
  <1>3. a = b => x.num = y.num /\ x.den = y.den
    BY NumberParts, OneForm
  <1>4. x.num = y.num /\ x.den = y.den => a = b
    BY NumberParts
  <1> QED BY <1>2, <1>3, <1>4

\* The hash tells numbers apart, and nothing else does.
LEMMA HashOfNumber ==
  ASSUME NEW x, NEW y, Number(x), Number(y)
  PROVE  mpq_cmp(x, y) = 0 <=> __hash__(x) = __hash__(y)
  <1> USE NumberParts
  <1>1. mpq_cmp(x, y) = 0 <=> x.num = y.num /\ x.den = y.den
    BY EqualNumbers
  <1>2. CASE x.is_int64 /\ y.is_int64
    BY <1>1, <1>2 DEF __hash__
  <1>3. CASE ~x.is_int64 /\ ~y.is_int64
    BY <1>1, <1>3 DEF __hash__
  <1>4. CASE x.is_int64 /\ ~y.is_int64
    <2>1. Len(__hash__(x)) = 1 /\ Len(__hash__(y)) = 2
      BY <1>4 DEF __hash__
    <2>2. ~(x.num = y.num /\ x.den = y.den)
      BY <1>4
    <2> QED BY <1>1, <2>1, <2>2
  <1>5. CASE ~x.is_int64 /\ y.is_int64
    <2>1. Len(__hash__(x)) = 2 /\ Len(__hash__(y)) = 1
      BY <1>5 DEF __hash__
    <2>2. ~(x.num = y.num /\ x.den = y.den)
      BY <1>5
    <2> QED BY <1>1, <2>1, <2>2
  <1> QED BY <1>2, <1>3, <1>4, <1>5

\* A comparison compares the values, unless the sign of an int64 is lost.
LEMMA Comparison ==
  ASSUME NEW x, NEW y, Number(x), Number(y), ~ComparisonWraps(x, y)
  PROVE  Compare(x, y) = mpq_cmp(x, y)
  <1> USE NumberParts
  <1>1. CASE BothInt64(x, y) \/ ~(x.is_int64 \/ y.is_int64)
    BY <1>1 DEF Compare
  <1>2. CASE x.is_int64 /\ ~y.is_int64
    <2> DEFINE a == y.num
               b == x.num * y.den
    <2>1. x.den = 1 /\ ~(x.num < 0)
      BY <1>2 DEF ComparisonWraps
    <2>2. Unsigned(x.num) = x.num
      BY <2>1 DEF Unsigned
    <2>3. Compare(x, y) = -Sgn(a * 1 - x.num * y.den)
      BY <1>2, <2>2 DEF Compare, BothInt64, mpq_cmp_ui, mpq_cmp
    <2>4. mpq_cmp(x, y) = Sgn(x.num * y.den - a * 1)
      BY <2>1 DEF mpq_cmp
    <2>5. a \in Int /\ b \in Int
      OBVIOUS
    <2>6. -Sgn(a * 1 - b) = Sgn(b - a * 1)
      <3> HIDE DEF a, b
      <3> QED BY <2>5 DEF Sgn
    <2> QED BY <2>3, <2>4, <2>6
  <1>3. CASE ~x.is_int64 /\ y.is_int64
    <2>1. y.den = 1 /\ ~(y.num < 0)
      BY <1>3 DEF ComparisonWraps
    <2>2. Unsigned(y.num) = y.num
      BY <2>1 DEF Unsigned
    <2>3. Compare(x, y) = Sgn(x.num * 1 - y.num * x.den)
      BY <1>3, <2>2 DEF Compare, BothInt64, mpq_cmp_ui, mpq_cmp
    <2>4. mpq_cmp(x, y) = Sgn(x.num * 1 - y.num * x.den)
      BY <2>1 DEF mpq_cmp
    <2> QED BY <2>3, <2>4
  <1> QED BY <1>1, <1>2, <1>3 DEF BothInt64

\* OrderBut of any two numbers.
LEMMA OrderPair ==
  ASSUME NEW x, NEW y, Number(x), Number(y), NEW c, c = mpq_cmp(x, y)
  PROVE  /\ c = 0 <=> __hash__(x) = __hash__(y)
         /\ ~ComparisonWraps(x, y) =>
              /\ __equal__(x, y) = Value(Bool(c = 0)) /\ __not_equal__(x, y) = Value(Bool(c # 0))
              /\ __less_than__(x, y) = Value(Bool(c < 0))
              /\ __less_than_equal__(x, y) = Value(Bool(c <= 0))
              /\ __greater_than__(x, y) = Value(Bool(c > 0))
              /\ __greater_than_equal__(x, y) = Value(Bool(c >= 0))
  <1>1. c = 0 <=> __hash__(x) = __hash__(y)
    BY HashOfNumber
  <1>2. ASSUME ~ComparisonWraps(x, y)
        PROVE  /\ __equal__(x, y) = Value(Bool(c = 0)) /\ __not_equal__(x, y) = Value(Bool(c # 0))
               /\ __less_than__(x, y) = Value(Bool(c < 0))
               /\ __less_than_equal__(x, y) = Value(Bool(c <= 0))
               /\ __greater_than__(x, y) = Value(Bool(c > 0))
               /\ __greater_than_equal__(x, y) = Value(Bool(c >= 0))
    <2>1. Compare(x, y) = c /\ IsNumber(y)
      BY <1>2, Comparison DEF Number
    <2>2. __equal__(x, y) = Value(Bool(c = 0)) /\ __not_equal__(x, y) = Value(Bool(c # 0))
      BY <2>1 DEF __equal__, __not_equal__, Bool
    <2>3. /\ __less_than__(x, y) = Value(Bool(c < 0))
          /\ __less_than_equal__(x, y) = Value(Bool(c <= 0))
          /\ __greater_than__(x, y) = Value(Bool(c > 0))
          /\ __greater_than_equal__(x, y) = Value(Bool(c >= 0))
      BY <2>1 DEF __less_than__, __less_than_equal__, __greater_than__, __greater_than_equal__,
                  WithNumber
    <2> QED BY <2>2, <2>3
  <1> QED BY <1>1, <1>2

-------------------------------------------------------------------------------
(* Literals *)

\* Exponents add.
LEMMA PowerSum ==
  ASSUME NEW b, b \in Int, NEW m, m \in Nat
  PROVE  \A n \in Nat : Power(b, m + n) = Power(b, m) * Power(b, n)
  <1> DEFINE S == {n \in Nat : Power(b, m + n) = Power(b, m) * Power(b, n)}
             p == Power(b, m)
  <1>1. Power(b, 0) = 1 /\ \A n \in Nat : Power(b, n) \in Int /\ Power(b, n + 1) = b * Power(b, n)
    BY PowerRounds
  <1>2. 0 \in S
    BY <1>1
  <1>3. ASSUME NEW n \in Nat, n \in S PROVE n + 1 \in S
    <2> DEFINE r == Power(b, n)
    <2>1. p \in Int /\ r \in Int /\ Power(b, m + n) = p * r /\ Power(b, n + 1) = b * r
      BY <1>1, <1>3
    <2>2. m + n \in Nat /\ m + (n + 1) = (m + n) + 1
      OBVIOUS
    <2>3. Power(b, m + (n + 1)) = b * (p * r)
      BY <1>1, <2>1, <2>2
    <2> HIDE DEF p, r
    <2>4. b * (p * r) = p * (b * r)
      BY <2>1
    <2> QED BY <2>1, <2>3, <2>4 DEF p
  <1>4. \A n \in Nat : n \in S
    <2> HIDE DEF S
    <2> QED BY <1>2, <1>3, Induction
  <1> QED BY <1>4

\* A literal with its sign, n / d: its digits scaled by its exponent.
LiteralNum(t) ==
  (IF t.negative THEN -t.digits ELSE t.digits)
    * (IF t.exp > 0 THEN Power(detect_base(t.radix), t.exp) ELSE 1)
LiteralDen(t) ==
  Power(t.radix, t.frac_len) * (IF t.exp < 0 THEN Power(detect_base(t.radix), -t.exp) ELSE 1)

\* A literal is read as the number that its text says.
LEMMA LiteralIs ==
  ASSUME NEW t \in Texts, NEW q, q = mpq_set_decimal_str_exp(t)
  PROVE  /\ InLowestTerms(q) /\ q.num * LiteralDen(t) = LiteralNum(t) * q.den
         /\ LiteralNum(t) \in Int /\ LiteralDen(t) \in Int /\ LiteralDen(t) # 0
  <1> DEFINE b == detect_base(t.radix)
             F == IF t.radix = 16 THEN 4 * t.frac_len ELSE t.frac_len
             x == t.exp
             n == t.digits
             u == IF F - x >= 0 THEN mpq_canonicalize(n, Power(b, F - x))
                                ELSE [num |-> n * Power(b, -(F - x)), den |-> 1]
  <1>1. /\ t.radix \in {2, 8, 10, 16} /\ t.negative \in BOOLEAN
        /\ n \in Nat /\ x \in Int /\ F \in Nat /\ t.frac_len \in Nat
    BY DEF Texts
  <1>2. b \in Int /\ b # 0
    BY <1>1 DEF detect_base
  <1>3. Power(t.radix, t.frac_len) = Power(b, F)
    <2>1. CASE t.radix = 16
      <3> DEFINE f == t.frac_len
      <3>1. 2 * (2 * f) = 4 * f /\ 2 * f \in Nat /\ f \in Nat
        BY <1>1
      <3>2. Power(2, 2 * (2 * f)) = Power(2 * 2, 2 * f)
        BY <3>1, EvenPower, 2 \in Int
      <3>3. Power(4, 2 * f) = Power(4 * 4, f)
        BY <3>1, EvenPower, 4 \in Int
      <3>4. 2 * 2 = 4 /\ 4 * 4 = 16
        OBVIOUS
      <3>5. b = 2 /\ F = 4 * f
        BY <2>1 DEF detect_base
      <3> QED BY <2>1, <3>1, <3>2, <3>3, <3>4, <3>5
    <2>2. CASE t.radix # 16
      BY <2>2 DEF detect_base
    <2> QED BY <2>1, <2>2
  <1>4. q = [u EXCEPT !.num = IF t.negative THEN -u.num ELSE u.num]
    BY DEF mpq_set_decimal_str_exp
  <1> DEFINE up == IF x > 0 THEN Power(b, x) ELSE 1
             down == IF x < 0 THEN Power(b, -x) ELSE 1
             p == Power(b, F)
  <1>5. LiteralDen(t) = p * down /\ LiteralNum(t) = (IF t.negative THEN -n ELSE n) * up
    BY <1>3 DEF LiteralDen, LiteralNum
  <1> HIDE DEF b, F, x, n
  <1>6. \A k \in Nat : Power(b, k) \in Int /\ Power(b, k) # 0
    BY <1>2, PowerSigns
  <1>7. p \in Int /\ p # 0 /\ up \in Int /\ up # 0 /\ down \in Int /\ down # 0
    BY <1>1, <1>6
  <1>8. InLowestTerms(u) /\ u.num * (p * down) = (n * up) * u.den
    <2>1. CASE F - x >= 0
      <3> DEFINE s == Power(b, F - x)
      <3>1. F - x \in Nat /\ s \in Int /\ s # 0 /\ u = mpq_canonicalize(n, s)
        BY <1>1, <1>6, <2>1
      <3>2. InLowestTerms(u) /\ u.num * s = n * u.den
        <4> HIDE DEF s, u
        <4>1. s \in Int \ {0} /\ n \in Int
          BY <1>1, <3>1
        <4> QED BY <3>1, <4>1, Canonical
      <3>3. p * down = up * s
        <4>1. CASE x > 0
          <5>1. x \in Nat /\ x + (F - x) = F
            BY <1>1, <4>1
          <5>2. p = up * s
            BY <1>2, <3>1, <4>1, <5>1, PowerSum
          <5>3. down = 1
            BY <1>1, <4>1
          <5> HIDE DEF p, up, s, down
          <5> QED BY <5>2, <5>3, <1>7
        <4>2. CASE x < 0
          <5>1. -x \in Nat /\ F + (-x) = F - x
            BY <1>1, <4>2
          <5>2. s = p * Power(b, -x)
            BY <1>1, <1>2, <5>1, PowerSum
          <5>3. down = Power(b, -x) /\ up = 1
            BY <1>1, <4>2
          <5> QED BY <5>2, <5>3, <3>1
        <4>3. CASE x = 0
          <5>1. F - x = F
            BY <1>1, <4>3
          <5>2. s = p
            BY <5>1
          <5>3. down = 1 /\ up = 1
            BY <4>3
          <5> HIDE DEF s, p, up, down
          <5> QED BY <5>2, <5>3, <3>1
        <4> QED BY <1>1, <4>1, <4>2, <4>3
      <3> HIDE DEF s, u, p, up, down
      <3>4. u.num \in Int /\ u.den \in Int
        BY <3>2 DEF InLowestTerms
      <3>5. u.num * (up * s) = up * (u.num * s)
        BY <1>7, <3>1, <3>4
      <3>6. up * (n * u.den) = (n * up) * u.den
        BY <1>1, <1>7, <3>4
      <3> QED BY <3>2, <3>3, <3>5, <3>6
    <2>2. CASE F - x < 0
      <3> DEFINE s == Power(b, -(F - x))
      <3>1. -(F - x) \in Nat /\ s \in Int /\ u = [num |-> n * s, den |-> 1]
        BY <1>1, <1>6, <2>2
      <3>2. u.num = n * s /\ u.den = 1 /\ u.num \in Int
        BY <3>1, <1>1
      <3>3. InLowestTerms(u)
        <4> HIDE DEF u
        <4> QED BY <3>2, IntegerIs
      <3>4. x > 0 /\ x \in Nat /\ F + (-(F - x)) = x
        BY <1>1, <2>2
      <3>5. up = p * s
        BY <1>1, <1>2, <3>1, <3>4, PowerSum
      <3>6. down = 1
        BY <3>4
      <3> HIDE DEF s, u, p, up, down
      <3> QED BY <1>1, <1>7, <3>1, <3>2, <3>3, <3>5, <3>6
    <2> QED BY <1>1, <2>1, <2>2
  <1> HIDE DEF u, p, up, down
  <1>9. u.num \in Int /\ u.den \in Nat \ {0} /\ q.den = u.den
        /\ q.num = IF t.negative THEN -u.num ELSE u.num
    <2>1. u.num \in Int /\ u.den \in Nat \ {0}
      BY <1>8 DEF InLowestTerms
    <2>2. u = [num |-> u.num, den |-> u.den]
      <3>1. \A y \in Int, z \in Int : mpq_canonicalize(y, z) =
               [num |-> mpq_canonicalize(y, z).num, den |-> mpq_canonicalize(y, z).den]
        BY DEF mpq_canonicalize
      <3> QED BY <1>1, <1>6, <3>1 DEF u
    <2> QED BY <1>4, <2>1, <2>2
  <1>10. CASE t.negative = TRUE
    <2>1. q.num = -u.num /\ q.den = u.den
      BY <1>9, <1>10
    <2>2. InLowestTerms(q)
      BY <1>8, <2>1, NegatedLowest
    <2>3. LiteralNum(t) = (-n) * up
      BY <1>5, <1>10
    <2>4. (-u.num) * (p * down) = -(u.num * (p * down)) /\ ((-n) * up) * u.den = -((n * up) * u.den)
      BY <1>1, <1>7, <1>9
    <2> QED BY <1>1, <1>5, <1>7, <1>8, <2>1, <2>2, <2>3, <2>4
  <1>11. CASE t.negative = FALSE
    <2>1. q.num = u.num /\ q.den = u.den
      BY <1>9, <1>11
    <2>2. InLowestTerms(q)
      BY <1>8, <2>1 DEF InLowestTerms
    <2>3. LiteralNum(t) = n * up
      BY <1>5, <1>11
    <2> QED BY <1>1, <1>5, <1>7, <1>8, <2>1, <2>2, <2>3
  <1> QED BY <1>1, <1>10, <1>11

Codes == [is_int64 : BOOLEAN, n : Int, num_pos : Nat, is_int : BOOLEAN, is_negative : BOOLEAN,
          den_pos : Nat]
Translations == [constants : Seq(Nat), code : Seq(Codes)]

\* d has the constants of c at their places.
Keeps(c, d) == DOMAIN c \subseteq DOMAIN d /\ \A i \in DOMAIN c : d[i] = c[i]

\* The operands c name the number of the literal t among the constants.
Names(c, constants, t) ==
  LET q == mpq_set_decimal_str_exp(t)
  IN IF mpq_to_int64(q)
       THEN c.is_int64 = TRUE /\ c.n = q.num
       ELSE /\ c.is_int64 = FALSE
            /\ c.num_pos \in DOMAIN constants /\ (c.is_int \/ c.den_pos \in DOMAIN constants)
            /\ Imported(constants, c).num = q.num /\ Imported(constants, c).den = q.den

\* Among the constants a number is found where it has been put.
LEMMA ArenaKeeps ==
  ASSUME NEW c, c \in Seq(Nat), NEW n, n \in Nat, NEW d, d = arena_push(c, n)
  PROVE  /\ d \in Seq(Nat) /\ Keeps(c, d) /\ \E i \in DOMAIN d : d[i] = n
  <1>1. CASE \E i \in DOMAIN c : c[i] = n
    <2>1. d = c
      BY <1>1 DEF arena_push
    <2> QED BY <1>1, <2>1 DEF Keeps
  <1>2. CASE ~\E i \in DOMAIN c : c[i] = n
    <2>1. d = Append(c, n)
      BY <1>2 DEF arena_push
    <2>2. /\ d \in Seq(Nat) /\ Len(d) = Len(c) + 1 /\ d[Len(c) + 1] = n
          /\ \A i \in 1 .. Len(c) : d[i] = c[i]
      BY <2>1, AppendProperties
    <2>3. DOMAIN c = 1 .. Len(c) /\ DOMAIN d = 1 .. Len(c) + 1 /\ Len(c) \in Nat
      BY <2>2, LenProperties
    <2> QED BY <2>2, <2>3 DEF Keeps
  <1> QED BY <1>1, <1>2

\* What has been put is found.
LEMMA ArenaFinds ==
  ASSUME NEW d, NEW n, \E i \in DOMAIN d : d[i] = n
  PROVE  arena_find(d, n) \in DOMAIN d /\ d[arena_find(d, n)] = n
  BY DEF arena_find

\* More constants change no number that operands name.
LEMMA NamesStill ==
  ASSUME NEW c, NEW a, NEW b, NEW t, Names(c, a, t), Keeps(a, b)
  PROVE  Names(c, b, t)
  <1> DEFINE q == mpq_set_decimal_str_exp(t)
  <1>1. CASE mpq_to_int64(q)
    BY <1>1 DEF Names
  <1>2. CASE ~mpq_to_int64(q)
    <2>1. /\ c.is_int64 = FALSE
          /\ c.num_pos \in DOMAIN a /\ (c.is_int \/ c.den_pos \in DOMAIN a)
          /\ Imported(a, c).num = q.num /\ Imported(a, c).den = q.den
      BY <1>2 DEF Names
    <2> HIDE DEF q
    <2>2. b[c.num_pos] = a[c.num_pos] /\ c.num_pos \in DOMAIN b
      BY <2>1 DEF Keeps
    <2>3. CASE c.is_int
      <3>1. Imported(a, c).num = Imported(b, c).num /\ Imported(a, c).den = Imported(b, c).den
        BY <2>2, <2>3 DEF Imported
      <3> QED BY <1>2, <2>1, <2>2, <2>3, <3>1 DEF Names, q
    <2>4. CASE ~c.is_int
      <3>1. b[c.den_pos] = a[c.den_pos] /\ c.den_pos \in DOMAIN b
        BY <2>1, <2>4 DEF Keeps
      <3>2. Imported(a, c).num = Imported(b, c).num /\ Imported(a, c).den = Imported(b, c).den
        BY <2>2, <2>4, <3>1 DEF Imported
      <3> QED BY <1>2, <2>1, <2>2, <2>4, <3>1, <3>2 DEF Names, q
    <2> QED BY <2>3, <2>4
  <1> QED BY <1>1, <1>2

\* A literal is translated to operands that name it.
LEMMA TranslatesLiteral ==
  ASSUME NEW tr, tr \in Translations, NEW t, t \in Texts,
         NEW to, to = translate_parsed_number(tr, t)
  PROVE  /\ to.constants \in Seq(Nat) /\ Keeps(tr.constants, to.constants)
         /\ \E c \in Codes : /\ to = [constants |-> to.constants, code |-> Append(tr.code, c)]
                             /\ Names(c, to.constants, t)
  <1> DEFINE q == mpq_set_decimal_str_exp(t)
             with_num == arena_push(tr.constants, Abs(q.num))
             with_den == IF q.den = 1 THEN with_num ELSE arena_push(with_num, q.den)
             num_pos == arena_find(with_num, Abs(q.num))
             den_pos == IF q.den = 1 THEN 0 ELSE arena_find(with_den, q.den)
  <1>1. q.num \in Int /\ q.den \in Nat \ {0} /\ Abs(q.num) \in Nat
    <2>1. InLowestTerms(q)
      BY LiteralIs
    <2> HIDE DEF q
    <2> QED BY <2>1 DEF InLowestTerms, Abs
  <1>2. tr.constants \in Seq(Nat) /\ tr.code \in Seq(Codes)
        /\ tr = [constants |-> tr.constants, code |-> tr.code]
    BY DEF Translations
  <1>3. CASE mpq_to_int64(q)
    <2> DEFINE c == Code(TRUE, q.num, 0, TRUE, FALSE, 0)
    <2>1. to = [tr EXCEPT !.code = Append(@, c)]
      BY <1>3 DEF translate_parsed_number
    <2>2. /\ to.constants = tr.constants
          /\ to = [constants |-> tr.constants, code |-> Append(tr.code, c)]
      <3> HIDE DEF c
      <3> QED BY <1>2, <2>1
    <2> HIDE DEF q
    <2>3. c \in Codes
      BY <1>1 DEF Code, Codes
    <2>4. c.is_int64 = TRUE /\ c.n = q.num
      BY DEF Code
    <2>5. Names(c, to.constants, t)
      BY <1>3, <2>4 DEF Names, q
    <2> HIDE DEF c
    <2> QED BY <1>2, <2>2, <2>3, <2>5 DEF Keeps
  <1>4. CASE ~mpq_to_int64(q)
    <2> DEFINE c == Code(FALSE, 0, num_pos, q.den = 1, q.num < 0, den_pos)
    <2>1. to = [constants |-> with_den, code |-> Append(tr.code, c)]
      BY <1>4, Zenon DEF translate_parsed_number
    <2> HIDE DEF q
    <2>2. /\ with_num \in Seq(Nat) /\ Keeps(tr.constants, with_num)
          /\ num_pos \in DOMAIN with_num /\ with_num[num_pos] = Abs(q.num)
      <3> DEFINE a == tr.constants
                 n == Abs(q.num)
      <3>1. /\ a \in Seq(Nat) /\ n \in Nat
            /\ with_num = arena_push(a, n) /\ num_pos = arena_find(with_num, n)
        BY <1>1, <1>2
      <3> HIDE DEF a, n, with_num, num_pos, with_den, den_pos, c
      <3>2. /\ with_num \in Seq(Nat) /\ Keeps(a, with_num)
            /\ \E i \in DOMAIN with_num : with_num[i] = n
        BY <3>1, ArenaKeeps
      <3>3. num_pos \in DOMAIN with_num /\ with_num[num_pos] = n
        BY <3>1, <3>2, ArenaFinds
      <3> QED BY <3>2, <3>3 DEF a, n
    <2> HIDE DEF num_pos, with_num
    <2>3. /\ with_den \in Seq(Nat) /\ Keeps(with_num, with_den)
          /\ (q.den = 1 \/ (den_pos \in DOMAIN with_den /\ with_den[den_pos] = q.den))
          /\ den_pos \in Nat
      <3>1. CASE q.den = 1
        BY <2>2, <3>1 DEF Keeps
      <3>2. CASE q.den # 1
        <4>1. with_den = arena_push(with_num, q.den) /\ den_pos = arena_find(with_den, q.den)
          BY <3>2
        <4> HIDE DEF with_den, den_pos
        <4>2. /\ with_den \in Seq(Nat) /\ Keeps(with_num, with_den)
              /\ \E i \in DOMAIN with_den : with_den[i] = q.den
          BY <1>1, <2>2, <4>1, ArenaKeeps
        <4>3. den_pos \in DOMAIN with_den /\ with_den[den_pos] = q.den
          BY <4>1, <4>2, ArenaFinds
        <4>4. den_pos \in Nat
          BY <4>2, <4>3, LenProperties
        <4> QED BY <4>2, <4>3, <4>4
      <3> QED BY <3>1, <3>2
    <2> HIDE DEF with_den, den_pos
    <2>4. /\ num_pos \in DOMAIN with_den /\ with_den[num_pos] = Abs(q.num) /\ num_pos \in Nat
          /\ Keeps(tr.constants, with_den)
      <3>1. num_pos \in Nat
        BY <2>2, LenProperties
      <3> QED BY <2>2, <2>3, <3>1 DEF Keeps
    <2>5. c \in Codes
      BY <2>3, <2>4 DEF Code, Codes
    <2>6. /\ c.is_int64 = FALSE /\ c.num_pos = num_pos /\ c.den_pos = den_pos
          /\ (c.is_int <=> q.den = 1) /\ (c.is_negative <=> q.num < 0)
      BY DEF Code
    <2> HIDE DEF c
    <2>7. Imported(with_den, c).num = q.num /\ Imported(with_den, c).den = q.den
      <3>1. Imported(with_den, c).num = IF c.is_negative THEN -Abs(q.num) ELSE Abs(q.num)
        BY <2>4, <2>6 DEF Imported
      <3>2. Imported(with_den, c).den = IF c.is_int THEN 1 ELSE with_den[den_pos]
        BY <2>6 DEF Imported
      <3> QED BY <1>1, <2>3, <2>6, <3>1, <3>2 DEF Abs
    <2>8. Names(c, with_den, t)
      BY <1>4, <2>3, <2>4, <2>6, <2>7 DEF Names, q
    <2>9. to.constants = with_den
      BY <2>1
    <2> QED BY <2>1, <2>3, <2>4, <2>5, <2>8, <2>9
  <1> QED BY <1>3, <1>4

\* The operands of every literal of a module name its number among the module's constants.
LEMMA TranslatedIs ==
  ASSUME NEW m, m \in Modules, NEW i, i \in DOMAIN Literals[m]
  PROVE  /\ Literals[m][i] \in Texts
         /\ Translated(m).code[i] \in Codes
         /\ Names(Translated(m).code[i], Translated(m).constants, Literals[m][i])
  <1> DEFINE ts == Literals[m]
             L == Len(ts)
             c == [constants |-> <<>>, code |-> <<>>]
             Body(f, n) == [k \in 0 .. n |->
                              IF k = 0 THEN c ELSE translate_parsed_number(f[k - 1], ts[k])]
             Rounded(n) == \E f : f = Body(f, n)
             upto == CHOOSE f : f = Body(f, L)
  <1>1. \A n \in Nat : Rounded(n)
    <2> DEFINE S == {n \in Nat : Rounded(n)}
    <2>1. 0 \in S
      <3> DEFINE f == [k \in 0 .. 0 |-> c]
      <3>1. \A k \in 0 .. 0 : k = 0
        OBVIOUS
      <3>2. f = Body(f, 0)
        BY <3>1, Zenon
      <3> QED BY <3>2
    <2>2. ASSUME NEW n \in Nat, n \in S PROVE n + 1 \in S
      <3>1. PICK f : f = Body(f, n)
        BY <2>2
      <3> DEFINE g == [k \in 0 .. n + 1 |->
                         IF k = n + 1 THEN translate_parsed_number(f[n], ts[n + 1]) ELSE f[k]]
      <3>2. g = Body(g, n + 1)
        <4>1. ASSUME NEW k \in 0 .. n + 1
              PROVE  g[k] = IF k = 0 THEN c ELSE translate_parsed_number(g[k - 1], ts[k])
          <5> HIDE DEF c, ts
          <5>1. CASE k = 0
            <6>1. g[k] = f[0] /\ f[0] = c
              BY <3>1, <5>1
            <6> QED BY <5>1, <6>1
          <5>2. CASE k # 0 /\ k # n + 1
            <6>1. k \in 0 .. n /\ k - 1 \in 0 .. n /\ k - 1 # n + 1 /\ k - 1 \in 0 .. n + 1
              BY <5>2
            <6>2. g[k] = f[k] /\ g[k - 1] = f[k - 1]
              BY <6>1, <5>2
            <6>3. f[k] = translate_parsed_number(f[k - 1], ts[k])
              BY <3>1, <5>2, <6>1
            <6> QED BY <5>2, <6>2, <6>3
          <5>3. CASE k = n + 1
            <6>1. g[k] = translate_parsed_number(f[n], ts[k]) /\ g[k - 1] = f[n] /\ k # 0
              BY <5>3
            <6> QED BY <6>1
          <5> QED BY <5>1, <5>2, <5>3
        <4> HIDE DEF c, ts
        <4> QED BY <4>1
      <3> HIDE DEF Body, g
      <3> QED BY <3>2
    <2> HIDE DEF S
    <2>3. \A n \in Nat : n \in S
      BY <2>1, <2>2, Induction
    <2> QED BY <2>3 DEF S
  <1>2. ts \in Seq(Texts) /\ L \in Nat /\ DOMAIN ts = 1 .. L /\ \A k \in 1 .. L : ts[k] \in Texts
    <2>1. ts \in Seq(Texts)
      BY NumbersAssumption
    <2> HIDE DEF ts
    <2> QED BY <2>1, LenProperties, ElementOfSeq
  <1>3. upto = Body(upto, L)
    <2> HIDE DEF Body, ts
    <2> QED BY <1>1, <1>2
  <1>4. Translated(m) = upto[L]
    BY DEF Translated
  <1> HIDE DEF upto, ts, L
  <1>5. /\ upto[0] = c
        /\ \A k \in 0 .. L - 1 : upto[k + 1] = translate_parsed_number(upto[k], ts[k + 1])
    <2>1. upto[0] = c
      BY <1>2, <1>3
    <2>2. ASSUME NEW k \in 0 .. L - 1
          PROVE  upto[k + 1] = translate_parsed_number(upto[k], ts[k + 1])
      <3>1. k + 1 \in 0 .. L /\ k + 1 # 0 /\ (k + 1) - 1 = k
        BY <1>2
      <3> HIDE DEF c
      <3> QED BY <3>1, <1>3
    <2> QED BY <2>1, <2>2
  <1> DEFINE Good(tr, k) == /\ tr \in Translations /\ Len(tr.code) = k
                            /\ \A j \in 1 .. k : /\ tr.code[j] \in Codes
                                                 /\ Names(tr.code[j], tr.constants, ts[j])
             Up(k) == k <= L => Good(upto[k], k)
             S == {k \in Nat : Up(k)}
  <1>6. 0 \in S
    <2>1. Good(c, 0)
      <3>1. <<>> \in Seq(Nat) /\ <<>> \in Seq(Codes) /\ Len(<<>>) = 0
        OBVIOUS
      <3>2. c.constants = <<>> /\ c.code = <<>>
        OBVIOUS
      <3>3. c \in Translations
        BY <3>1 DEF Translations
      <3>4. 1 .. 0 = {}
        OBVIOUS
      <3> HIDE DEF c
      <3> QED BY <3>1, <3>2, <3>3, <3>4
    <2> HIDE DEF Good, c
    <2> QED BY <1>5, <2>1
  <1>7. ASSUME NEW k \in Nat, k \in S PROVE k + 1 \in S
    <2> HIDE DEF Good, Up
    <2> SUFFICES Up(k + 1)
      OBVIOUS
    <2> SUFFICES ASSUME k + 1 <= L PROVE Good(upto[k + 1], k + 1)
      BY DEF Up
    <2> DEFINE tr == upto[k]
               to == upto[k + 1]
               t == ts[k + 1]
    <2>1. k \in 0 .. L - 1 /\ k <= L /\ k + 1 \in 1 .. L
      BY <1>2
    <2>2. Good(tr, k) /\ to = translate_parsed_number(tr, t) /\ t \in Texts
      BY <1>2, <1>5, <1>7, <2>1 DEF Up
    <2> HIDE DEF tr, to, t
    <2>3. tr \in Translations /\ Len(tr.code) = k /\ tr.code \in Seq(Codes)
      BY <2>2 DEF Good, Translations
    <2>4. PICK d \in Codes : /\ to = [constants |-> to.constants, code |-> Append(tr.code, d)]
                             /\ Names(d, to.constants, t)
      BY <2>2, <2>3, TranslatesLiteral
    <2>5. to.constants \in Seq(Nat) /\ Keeps(tr.constants, to.constants)
      BY <2>2, <2>3, TranslatesLiteral
    <2> DEFINE code == Append(tr.code, d)
    <2>6. /\ code \in Seq(Codes) /\ Len(code) = k + 1 /\ code[k + 1] = d
          /\ \A j \in 1 .. k : code[j] = tr.code[j]
      BY <2>3, AppendProperties
    <2> HIDE DEF code
    <2>7. to.code = code /\ to \in Translations
      <3> DEFINE constants == to.constants
      <3>1. to = [constants |-> constants, code |-> code] /\ constants \in Seq(Nat)
        BY <2>4, <2>5 DEF code
      <3> HIDE DEF constants
      <3> QED BY <2>6, <3>1 DEF Translations
    <2>8. ASSUME NEW j \in 1 .. k + 1
          PROVE  code[j] \in Codes /\ Names(code[j], to.constants, ts[j])
      <3>1. CASE j = k + 1
        BY <2>4, <2>6, <3>1 DEF t
      <3>2. CASE j # k + 1
        <4>1. j \in 1 .. k
          BY <3>2
        <4>2. tr.code[j] \in Codes /\ Names(tr.code[j], tr.constants, ts[j])
          BY <2>2, <4>1 DEF Good
        <4> QED BY <2>5, <2>6, <4>1, <4>2, NamesStill
      <3> QED BY <3>1, <3>2
    <2>9. Good(to, k + 1)
      BY <2>6, <2>7, <2>8 DEF Good
    <2> QED BY <2>9 DEF to
  <1>8. L \in S
    <2> HIDE DEF S
    <2> QED BY <1>2, <1>6, <1>7, Induction
  <1>9. Good(upto[L], L)
    BY <1>2, <1>8
  <1>10. i \in 1 .. L
    BY <1>2 DEF ts
  <1> QED BY <1>2, <1>4, <1>9, <1>10 DEF ts

-------------------------------------------------------------------------------
(* Methods and built-in functions *)

MethodNames ==
  {"__add__", "__subtract__", "__multiply__", "__exponent__", "__division__",
   "__floor_division__", "__modulo__", "__equal__", "__not_equal__", "__less_than__",
   "__less_than_equal__", "__greater_than__", "__greater_than_equal__"}

\* A value that is in normal form if it is a number.
Kept(x) == IsNumber(x) => Normal(x)

\* What is no number.
LEMMA NoNumbers ==
  /\ \A b : Kept(Value(Bool(b)).value)
  /\ \A e : Kept(Fails(e).value)
  /\ Kept(ZeroDivision.value) /\ Kept(ARGON_NULL) /\ Kept(Exception)
  BY DEF Kept, IsNumber, Value, Bool, Fails, ZeroDivision, Outcome, Object, ARGON_TRUE, ARGON_FALSE,
         ARGON_NULL, NULL, Exception

\* What a method of a number makes is in normal form.
LEMMA MethodKeeps ==
  ASSUME NEW x, Number(x), NEW y, Kept(y), NEW name, name \in MethodNames
  PROVE  Kept(OfNumber(name, x, y).value)
  <1> DEFINE o == OfNumber(name, x, y)
  <1>1. CASE IsNumber(y)
    <2>1. Number(y)
      BY <1>1 DEF Kept, Number
    <2>2. CASE name = "__add__"
      <3>1. o = __add__(x, y)
        BY <2>2 DEF OfNumber
      <3> QED BY <2>1, <3>1, Sum DEF Made, Number, Kept
    <2>3. CASE name = "__subtract__"
      <3>1. o = __subtract__(x, y)
        BY <2>3 DEF OfNumber
      <3> QED BY <2>1, <3>1, Difference DEF Number, Kept
    <2>4. CASE name = "__multiply__"
      <3>1. o = __multiply__(x, y)
        BY <2>4 DEF OfNumber
      <3> QED BY <2>1, <3>1, Product DEF Made, Number, Kept
    <2>5. CASE name = "__exponent__"
      <3>1. o = __exponent__(x, y)
        BY <2>5 DEF OfNumber
      <3> QED BY <2>1, <3>1, Exponentiation DEF Number, Kept
    <2>6. CASE name = "__division__"
      <3>1. o = __division__(x, y)
        BY <2>6 DEF OfNumber
      <3> QED BY <2>1, <3>1, Quotient, NoNumbers DEF Number, Kept
    <2>7. CASE name = "__floor_division__"
      <3>1. o = __floor_division__(x, y)
        BY <2>7 DEF OfNumber
      <3> QED BY <2>1, <3>1, FloorQuotient, NoNumbers DEF Number, Kept
    <2>8. CASE name = "__modulo__"
      <3>1. o = __modulo__(x, y)
        BY <2>8 DEF OfNumber
      <3> QED BY <2>1, <3>1, Remainder, NoNumbers DEF Number, Kept
    <2>9. CASE name \in {"__equal__", "__not_equal__", "__less_than__", "__less_than_equal__",
                         "__greater_than__", "__greater_than_equal__"}
      <3>1. \E b : o = Value(Bool(b))
        BY <1>1, <2>9 DEF OfNumber, __equal__, __not_equal__, __less_than__, __less_than_equal__,
                          __greater_than__, __greater_than_equal__, WithNumber
      <3> QED BY <3>1, NoNumbers
    <2> QED BY <2>2, <2>3, <2>4, <2>5, <2>6, <2>7, <2>8, <2>9 DEF MethodNames
  <1>2. CASE ~IsNumber(y)
    <2>1. (\E b : o = Value(Bool(b))) \/ o = Fails("RuntimeError")
      BY <1>2 DEF OfNumber, MethodNames, WithNumber, __add__, __subtract__, __multiply__,
                  __exponent__, __division__, __floor_division__, __modulo__, __equal__,
                  __not_equal__, __less_than__, __less_than_equal__, __greater_than__,
                  __greater_than_equal__
    <2> QED BY <2>1, NoNumbers
  <1> QED BY <1>1, <1>2

\* So is what a built-in function makes in a round.
LEMMA StepKeeps ==
  ASSUME NEW so_far, Kept(so_far.value), NEW y, Kept(y), NEW name, name \in MethodNames
  PROVE  Kept(Step(name, so_far, y).value)
  <1> DEFINE x == so_far.value
             o == IF IsNumber(x) THEN OfNumber(name, x, y) ELSE OfOther(name, x, y)
  <1>1. Kept(o.value)
    <2>1. CASE IsNumber(x)
      <3>1. Number(x)
        BY <2>1 DEF Kept, Number
      <3> QED BY <2>1, <3>1, MethodKeeps
    <2>2. CASE ~IsNumber(x)
      <3>1. (\E b : o = Value(Bool(b))) \/ o = Fails("RuntimeError")
        BY <2>2 DEF OfOther, BaseEqual, BaseNotEqual, Missing
      <3> QED BY <3>1, NoNumbers
    <2> QED BY <2>1, <2>2
  <1>2. \/ Step(name, so_far, y) = so_far
        \/ Step(name, so_far, y) = Fails("SIGSEGV")
        \/ Step(name, so_far, y) = Outcome(so_far.err, o.value)
        \/ Step(name, so_far, y) = o
    BY DEF Step
  <1> HIDE DEF o
  <1>3. Outcome(so_far.err, o.value).value = o.value
    BY DEF Outcome
  <1> QED BY <1>1, <1>2, <1>3, NoNumbers

\* What a built-in function makes of any number of arguments is in normal form.
LEMMA FoldKeeps ==
  ASSUME NEW argv, Len(argv) \in Nat, argv # <<>> => Len(argv) # 0,
         \A i \in 1 .. Len(argv) : Kept(argv[i]), NEW name, name \in MethodNames
  PROVE  Kept(Fold(name, argv).value)
  <1>1. CASE argv = <<>>
    BY <1>1, NoNumbers DEF Fold
  <1>2. CASE argv # <<>>
    <2> DEFINE c == Value(argv[1])
               L == Len(argv) - 1
               Body(f, n) == [i \in 0 .. n |->
                                IF i = 0 THEN c ELSE Step(name, f[i - 1], argv[i + 1])]
               Rounded(n) == \E f : f = Body(f, n)
               after == CHOOSE f : f = Body(f, L)
    <2>1. \A n \in Nat : Rounded(n)
      <3> DEFINE S == {n \in Nat : Rounded(n)}
      <3>1. 0 \in S
        <4> DEFINE f == [i \in 0 .. 0 |-> c]
        <4>1. \A i \in 0 .. 0 : i = 0
          OBVIOUS
        <4>2. f = Body(f, 0)
          BY <4>1, Zenon
        <4> QED BY <4>2
      <3>2. ASSUME NEW n \in Nat, n \in S PROVE n + 1 \in S
        <4>1. PICK f : f = Body(f, n)
          BY <3>2
        <4> DEFINE g == [i \in 0 .. n + 1 |->
                           IF i = n + 1 THEN Step(name, f[n], argv[n + 2]) ELSE f[i]]
        <4>2. g = Body(g, n + 1)
          <5>1. ASSUME NEW i \in 0 .. n + 1
                PROVE  g[i] = IF i = 0 THEN c ELSE Step(name, g[i - 1], argv[i + 1])
            <6> HIDE DEF c
            <6>1. CASE i = 0
              <7>1. g[i] = f[0] /\ f[0] = c
                BY <4>1, <6>1
              <7> QED BY <6>1, <7>1
            <6>2. CASE i # 0 /\ i # n + 1
              <7>1. i \in 0 .. n /\ i - 1 \in 0 .. n /\ i - 1 # n + 1 /\ i - 1 \in 0 .. n + 1
                BY <6>2
              <7>2. g[i] = f[i] /\ g[i - 1] = f[i - 1]
                BY <7>1, <6>2
              <7>3. f[i] = Step(name, f[i - 1], argv[i + 1])
                BY <4>1, <6>2, <7>1
              <7> QED BY <6>2, <7>2, <7>3
            <6>3. CASE i = n + 1
              <7>1. i + 1 = n + 2 /\ i - 1 = n /\ i # 0 /\ n \in 0 .. n + 1 /\ n # n + 1
                BY <6>3
              <7>2. g[i] = Step(name, f[n], argv[i + 1]) /\ g[i - 1] = f[n]
                BY <6>3, <7>1
              <7> QED BY <7>1, <7>2
            <6> QED BY <6>1, <6>2, <6>3
          <5> HIDE DEF c
          <5> QED BY <5>1
        <4> HIDE DEF Body, g
        <4> QED BY <4>2
      <3> HIDE DEF S
      <3>3. \A n \in Nat : n \in S
        BY <3>1, <3>2, Induction
      <3> QED BY <3>3 DEF S
    <2>2. L \in Nat
      BY <1>2
    <2>3. after = Body(after, L)
      <3> HIDE DEF Body, L
      <3> QED BY <2>1, <2>2
    <2>4. Fold(name, argv) = after[L]
      BY <1>2 DEF Fold
    <2> HIDE DEF after
    <2>5. after[0] = c /\ \A i \in 0 .. L - 1 : after[i + 1] = Step(name, after[i], argv[i + 2])
      <3>1. after[0] = c
        BY <2>2, <2>3
      <3>2. ASSUME NEW i \in 0 .. L - 1 PROVE after[i + 1] = Step(name, after[i], argv[i + 2])
        <4>1. i + 1 \in 0 .. L /\ i + 1 # 0 /\ (i + 1) - 1 = i /\ (i + 1) + 1 = i + 2
          BY <2>2
        <4> HIDE DEF c, L
        <4> QED BY <4>1, <2>3
      <3> QED BY <3>1, <3>2
    <2> DEFINE Good(i) == i <= L => Kept(after[i].value)
               S == {i \in Nat : Good(i)}
    <2>6. 0 \in S
      <3>1. c.value = argv[1] /\ 1 \in 1 .. Len(argv)
        BY <2>2 DEF Value, Outcome
      <3> QED BY <2>5, <3>1
    <2>7. ASSUME NEW i \in Nat, i \in S PROVE i + 1 \in S
      <3> SUFFICES ASSUME i + 1 <= L PROVE Kept(after[i + 1].value)
        OBVIOUS
      <3>1. i \in 0 .. L - 1 /\ i + 2 \in 1 .. Len(argv) /\ i <= L
        BY <2>2
      <3>2. Kept(after[i].value) /\ Kept(argv[i + 2])
        BY <2>7, <3>1
      <3>3. after[i + 1] = Step(name, after[i], argv[i + 2])
        BY <2>5, <3>1
      <3> QED BY <3>2, <3>3, StepKeeps
    <2>8. L \in S
      <3> HIDE DEF S
      <3> QED BY <2>2, <2>6, <2>7, Induction
    <2> QED BY <2>2, <2>4, <2>8
  <1> QED BY <1>1, <1>2

-------------------------------------------------------------------------------
(* The inductive invariant *)

\* The number n of the cache comes from the literal i of m, under the key of its operands.
FromLiteral(e, m, i) ==
  LET code == Translated(m).code[i]
  IN /\ ~code.is_int64 /\ e.key = make_id(code)
     /\ e.number = new_number_object(Imported(Translated(m).constants, code))

\* The registers hold values in normal form; the cache holds numbers of literals.
NumbersInv ==
  /\ registers = [r \in Regs |-> registers[r]]
  /\ \A r \in Regs : Kept(registers[r])
  /\ running \in Modules
  /\ \A e \in load_number_cache :
       \E m \in Modules : \E i \in DOMAIN Literals[m] : FromLiteral(e, m, i)

\* The number that operands name is the number of the literal, in normal form.
LEMMA LiteralNumber ==
  ASSUME NEW m, m \in Modules, NEW i, i \in DOMAIN Literals[m],
         NEW t, t = Literals[m][i], NEW code, code = Translated(m).code[i],
         NEW v, v = IF code.is_int64 THEN new_number_object_from_int64(code.n)
                    ELSE new_number_object(Imported(Translated(m).constants, code))
  PROVE  Number(v) /\ v.num * LiteralDen(t) = LiteralNum(t) * v.den
  <1> DEFINE q == mpq_set_decimal_str_exp(t)
             constants == Translated(m).constants
  <1>1. t \in Texts /\ Names(code, constants, t) /\ code \in Codes
    BY TranslatedIs
  <1>2. InLowestTerms(q) /\ q.num * LiteralDen(t) = LiteralNum(t) * q.den
    BY <1>1, LiteralIs
  <1>3. Number(v) /\ v.num = q.num /\ v.den = q.den
    <2>1. CASE mpq_to_int64(q)
      <3>1. code.is_int64 = TRUE /\ code.n = q.num
        BY <1>1, <2>1 DEF Names
      <3>2. q.num \in int64 /\ q.den = 1
        BY <2>1 DEF mpq_to_int64
      <3>3. v = new_number_object_from_int64(q.num)
        BY <3>1
      <3> HIDE DEF q
      <3> QED BY <3>2, <3>3, FromInt64
    <2>2. CASE ~mpq_to_int64(q)
      <3> DEFINE p == Imported(constants, code)
      <3>1. code.is_int64 = FALSE /\ p.num = q.num /\ p.den = q.den
        BY <1>1, <2>2 DEF Names
      <3>2. v = new_number_object(p)
        BY <3>1
      <3> HIDE DEF q, p
      <3>3. InLowestTerms(p)
        BY <1>2, <3>1 DEF InLowestTerms
      <3> QED BY <3>1, <3>2, <3>3, FromRational
    <2> QED BY <2>1, <2>2
  <1> HIDE DEF q
  <1> QED BY <1>2, <1>3

\* A number of the cache is in normal form.
LEMMA CachedNumber ==
  ASSUME NEW e, NEW m, m \in Modules, NEW i, i \in DOMAIN Literals[m], FromLiteral(e, m, i)
  PROVE  Number(e.number)
  <1>1. ~Translated(m).code[i].is_int64
    BY DEF FromLiteral
  <1>2. e.number = IF Translated(m).code[i].is_int64
                     THEN new_number_object_from_int64(Translated(m).code[i].n)
                     ELSE new_number_object(Imported(Translated(m).constants,
                                                     Translated(m).code[i]))
    BY <1>1 DEF FromLiteral
  <1> QED BY <1>2, LiteralNumber

\* An entry of the cache with the key of operands.
LEMMA CachedIs ==
  ASSUME NEW code, Cached(code) # {}, NEW e, e = CHOOSE d \in Cached(code) : TRUE
  PROVE  e \in load_number_cache /\ e.key = make_id(code)
  <1>1. e \in Cached(code)
    OBVIOUS
  <1> QED BY <1>1 DEF Cached

\* The first state.
LEMMA NumbersInit ==
  ASSUME Init
  PROVE  NumbersInv
  <1>1. registers = [r \in Regs |-> ARGON_NULL] /\ running \in Modules /\ load_number_cache = {}
    BY DEF Init
  <1>2. \A r \in Regs : registers[r] = ARGON_NULL
    BY <1>1
  <1>3. registers = [r \in Regs |-> registers[r]]
    BY <1>1, <1>2, Zenon
  <1> QED BY <1>1, <1>2, <1>3, NoNumbers DEF NumbersInv

\* A register takes a value in normal form.
LEMMA RegisterTakes ==
  ASSUME NumbersInv, NEW r \in Regs, NEW x, Kept(x),
         registers' = [registers EXCEPT ![r] = x]
  PROVE  registers' = [s \in Regs |-> registers'[s]] /\ \A s \in Regs : Kept(registers'[s])
  <1>1. registers = [s \in Regs |-> registers[s]] /\ \A s \in Regs : Kept(registers[s])
    BY DEF NumbersInv
  <1>2. \A s \in Regs : registers'[s] = IF s = r THEN x ELSE registers[s]
    BY <1>1
  <1>3. registers' = [s \in Regs |-> IF s = r THEN x ELSE registers[s]]
    BY <1>1
  <1>4. registers' = [s \in Regs |-> registers'[s]]
    BY <1>2, <1>3, Zenon
  <1> QED BY <1>1, <1>2, <1>4

\* A call of a built-in function.
LEMMA CallKeeps ==
  ASSUME NumbersInv, NEW o, NEW argv, Kept(o.value), Call(o, argv)
  PROVE  NumbersInv'
  <1>1. registers' = [registers EXCEPT ![0] = o.value] /\ UNCHANGED <<running, load_number_cache>>
    BY DEF Call
  <1>2. registers' = [s \in Regs |-> registers'[s]] /\ \A s \in Regs : Kept(registers'[s])
    BY <1>1, RegisterTakes, 0 \in Regs DEF Regs
  <1> QED BY <1>1, <1>2 DEF NumbersInv

\* An instruction of the machine.
LEMMA OperateKeeps ==
  ASSUME NumbersInv, NEW A \in Regs, NEW B \in Regs, NEW C \in Regs,
         NEW name, name \in MethodNames, Operate(A, B, C, name)
  PROVE  NumbersInv'
  <1> DEFINE x == registers[A]
             y == registers[B]
             direct == IsNumber(x) /\ IsNumber(y)
             argv == <<x, y>>
             o == IF direct THEN OfNumber(name, x, y) ELSE Fold(name, argv)
             v == o.value
  <1>1. Kept(x) /\ Kept(y)
    BY DEF NumbersInv
  <1>2. Kept(v)
    <2>1. CASE direct
      <3>1. Number(x)
        BY <1>1, <2>1 DEF Kept, Number
      <3> QED BY <1>1, <2>1, <3>1, MethodKeeps
    <2>2. CASE ~direct
      <3>1. Len(argv) = 2 /\ argv[1] = x /\ argv[2] = y
        OBVIOUS
      <3>2. \A i \in 1 .. Len(argv) : Kept(argv[i])
        <4>1. \A i \in 1 .. 2 : i = 1 \/ i = 2
          OBVIOUS
        <4> HIDE DEF argv, x, y
        <4> QED BY <1>1, <3>1, <4>1
      <3>3. Len(argv) \in Nat /\ Len(argv) # 0
        BY <3>1
      <3> HIDE DEF argv
      <3>4. Kept(Fold(name, argv).value)
        BY <3>2, <3>3, FoldKeeps
      <3> QED BY <2>2, <3>4
    <2> QED BY <2>1, <2>2
  <1>3. /\ \/ registers' = [registers EXCEPT ![0] = v, ![C] = v]
           \/ registers' = [registers EXCEPT ![C] = v]
           \/ registers' = registers
        /\ UNCHANGED <<running, load_number_cache>>
    BY DEF Operate
  <1> HIDE DEF v
  <1>4. registers = [s \in Regs |-> registers[s]] /\ \A s \in Regs : Kept(registers[s])
    BY DEF NumbersInv
  <1>5. \A s \in Regs : registers'[s] = v \/ registers'[s] = registers[s]
    BY <1>3, <1>4, 0 \in Regs DEF Regs
  <1>6. registers' = [s \in Regs |-> registers'[s]]
    BY <1>3, <1>4, 0 \in Regs DEF Regs
  <1>7. \A s \in Regs : Kept(registers'[s])
    BY <1>2, <1>4, <1>5
  <1> QED BY <1>3, <1>6, <1>7 DEF NumbersInv

\* LOAD_NUMBER.
LEMMA LoadKeeps ==
  ASSUME NumbersInv, NEW r \in Regs, NEW i \in DOMAIN Literals[running], DO_LOAD_NUMBER(r, i)
  PROVE  NumbersInv'
  <1> DEFINE code == Translated(running).code[i]
             x == Loaded(running, code)
             fresh == new_number_object(Imported(Translated(running).constants, code))
  <1>1. running \in Modules
    BY DEF NumbersInv
  <1>2. /\ registers' = [registers EXCEPT ![r] = x] /\ running' = running
        /\ load_number_cache' = IF code.is_int64 \/ Cached(code) # {} THEN load_number_cache
                                ELSE load_number_cache
                                       \union {[key |-> make_id(code), number |-> x]}
    BY DEF DO_LOAD_NUMBER
  <1>3. CASE code.is_int64
    <2>1. x = new_number_object_from_int64(code.n)
      BY <1>3 DEF Loaded
    <2>2. x = IF code.is_int64 THEN new_number_object_from_int64(code.n) ELSE fresh
      BY <1>3, <2>1
    <2>3. Number(x)
      <3> HIDE DEF x
      <3> QED BY <1>1, <2>2, LiteralNumber
    <2> HIDE DEF x
    <2>4. Kept(x)
      BY <2>3 DEF Kept, Number
    <2>5. registers' = [s \in Regs |-> registers'[s]] /\ \A s \in Regs : Kept(registers'[s])
      BY <1>2, <2>4, RegisterTakes
    <2>6. load_number_cache' = load_number_cache
      BY <1>2, <1>3
    <2> QED BY <1>2, <2>5, <2>6 DEF NumbersInv
  <1>4. CASE ~code.is_int64 /\ Cached(code) # {}
    <2> DEFINE e == CHOOSE d \in Cached(code) : TRUE
    <2>1. x = e.number
      BY <1>4 DEF Loaded
    <2>2. e \in load_number_cache
      BY <1>4, CachedIs
    <2> HIDE DEF x, e
    <2>3. Number(x)
      BY <2>1, <2>2, CachedNumber DEF NumbersInv
    <2>4. Kept(x)
      BY <2>3 DEF Kept, Number
    <2>5. registers' = [s \in Regs |-> registers'[s]] /\ \A s \in Regs : Kept(registers'[s])
      BY <1>2, <2>4, RegisterTakes
    <2>6. load_number_cache' = load_number_cache
      BY <1>2, <1>4
    <2> QED BY <1>2, <2>5, <2>6 DEF NumbersInv
  <1>5. CASE ~code.is_int64 /\ Cached(code) = {}
    <2> DEFINE e == [key |-> make_id(code), number |-> x]
    <2>1. x = fresh
      BY <1>5 DEF Loaded
    <2>2. x = IF code.is_int64 THEN new_number_object_from_int64(code.n) ELSE fresh
      BY <1>5, <2>1
    <2>3. Number(x)
      <3> HIDE DEF x
      <3> QED BY <1>1, <2>2, LiteralNumber
    <2>4. FromLiteral(e, running, i)
      <3>1. e.key = make_id(code) /\ e.number = x
        OBVIOUS
      <3> HIDE DEF e, x
      <3> QED BY <1>5, <2>1, <3>1 DEF FromLiteral
    <2>5. load_number_cache' = load_number_cache \union {e}
      BY <1>2, <1>5
    <2> HIDE DEF x, e
    <2>6. Kept(x)
      BY <2>3 DEF Kept, Number
    <2>7. registers' = [s \in Regs |-> registers'[s]] /\ \A s \in Regs : Kept(registers'[s])
      BY <1>2, <2>6, RegisterTakes
    <2>8. \A d \in load_number_cache' :
            \E m \in Modules : \E j \in DOMAIN Literals[m] : FromLiteral(d, m, j)
      BY <1>1, <2>4, <2>5 DEF NumbersInv
    <2> QED BY <1>1, <1>2, <2>7, <2>8 DEF NumbersInv
  <1> QED BY <1>3, <1>4, <1>5

\* The negation of register 0.
LEMMA NegationKeeps ==
  ASSUME NumbersInv, DO_NEGATION
  PROVE  NumbersInv'
  <1> DEFINE x == registers[0]
             o == IF IsNumber(x) THEN __negation__(x) ELSE Fails("RuntimeError")
             v == o.value
  <1>1. 0 \in Regs
    BY DEF Regs
  <1>2. Kept(x)
    BY <1>1 DEF NumbersInv
  <1>3. Kept(v)
    <2>1. CASE IsNumber(x)
      <3>1. Number(x)
        BY <1>2, <2>1 DEF Kept, Number
      <3>2. Number(v)
        BY <2>1, <3>1, Negation DEF Made
      <3> QED BY <3>2 DEF Kept, Number
    <2>2. CASE ~IsNumber(x)
      BY <2>2, NoNumbers
    <2> QED BY <2>1, <2>2
  <1>4. /\ registers' = [registers EXCEPT ![0] = v] \/ registers' = registers
        /\ UNCHANGED <<running, load_number_cache>>
    BY DEF DO_NEGATION
  <1> HIDE DEF v
  <1>5. registers' = [s \in Regs |-> registers'[s]] /\ \A s \in Regs : Kept(registers'[s])
    <2>1. CASE registers' = [registers EXCEPT ![0] = v]
      BY <1>1, <1>3, <2>1, RegisterTakes
    <2>2. CASE registers' = registers
      BY <2>2 DEF NumbersInv
    <2> QED BY <1>4, <2>1, <2>2
  <1> QED BY <1>4, <1>5 DEF NumbersInv

\* The registers as arguments of a built-in function.
LEMMA ArgumentsKept ==
  ASSUME NumbersInv, NEW list, list \in ArgumentLists,
         NEW argv, argv = [i \in DOMAIN list |-> registers[list[i]]]
  PROVE  /\ Len(argv) \in Nat /\ (argv # <<>> => Len(argv) # 0)
         /\ \A i \in 1 .. Len(argv) : Kept(argv[i])
  <1>1. list \in Seq(Regs)
    <2>1. 0 \in Regs /\ 1 \in Regs
      BY DEF Regs
    <2> DEFINE S == Regs
    <2>2. 0 \in S /\ 1 \in S
      BY <2>1
    <2> HIDE DEF S
    <2>3. /\ <<>> \in Seq(S) /\ <<0>> \in Seq(S) /\ <<0, 1>> \in Seq(S)
          /\ <<0, 1, 1>> \in Seq(S)
      BY <2>2
    <2> QED BY <2>3 DEF ArgumentLists, S
  <1>2. /\ Len(list) \in Nat /\ DOMAIN list = 1 .. Len(list)
        /\ \A i \in 1 .. Len(list) : list[i] \in Regs
    BY <1>1, LenProperties, ElementOfSeq
  <1> DEFINE L == Len(list)
             Held == {registers[r] : r \in Regs}
  <1>3. argv = [i \in 1 .. L |-> registers[list[i]]]
    BY <1>2
  <1> HIDE DEF L
  <1>4. L \in Nat /\ \A i \in 1 .. L : list[i] \in Regs
    BY <1>2 DEF L
  <1>5. argv \in [1 .. L -> Held]
    BY <1>3, <1>4
  <1>6. argv \in Seq(Held) /\ Len(argv) = L
    <2> HIDE DEF Held
    <2> QED BY <1>4, <1>5, SeqDef, LenProperties
  <1>7. \A i \in 1 .. L : Kept(argv[i])
    BY <1>3, <1>4 DEF NumbersInv
  <1>8. argv # <<>> => Len(argv) # 0
    <2> HIDE DEF Held
    <2> QED BY <1>6, EmptySeq
  <1> QED BY <1>4, <1>6, <1>7, <1>8

\* Every built-in function folds a method.
LEMMA BuiltInKeeps ==
  ASSUME NumbersInv, NEW list \in ArgumentLists,
         BuiltIn([i \in DOMAIN list |-> registers[list[i]]])
  PROVE  NumbersInv'
  <1> DEFINE argv == [i \in DOMAIN list |-> registers[list[i]]]
  <1>1. /\ Len(argv) \in Nat /\ (argv # <<>> => Len(argv) # 0)
        /\ \A i \in 1 .. Len(argv) : Kept(argv[i])
    <2> HIDE DEF argv
    <2>1. argv = [i \in DOMAIN list |-> registers[list[i]]]
      BY DEF argv
    <2> QED BY <2>1, ArgumentsKept
  <1>2. BuiltIn(argv)
    OBVIOUS
  <1> HIDE DEF argv
  <1>3. PICK name \in MethodNames : Call(Fold(name, argv), argv)
    BY <1>2, Zenon DEF BuiltIn, MethodNames, ARGON_ADDITION_FUNCTION,
         ARGON_SUBTRACTION_FUNCTION, ARGON_MULTIPLY_FUNCTION, ARGON_EXPONENT_FUNCTION,
         ARGON_DIVIDE_FUNCTION, ARGON_FLOOR_DIVIDE_FUNCTION, ARGON_MODULO_FUNCTION,
         ARGON_EQUAL_FUNCTION, ARGON_NOT_EQUAL_FUNCTION, ARGON_LESS_THAN_FUNCTION,
         ARGON_LESS_THAN_EQUAL_FUNCTION, ARGON_GREATER_THAN_FUNCTION,
         ARGON_GREATER_THAN_EQUAL_FUNCTION
  <1>4. Kept(Fold(name, argv).value)
    BY <1>1, FoldKeeps
  <1> DEFINE o == Fold(name, argv)
  <1>5. Kept(o.value) /\ Call(o, argv)
    BY <1>3, <1>4
  <1> HIDE DEF o
  <1> QED BY <1>5, CallKeeps

\* Every step keeps the invariant.
LEMMA NumbersStep ==
  ASSUME NumbersInv, [Next]_vars
  PROVE  NumbersInv'
  <1>1. ASSUME NEW r \in Regs, DO_LOAD_NULL(r)
        PROVE  NumbersInv'
    <2>1. /\ registers' = [registers EXCEPT ![r] = ARGON_NULL]
          /\ UNCHANGED <<running, load_number_cache>>
      BY <1>1 DEF DO_LOAD_NULL
    <2>2. registers' = [s \in Regs |-> registers'[s]] /\ \A s \in Regs : Kept(registers'[s])
      BY <2>1, RegisterTakes, NoNumbers
    <2> QED BY <2>1, <2>2 DEF NumbersInv
  <1>2. ASSUME NEW r \in Regs, NEW i \in DOMAIN Literals[running], DO_LOAD_NUMBER(r, i)
        PROVE  NumbersInv'
    BY <1>2, LoadKeeps
  <1>3. CASE DO_NEGATION
    BY <1>3, NegationKeeps
  <1>4. ASSUME NEW A \in Regs, NEW B \in Regs, NEW C \in Regs, Instruction(A, B, C)
        PROVE  NumbersInv'
    <2>1. PICK name \in MethodNames : Operate(A, B, C, name)
      BY <1>4, Zenon DEF Instruction, MethodNames, DO_ADDITION, DO_SUBTRACTION,
           DO_MULTIPLICATION, DO_EXPONENTIATION, DO_DIVISION, DO_FLOOR_DIVISION, DO_MODULO,
           DO_EQUAL, DO_NOT_EQUAL, DO_LESS_THAN, DO_LESS_THAN_EQUAL, DO_GREATER_THAN,
           DO_GREATER_THAN_EQUAL
    <2> QED BY <2>1, OperateKeeps
  <1>5. ASSUME NEW list \in ArgumentLists, BuiltIn([i \in DOMAIN list |-> registers[list[i]]])
        PROVE  NumbersInv'
    BY <1>5, BuiltInKeeps
  <1>6. ASSUME NEW m \in Modules, RunCodeOf(m)
        PROVE  NumbersInv'
    BY <1>6 DEF RunCodeOf, NumbersInv
  <1>7. CASE Catch
    <2>1. /\ registers' = [registers EXCEPT ![0] = Exception]
          /\ UNCHANGED <<running, load_number_cache>>
      BY <1>7 DEF Catch
    <2>2. registers' = [s \in Regs |-> registers'[s]] /\ \A s \in Regs : Kept(registers'[s])
      BY <2>1, RegisterTakes, NoNumbers, 0 \in Regs DEF Regs
    <2> QED BY <2>1, <2>2 DEF NumbersInv
  <1>8. CASE UNCHANGED vars
    BY <1>8 DEF vars, NumbersInv
  <1> QED BY <1>1, <1>2, <1>3, <1>4, <1>5, <1>6, <1>7, <1>8, Zenon DEF Next

\* Whatever the program computes, the numbers it holds are in normal form, and the cache
\* holds numbers of literals.
THEOREM NumbersInvariant == Spec => []NumbersInv
  <1>1. Init => NumbersInv
    BY NumbersInit
  <1>2. NumbersInv /\ [Next]_vars => NumbersInv'
    BY NumbersStep
  <1> QED BY <1>1, <1>2, PTL DEF Spec

-------------------------------------------------------------------------------
(* The theorems *)

\* However it was computed, loaded or converted, a number is in lowest terms and is an
\* int64 whenever it fits one (number.c, new_number_object and mpq_to_int64).
THEOREM AlwaysNormalForm == Spec => []NormalForm
  <1>1. NumbersInv => NormalForm
    <2> SUFFICES ASSUME NumbersInv PROVE NormalForm
      OBVIOUS
    <2>1. \A r \in Regs : IsNumber(registers[r]) => Normal(registers[r])
      BY DEF NumbersInv, Kept
    <2>2. \A e \in load_number_cache : Number(e.number)
      BY CachedNumber DEF NumbersInv
    <2> QED BY <2>1, <2>2 DEF NormalForm, Number
  <1> QED BY <1>1, NumbersInvariant, PTL

\* The two registers hold numbers of the proofs when they hold numbers.
LEMMA RegisterNumbers ==
  ASSUME NumbersInv, NEW r \in Regs, IsNumber(registers[r])
  PROVE  Number(registers[r])
  BY DEF NumbersInv, Kept, Number

\* An instruction is exact, or fails with ZeroDivisionError or MathsError, except in the listed
\* cases, whatever the width of the integers and the numbers (number.c, the arithmetic
\* methods).
THEOREM AlwaysExactBut == Spec => []ExactBut
  <1>1. NumbersInv => ExactBut
    <2> SUFFICES ASSUME NumbersInv PROVE ExactBut
      OBVIOUS
    <2> DEFINE x == registers[0]
               y == registers[1]
    <2> SUFFICES ASSUME IsNumber(x), IsNumber(y) PROVE ExactBut
      BY DEF ExactBut
    <2>1. Number(x) /\ Number(y)
      BY RegisterNumbers, 0 \in Regs, 1 \in Regs DEF Regs
    <2> HIDE DEF x, y
    <2> QED BY <2>1, ExactPair, Exponentiation, Zenon DEF ExactBut, x, y
  <1> QED BY <1>1, NumbersInvariant, PTL

\* Comparisons order the numbers by their values, unless the sign of an int64 is lost, and
\* equal numbers have one hash (number.c, the comparisons and __hash__).
THEOREM AlwaysOrderBut == Spec => []OrderBut
  <1>1. NumbersInv => OrderBut
    <2> SUFFICES ASSUME NumbersInv PROVE OrderBut
      OBVIOUS
    <2> DEFINE x == registers[0]
               y == registers[1]
    <2> SUFFICES ASSUME IsNumber(x), IsNumber(y) PROVE OrderBut
      BY DEF OrderBut
    <2>1. Number(x) /\ Number(y)
      BY RegisterNumbers, 0 \in Regs, 1 \in Regs DEF Regs
    <2> HIDE DEF x, y
    <2> QED BY <2>1, OrderPair, Zenon DEF OrderBut, x, y
  <1> QED BY <1>1, NumbersInvariant, PTL

\* Operands with one key name one number.
LEMMA OneKey ==
  ASSUME NEW constants, NEW c, c \in Codes, NEW d, d \in Codes, make_id(c) = make_id(d)
  PROVE  Imported(constants, c) = Imported(constants, d)
  <1>1. /\ c.num_pos = d.num_pos /\ c.is_int = d.is_int /\ c.is_negative = d.is_negative
        /\ c.den_pos = d.den_pos
    BY DEF make_id
  <1> QED BY <1>1 DEF Imported

\* A literal loads the number its text says, unless another module that shares the cache
\* has a literal with the same key (runtime.c, LOAD_NUMBER; make_id).
THEOREM AlwaysLoadsWhatIsWritten == Spec => []LoadsWhatIsWritten
  <1>1. NumbersInv => LoadsWhatIsWritten
    <2> SUFFICES ASSUME NumbersInv, NEW i \in DOMAIN Literals[running],
                        Translated(running).code[i].is_int64
                          \/ ~KeyClash(running, Translated(running).code[i])
                 PROVE  LET t == Literals[running][i]
                            code == Translated(running).code[i]
                            base == detect_base(t.radix)
                            digits == IF t.negative THEN -t.digits ELSE t.digits
                        IN Is(Value(Loaded(running, code)),
                              digits * (IF t.exp > 0 THEN Power(base, t.exp) ELSE 1),
                              Power(t.radix, t.frac_len)
                                * (IF t.exp < 0 THEN Power(base, -t.exp) ELSE 1))
      BY Zenon DEF LoadsWhatIsWritten
    <2> DEFINE t == Literals[running][i]
               code == Translated(running).code[i]
               constants == Translated(running).constants
               x == Loaded(running, code)
               v == IF code.is_int64 THEN new_number_object_from_int64(code.n)
                    ELSE new_number_object(Imported(constants, code))
    <2>1. running \in Modules
      BY DEF NumbersInv
    <2>2. t \in Texts /\ code \in Codes
      BY <2>1, TranslatedIs
    <2>3. x = v
      <3>1. CASE code.is_int64 \/ Cached(code) = {}
        BY <3>1 DEF Loaded
      <3>2. CASE ~code.is_int64 /\ Cached(code) # {}
        <4> DEFINE e == CHOOSE d \in Cached(code) : TRUE
        <4>1. e \in load_number_cache /\ e.key = make_id(code) /\ x = e.number
          BY <3>2, CachedIs DEF Loaded
        <4> HIDE DEF e
        <4>2. PICK m \in Modules : \E j \in DOMAIN Literals[m] : FromLiteral(e, m, j)
          BY <4>1 DEF NumbersInv
        <4> PICK j \in DOMAIN Literals[m] : FromLiteral(e, m, j)
          BY <4>2
        <4> DEFINE its == Translated(m).code[j]
        <4>3. /\ ~its.is_int64 /\ make_id(its) = make_id(code)
              /\ e.number = new_number_object(Imported(Translated(m).constants, its))
          BY <4>1, <4>2 DEF FromLiteral
        <4>4. m = running
          BY <3>2, <4>3 DEF KeyClash
        <4>5. its \in Codes
          BY <4>2, TranslatedIs
        <4> HIDE DEF its, code
        <4>6. Imported(constants, its) = Imported(constants, code)
          BY <2>2, <4>3, <4>5, OneKey
        <4> QED BY <3>2, <4>1, <4>3, <4>4, <4>6
      <3> QED BY <3>1, <3>2
    <2> HIDE DEF x, v
    <2>4. Number(x) /\ x.num * LiteralDen(t) = LiteralNum(t) * x.den
      BY <2>1, <2>3, LiteralNumber DEF v
    <2>5. Is(Value(x), LiteralNum(t), LiteralDen(t))
      BY <2>4 DEF Is, Value, Outcome, Number
    <2> QED BY <2>5, Zenon DEF LiteralNum, LiteralDen, x
  <1> QED BY <1>1, NumbersInvariant, PTL
==============================================================================
