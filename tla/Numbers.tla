------------------------------- MODULE Numbers -------------------------------
(***************************************************************************)
(* The numbers of the language (src/src/runtime/objects/number/number.c),  *)
(* the instructions of the virtual machine that compute with them and the  *)
(* built-in functions add, subtract, ... (src/src/runtime/runtime.c), and  *)
(* number literals from their text to the register they are loaded into.   *)
(* A number is an int64 or a GMP rational.  The width of the integers is   *)
(* the constant INT64_MAX; signed overflow wraps, as the builds do.        *)
(* GMP is modelled by what it computes; hashes are free of collisions; an  *)
(* object is its value.  A positive base with a fractional exponent, which *)
(* the code approximates, is left out.                                     *)
(***************************************************************************)
EXTENDS Integers, Sequences

CONSTANTS
  INT64_MAX,
  Modules,   \* imported modules, each with its own constants
  Literals,  \* Literals[m]: the number literals in the text of m, in order
  MaxNum, MaxDen  \* numerators and denominators of the numbers considered

\* A text is its sign, its radix, its digits without the point as one integer, how many
\* of them follow the point, and its exponent.
Text(negative, radix, digits, frac_len, exp) ==
  [negative |-> negative, radix |-> radix, digits |-> digits,
   frac_len |-> frac_len, exp |-> exp]
Texts == [negative : BOOLEAN, radix : {2, 8, 10, 16}, digits : Nat, frac_len : Nat, exp : Int]

ASSUME NumbersAssumption ==
  /\ INT64_MAX \in Nat \ {0}
  /\ MaxNum \in Nat /\ MaxDen \in Nat
  /\ \A m \in Modules : Literals[m] \in Seq(Texts)

INT64_MIN == -INT64_MAX - 1
int64 == INT64_MIN .. INT64_MAX
Width == 2 * (INT64_MAX + 1)

Abs(n)  == IF n < 0 THEN -n ELSE n
Sgn(n)  == IF n < 0 THEN -1 ELSE IF n = 0 THEN 0 ELSE 1
Wrap(n) == ((n - INT64_MIN) % Width) + INT64_MIN
Unsigned(n) == IF n < 0 THEN n + Width ELSE n

\* The division and the remainder of C: they go towards zero.
CDiv(a, b) == Sgn(a) * Sgn(b) * (Abs(a) \div Abs(b))
CRem(a, b) == a - b * CDiv(a, b)

\* b to the power of n.
Power(b, n) == LET to[i \in Nat] == IF i = 0 THEN 1 ELSE b * to[i - 1] IN to[n]

-----------------------------------------------------------------------------
(* GMP rationals in lowest terms *)

Rational == [num : Int, den : Nat \ {0}]

\* e is a denominator n / d can be written with.
Denominates(e, n, d) == (n * e) % d = 0

LowestDen(n, d) ==
  CHOOSE e \in 1 .. d : Denominates(e, n, d) /\ \A f \in 1 .. e - 1 : ~Denominates(f, n, d)

mpq_canonicalize(n, d) ==
  LET m == IF d < 0 THEN -n ELSE n
      e == LowestDen(m, Abs(d))
  IN [num |-> (m * e) \div Abs(d), den |-> e]

mpq_add(q, r) == mpq_canonicalize(q.num * r.den + r.num * q.den, q.den * r.den)
mpq_sub(q, r) == mpq_canonicalize(q.num * r.den - r.num * q.den, q.den * r.den)
mpq_mul(q, r) == mpq_canonicalize(q.num * r.num, q.den * r.den)
mpq_div(q, r) == mpq_canonicalize(q.num * r.den, q.den * r.num)
mpq_cmp(q, r) == Sgn(q.num * r.den - r.num * q.den)
mpq_fdiv(q, r) == LET t == mpq_div(q, r) IN [num |-> t.num \div t.den, den |-> 1]
mpq_fmod(q, r) == mpq_sub(q, mpq_mul(r, mpq_fdiv(q, r)))

\* mpq_pow_z for an exponent whose sign allows it: the inverse of 0 is no rational.
mpq_pow_z(q, n) ==
  IF n < 0 THEN mpq_canonicalize(Power(q.den, -n), Power(q.num, -n))
           ELSE mpq_canonicalize(Power(q.num, n), Power(q.den, n))

\* The int64 that mpq_cmp_ui(q, n, 1) is given arrives as an unsigned long.
mpq_cmp_ui(q, n) == mpq_cmp(q, [num |-> Unsigned(n), den |-> 1])

-----------------------------------------------------------------------------
(* Objects and outcomes *)

Object(type, is_int64, q) ==
  [type |-> type, is_int64 |-> is_int64, num |-> q.num, den |-> q.den]
Zero == [num |-> 0, den |-> 1]
ARGON_NULL  == Object("null", FALSE, Zero)
ARGON_TRUE  == Object("true", FALSE, Zero)
ARGON_FALSE == Object("false", FALSE, Zero)
NULL        == Object("NULL", FALSE, Zero)  \* the null pointer of C
Bool(b) == IF b THEN ARGON_TRUE ELSE ARGON_FALSE

IsNumber(x) == x.type = "number"

\* Mutant: the smallest int64 is taken not to fit.
Mut_mpq_to_int64_noMin(q) == q.den = 1 /\ Abs(q.num) <= INT64_MAX
mpq_to_int64(q) == q.den = 1 /\ q.num \in int64
new_number_object(q) == Object("number", mpq_to_int64(q), q)
new_number_object_from_int64(n) == Object("number", TRUE, [num |-> n, den |-> 1])
new_number_object_from_num_and_den(n, d) ==
  IF CRem(n, d) = 0
    THEN new_number_object_from_int64(Wrap(CDiv(n, d)))
    ELSE Object("number", FALSE, mpq_canonicalize(n, d))

\* What a method or a function comes to: its result, and the error it has set.
\* SIGFPE and SIGSEGV end the process.
Outcome(err, x) == [err |-> err, value |-> x]
Value(x) == Outcome("none", x)
Fails(e) == Outcome(e, ARGON_NULL)
Fatal == {"SIGFPE", "SIGSEGV"}

BothInt64(x, y) == x.is_int64 /\ y.is_int64

\* A method that takes a second number.
WithNumber(y, outcome) == IF IsNumber(y) THEN outcome ELSE Fails("RuntimeError")
-----------------------------------------------------------------------------
(* The methods of a number x *)

__boolean__(x)  == Value(Bool(x.num # 0))
__number__(x)   == Value(x)
__hash__(x)     == IF x.is_int64 THEN <<x.num>> ELSE <<x.num, x.den>>

__negation__(x) ==
  IF x.is_int64 THEN Value(new_number_object_from_int64(Wrap(-x.num)))
                ELSE Value(new_number_object([num |-> -x.num, den |-> x.den]))

\* Mutant: one too few sums overflow.
Mut_AddOverflows_offByOne(a, b) ==
  (a > 0 /\ b > 0 /\ a - 1 > INT64_MAX - b) \/ (a < 0 /\ b < 0 /\ a < INT64_MIN - b)

AddOverflows(a, b) ==
  \/ a > 0 /\ b > 0 /\ a > INT64_MAX - b
  \/ a < 0 /\ b < 0 /\ a < INT64_MIN - b

__add__(x, y) == WithNumber(y, Value(
  IF BothInt64(x, y) /\ ~AddOverflows(x.num, y.num)
    THEN new_number_object_from_int64(Wrap(x.num + y.num))
    ELSE new_number_object(mpq_add(x, y))))

SubtractOverflows(a, b) ==
  LET neg_a == Wrap(-a) IN
  \/ neg_a > 0 /\ b > 0 /\ b > INT64_MAX - neg_a
  \/ neg_a < 0 /\ b < 0 /\ b < INT64_MIN - neg_a

__subtract__(x, y) == WithNumber(y, Value(
  IF BothInt64(x, y) /\ ~SubtractOverflows(x.num, y.num)
    THEN new_number_object_from_int64(Wrap(x.num - y.num))
    ELSE new_number_object(mpq_sub(x, y))))

MultiplyOverflows(a, b) ==
  \/ a > 0 /\ b > 0 /\ a > CDiv(INT64_MAX, b)
  \/ a > 0 /\ b <= 0 /\ b < CDiv(INT64_MIN, a)
  \/ a <= 0 /\ b > 0 /\ a < CDiv(INT64_MIN, b)
  \/ a < 0 /\ b <= 0 /\ b < CDiv(INT64_MAX, a)

__multiply__(x, y) == WithNumber(y, Value(
  IF BothInt64(x, y) /\ ~MultiplyOverflows(x.num, y.num)
    THEN new_number_object_from_int64(Wrap(x.num * y.num))
    ELSE new_number_object(mpq_mul(x, y))))

\* A round of exponentiation by squaring. It ends when e is 0 or a product overflows.
Squared(s) ==
  LET product == IF s.e % 2 = 1 THEN s.result * s.a ELSE s.result
      e == s.e \div 2
      a == IF e > 0 THEN s.a * s.a ELSE s.a
  IN IF s.e = 0 \/ s.overflow THEN s
     ELSE IF product \notin int64 \/ a \notin int64 THEN [s EXCEPT !.overflow = TRUE]
     ELSE [result |-> product, a |-> a, e |-> e, overflow |-> FALSE]

\* There are at most e rounds, as each halves the exponent.
IntPow(a, e) ==
  LET after[i \in 0 .. e] == IF i = 0 THEN [result |-> 1, a |-> a, e |-> e, overflow |-> FALSE]
                             ELSE Squared(after[i - 1])
  IN after[e]

\* A root of x that the code approximates.
Approximated(x, y) == y.den > 1 /\ x.num > 0 /\ ~(x.num = 1 /\ x.den = 1)

\* The rational path. An exact root is one of 0 or of 1.
ExponentOfRational(x, y) ==
  IF x.num = 0 /\ y.num <= 0 THEN Fails("MathsError")
  ELSE IF x.num < 0 /\ y.den # 1 THEN Fails("MathsError")
  ELSE IF y.den = 1 THEN Value(new_number_object(mpq_pow_z(x, y.num)))
  ELSE Value(new_number_object([num |-> x.num, den |-> 1]))

__exponent__(x, y) == WithNumber(y,
  IF ~BothInt64(x, y) THEN ExponentOfRational(x, y)
  ELSE IF y.num < 0
    THEN IF x.num = 0 THEN Fails("SIGFPE") ELSE Value(new_number_object(mpq_pow_z(x, y.num)))
  ELSE LET power == IntPow(x.num, y.num) IN
       IF power.overflow THEN ExponentOfRational(x, y)
                         ELSE Value(new_number_object_from_int64(power.result)))

\* The three divisions return NULL when they fail.
ZeroDivision == Outcome("ZeroDivisionError", NULL)
IsZero(y) == y.is_int64 /\ y.num = 0

__division__(x, y) == WithNumber(y,
  IF IsZero(y) THEN ZeroDivision
  ELSE IF ~BothInt64(x, y) THEN Value(new_number_object(mpq_div(x, y)))
  ELSE IF y.num < 0
    THEN Value(new_number_object_from_num_and_den(Wrap(-x.num), Wrap(-y.num)))
    ELSE Value(new_number_object_from_num_and_den(x.num, y.num)))

\* The processor cannot represent INT64_MIN / -1, nor find the remainder.
DivisionTraps(x, y) == x.num = INT64_MIN /\ y.num = -1

__floor_division__(x, y) == WithNumber(y,
  IF IsZero(y) THEN ZeroDivision
  ELSE IF ~BothInt64(x, y) THEN Value(new_number_object(mpq_fdiv(x, y)))
  ELSE IF DivisionTraps(x, y) THEN Fails("SIGFPE")
  ELSE Value(new_number_object_from_int64(CDiv(x.num, y.num))))

__modulo__(x, y) == WithNumber(y,
  IF IsZero(y) THEN ZeroDivision
  ELSE IF ~BothInt64(x, y) THEN Value(new_number_object(mpq_fmod(x, y)))
  ELSE IF DivisionTraps(x, y) THEN Fails("SIGFPE")
  ELSE Value(new_number_object_from_int64(CRem(x.num, y.num))))

\* Mutant: a comparison with the rational on the right is not turned round.
Mut_Compare_unturned(x, y) ==
  IF x.is_int64 /\ ~y.is_int64 THEN mpq_cmp_ui(y, x.num)
  ELSE IF ~x.is_int64 /\ y.is_int64 THEN mpq_cmp_ui(x, y.num)
  ELSE mpq_cmp(x, y)

\* How x compares with y: -1, 0 or 1.
Compare(x, y) ==
  IF BothInt64(x, y) \/ ~(x.is_int64 \/ y.is_int64) THEN mpq_cmp(x, y)
  ELSE IF x.is_int64 THEN -mpq_cmp_ui(y, x.num)
  ELSE mpq_cmp_ui(x, y.num)

__equal__(x, y)     == Value(Bool(IsNumber(y) /\ Compare(x, y) = 0))
__not_equal__(x, y) == Value(Bool(IsNumber(y) => Compare(x, y) # 0))
__less_than__(x, y)          == WithNumber(y, Value(Bool(Compare(x, y) < 0)))
__less_than_equal__(x, y)    == WithNumber(y, Value(Bool(Compare(x, y) <= 0)))
__greater_than__(x, y)       == WithNumber(y, Value(Bool(Compare(x, y) > 0)))
__greater_than_equal__(x, y) == WithNumber(y, Value(Bool(Compare(x, y) >= 0)))

-----------------------------------------------------------------------------
(* The methods by their names *)

\* What every class inherits; null, true and false have no other of these methods.
BaseEqual(x, y)    == Value(Bool(x = y))
BaseNotEqual(x, y) == Value(Bool(x # y))
Missing            == Fails("RuntimeError")

OfNumber(name, x, y) ==
    CASE name = "__add__"                -> __add__(x, y)
      [] name = "__subtract__"           -> __subtract__(x, y)
      [] name = "__multiply__"           -> __multiply__(x, y)
      [] name = "__exponent__"           -> __exponent__(x, y)
      [] name = "__division__"           -> __division__(x, y)
      [] name = "__floor_division__"     -> __floor_division__(x, y)
      [] name = "__modulo__"             -> __modulo__(x, y)
      [] name = "__equal__"              -> __equal__(x, y)
      [] name = "__not_equal__"          -> __not_equal__(x, y)
      [] name = "__less_than__"          -> __less_than__(x, y)
      [] name = "__less_than_equal__"    -> __less_than_equal__(x, y)
      [] name = "__greater_than__"       -> __greater_than__(x, y)
      [] name = "__greater_than_equal__" -> __greater_than_equal__(x, y)

OfOther(name, x, y) ==
  CASE name = "__equal__"     -> BaseEqual(x, y)
    [] name = "__not_equal__" -> BaseNotEqual(x, y)
    [] OTHER                  -> Missing

\* The built-in functions: a method is folded over the arguments, and the loop does not
\* ask whether a call has failed.
Step(name, so_far, y) ==
  LET x == so_far.value
      o == IF IsNumber(x) THEN OfNumber(name, x, y) ELSE OfOther(name, x, y)
  IN IF so_far.err \in Fatal THEN so_far
     ELSE IF x = NULL THEN Fails("SIGSEGV")
     ELSE IF o.err = "none" THEN Outcome(so_far.err, o.value)
     ELSE o

Fold(name, argv) ==
  LET after[i \in 0 .. Len(argv) - 1] ==
        IF i = 0 THEN Value(argv[1]) ELSE Step(name, after[i - 1], argv[i + 1])
  IN IF argv = <<>> THEN Fails("RuntimeError") ELSE after[Len(argv) - 1]

ARGON_ADDITION_FUNCTION(argv)            == Fold("__add__", argv)
ARGON_SUBTRACTION_FUNCTION(argv)         == Fold("__subtract__", argv)
ARGON_MULTIPLY_FUNCTION(argv)            == Fold("__multiply__", argv)
ARGON_EXPONENT_FUNCTION(argv)            == Fold("__exponent__", argv)
ARGON_DIVIDE_FUNCTION(argv)              == Fold("__division__", argv)
ARGON_FLOOR_DIVIDE_FUNCTION(argv)        == Fold("__floor_division__", argv)
ARGON_MODULO_FUNCTION(argv)              == Fold("__modulo__", argv)
ARGON_EQUAL_FUNCTION(argv)               == Fold("__equal__", argv)
ARGON_NOT_EQUAL_FUNCTION(argv)           == Fold("__not_equal__", argv)
ARGON_LESS_THAN_FUNCTION(argv)           == Fold("__less_than__", argv)
ARGON_LESS_THAN_EQUAL_FUNCTION(argv)     == Fold("__less_than_equal__", argv)
ARGON_GREATER_THAN_FUNCTION(argv)        == Fold("__greater_than__", argv)
ARGON_GREATER_THAN_EQUAL_FUNCTION(argv)  == Fold("__greater_than_equal__", argv)
-----------------------------------------------------------------------------
(* Literals *)

\* What an exponent scales by.
detect_base(radix) == IF radix = 16 THEN 2 ELSE radix

mpq_set_decimal_str_exp(t) ==
  LET base == detect_base(t.radix)
      denom_exp == (IF t.radix = 16 THEN 4 * t.frac_len ELSE t.frac_len) - t.exp
      q == IF denom_exp >= 0 THEN mpq_canonicalize(t.digits, Power(base, denom_exp))
                             ELSE [num |-> t.digits * Power(base, -denom_exp), den |-> 1]
  IN [q EXCEPT !.num = IF t.negative THEN -q.num ELSE q.num]

\* The constants of a module: one copy of each.  A constant's place is its index.
arena_push(constants, n) ==
  IF \E i \in DOMAIN constants : constants[i] = n THEN constants ELSE Append(constants, n)
arena_find(constants, n) == CHOOSE i \in DOMAIN constants : constants[i] = n

\* The operands of LOAD_NUMBER.
Code(is_int64, n, num_pos, is_int, is_negative, den_pos) ==
  [is_int64 |-> is_int64, n |-> n, num_pos |-> num_pos, is_int |-> is_int,
   is_negative |-> is_negative, den_pos |-> den_pos]

\* tr: the constants and the code of the literals translated so far.
translate_parsed_number(tr, t) ==
  LET q == mpq_set_decimal_str_exp(t)
      with_num == arena_push(tr.constants, Abs(q.num))
      with_den == IF q.den = 1 THEN with_num ELSE arena_push(with_num, q.den)
      den_pos == IF q.den = 1 THEN 0 ELSE arena_find(with_den, q.den)
      code == Code(FALSE, 0, arena_find(with_num, Abs(q.num)), q.den = 1, q.num < 0, den_pos)
  IN IF mpq_to_int64(q)
       THEN [tr EXCEPT !.code = Append(@, Code(TRUE, q.num, 0, TRUE, FALSE, 0))]
       ELSE [constants |-> with_den, code |-> Append(tr.code, code)]

Translated(m) ==
  LET upto[i \in 0 .. Len(Literals[m])] ==
        IF i = 0 THEN [constants |-> <<>>, code |-> <<>>]
                 ELSE translate_parsed_number(upto[i - 1], Literals[m][i])
  IN upto[Len(Literals[m])]

\* Mutant: the sign, which is not among the constants, is left out of the key.
Mut_make_id_unsigned(code) == <<code.num_pos, code.is_int, FALSE, code.den_pos>>

\* The key of a literal in the cache: its sizes, its places and its flags.
make_id(code) == <<code.num_pos, code.is_int, code.is_negative, code.den_pos>>

\* The number that the operands of LOAD_NUMBER name among a module's constants.
Imported(constants, code) ==
  LET n == constants[code.num_pos]
  IN [num |-> IF code.is_negative THEN -n ELSE n,
      den |-> IF code.is_int THEN 1 ELSE constants[code.den_pos]]

-----------------------------------------------------------------------------
VARIABLES
  registers,          \* two registers of the frame that runs
  err,                \* the error that is set
  running,            \* the module whose code runs
  load_number_cache   \* the cache of the state, as a set of keys with their numbers

vars == <<registers, err, running, load_number_cache>>

Regs == {0, 1}
Exception == Object("exception", FALSE, Zero)

Init ==
  /\ registers = [r \in Regs |-> ARGON_NULL]
  /\ err = "none"
  /\ running \in Modules
  /\ load_number_cache = {}

\* The numbers considered.
Considered(x) == Abs(x.num) <= MaxNum /\ x.den <= MaxDen

\* The code of a handler loads a register before it reads it.
Readable(r) == registers[r] # NULL

Runs == err = "none"

DO_LOAD_NULL(r) ==
  /\ Runs
  /\ registers' = [registers EXCEPT ![r] = ARGON_NULL]
  /\ UNCHANGED <<err, running, load_number_cache>>

Cached(code) == {e \in load_number_cache : e.key = make_id(code)}

\* What LOAD_NUMBER puts into its register, in the code of m.
Loaded(m, code) ==
  IF code.is_int64 THEN new_number_object_from_int64(code.n)
  ELSE IF Cached(code) # {} THEN (CHOOSE e \in Cached(code) : TRUE).number
  ELSE new_number_object(Imported(Translated(m).constants, code))

DO_LOAD_NUMBER(r, i) ==
  LET code == Translated(running).code[i]
      x == Loaded(running, code)
  IN /\ Runs
     /\ registers' = [registers EXCEPT ![r] = x]
     /\ load_number_cache' = IF code.is_int64 \/ Cached(code) # {} THEN load_number_cache
                             ELSE load_number_cache \union {[key |-> make_id(code), number |-> x]}
     /\ UNCHANGED <<err, running>>

DO_NEGATION ==
  LET x == registers[0]
      o == IF IsNumber(x) THEN __negation__(x) ELSE Fails("RuntimeError")
  IN /\ Runs /\ Readable(0)
     /\ registers' = IF o.err = "none" THEN [registers EXCEPT ![0] = o.value] ELSE registers
     /\ err' = o.err
     /\ UNCHANGED <<running, load_number_cache>>

\* Two numbers are computed with in place. Otherwise the built-in function is called,
\* whose result goes through register 0.
Operate(A, B, C, name) ==
  LET x == registers[A]
      y == registers[B]
      direct == IsNumber(x) /\ IsNumber(y)
      o == IF direct THEN OfNumber(name, x, y) ELSE Fold(name, <<x, y>>)
  IN /\ Runs /\ Readable(A) /\ Readable(B)
     /\ Considered(o.value)
     /\ registers' = IF ~direct THEN [registers EXCEPT ![0] = o.value, ![C] = o.value]
                     ELSE IF o.err = "none" THEN [registers EXCEPT ![C] = o.value]
                     ELSE registers
     /\ err' = o.err
     /\ UNCHANGED <<running, load_number_cache>>

DO_ADDITION(A, B, C)       == Operate(A, B, C, "__add__")
DO_SUBTRACTION(A, B, C)    == Operate(A, B, C, "__subtract__")
DO_MULTIPLICATION(A, B, C) == Operate(A, B, C, "__multiply__")
DO_EXPONENTIATION(A, B, C) ==
  /\ ~Approximated(registers[A], registers[B])
  /\ Operate(A, B, C, "__exponent__")
DO_DIVISION(A, B, C)       == Operate(A, B, C, "__division__")
DO_FLOOR_DIVISION(A, B, C) == Operate(A, B, C, "__floor_division__")
DO_MODULO(A, B, C)         == Operate(A, B, C, "__modulo__")
DO_EQUAL(A, B, C)          == Operate(A, B, C, "__equal__")
DO_NOT_EQUAL(A, B, C)      == Operate(A, B, C, "__not_equal__")
DO_LESS_THAN(A, B, C)      == Operate(A, B, C, "__less_than__")
DO_GREATER_THAN(A, B, C)   == Operate(A, B, C, "__greater_than__")
DO_LESS_THAN_EQUAL(A, B, C) ==
  Operate(A, B, C, "__less_than_equal__")
DO_GREATER_THAN_EQUAL(A, B, C) ==
  Operate(A, B, C, "__greater_than_equal__")

\* The program calls a built-in function itself, with any number of arguments.
Call(o, argv) ==
  /\ Runs /\ \A i \in DOMAIN argv : argv[i] # NULL
  /\ Considered(o.value)
  /\ registers' = [registers EXCEPT ![0] = o.value]
  /\ err' = o.err
  /\ UNCHANGED <<running, load_number_cache>>

\* A function of m is called, or returns to m: it runs on the caller's cache.
RunCodeOf(m) ==
  /\ Runs /\ running' = m
  /\ UNCHANGED <<registers, err, load_number_cache>>

\* A handler of the program takes the error.
Catch ==
  /\ err \notin Fatal \union {"none"}
  /\ err' = "none"
  /\ registers' = [registers EXCEPT ![0] = Exception]
  /\ UNCHANGED <<running, load_number_cache>>
\* The argument lists considered, as registers.
ArgumentLists == {<<>>, <<0>>, <<0, 1>>, <<0, 1, 1>>}

Instruction(A, B, C) ==
  \/ DO_ADDITION(A, B, C)       \/ DO_SUBTRACTION(A, B, C)
  \/ DO_MULTIPLICATION(A, B, C) \/ DO_EXPONENTIATION(A, B, C)
  \/ DO_DIVISION(A, B, C)       \/ DO_FLOOR_DIVISION(A, B, C)
  \/ DO_MODULO(A, B, C)
  \/ DO_EQUAL(A, B, C)          \/ DO_NOT_EQUAL(A, B, C)
  \/ DO_LESS_THAN(A, B, C)      \/ DO_LESS_THAN_EQUAL(A, B, C)
  \/ DO_GREATER_THAN(A, B, C)   \/ DO_GREATER_THAN_EQUAL(A, B, C)

BuiltIn(argv) ==
  \/ Call(ARGON_ADDITION_FUNCTION(argv), argv)    \/ Call(ARGON_SUBTRACTION_FUNCTION(argv), argv)
  \/ Call(ARGON_MULTIPLY_FUNCTION(argv), argv)    \/ Call(ARGON_DIVIDE_FUNCTION(argv), argv)
  \/ Call(ARGON_FLOOR_DIVIDE_FUNCTION(argv), argv) \/ Call(ARGON_MODULO_FUNCTION(argv), argv)
  \/ Call(ARGON_EQUAL_FUNCTION(argv), argv)       \/ Call(ARGON_NOT_EQUAL_FUNCTION(argv), argv)
  \/ Call(ARGON_LESS_THAN_FUNCTION(argv), argv)
  \/ Call(ARGON_LESS_THAN_EQUAL_FUNCTION(argv), argv)
  \/ Call(ARGON_GREATER_THAN_FUNCTION(argv), argv)
  \/ Call(ARGON_GREATER_THAN_EQUAL_FUNCTION(argv), argv)
  \/ /\ Len(argv) <= 2 /\ (Len(argv) = 2 => ~Approximated(argv[1], argv[2]))
     /\ Call(ARGON_EXPONENT_FUNCTION(argv), argv)

Next ==
  \/ \E r \in Regs : DO_LOAD_NULL(r)
  \/ \E r \in Regs : \E i \in DOMAIN Literals[running] : DO_LOAD_NUMBER(r, i)
  \/ DO_NEGATION
  \/ \E A, B, C \in Regs : Instruction(A, B, C)
  \/ \E list \in ArgumentLists : BuiltIn([i \in DOMAIN list |-> registers[list[i]]])
  \/ \E m \in Modules : RunCodeOf(m)
  \/ Catch

Spec == Init /\ [][Next]_vars

-----------------------------------------------------------------------------
(* Properties *)

InLowestTerms(x) ==
  /\ x.num \in Int /\ x.den \in Nat \ {0}
  /\ \A f \in 1 .. x.den - 1 : ~Denominates(f, x.num, x.den)

Normal(x) == InLowestTerms(x) /\ x.is_int64 = (x.den = 1 /\ x.num \in int64)

\* However it was computed, loaded or converted, a number is in lowest terms and is an
\* int64 whenever it fits one. The code relies on it without a test: equality and
\* hashes compare representations, and a rational divisor is never tested for zero.
NormalForm ==
  /\ \A r \in Regs : IsNumber(registers[r]) => Normal(registers[r])
  /\ \A e \in load_number_cache : IsNumber(e.number) /\ Normal(e.number)

\* The outcome o is the number n / d.
Is(o, n, d) == o.err = "none" /\ IsNumber(o.value) /\ o.value.num * d = n * o.value.den

\* Where the integers of C show: the negation of INT64_MIN wraps, so does a difference
\* whose overflow the test of its negation misses, integer division and remainder go
\* towards zero, and INT64_MIN / -1 traps.
NegationWraps(x) == x.is_int64 /\ x.num = INT64_MIN
SubtractionWraps(x, y) ==
  /\ BothInt64(x, y)
  /\ (x.num = INT64_MIN /\ y.num > 0) \/ x.num - y.num = INT64_MAX + 1
DivisionWraps(x, y) ==
  BothInt64(x, y) /\ y.num < 0 /\ x.num # 0 /\ (x.num = INT64_MIN) # (y.num = INT64_MIN)
Truncates(x, y) == BothInt64(x, y) /\ Sgn(x.num) # Sgn(y.num) /\ CRem(x.num, y.num) # 0
Traps(x, y) == BothInt64(x, y) /\ DivisionTraps(x, y)

\* An instruction gives the exact rational result, or ZeroDivisionError for a zero
\* divisor, except in exactly the cases above. int64 and rational paths are chosen by
\* overflow tests of which each is easy to get wrong by one.
ExactBut ==
  LET x == registers[0]
      y == registers[1]
      n == x.num * y.den  \* x / y is n / d, with the sign of y in n
      d == Abs(y.num) * x.den
      floor == (Sgn(y.num) * n) \div d
  IN IsNumber(x) /\ IsNumber(y) =>
     /\ Is(__negation__(x), -x.num, x.den) <=> ~NegationWraps(x)
     /\ Is(__add__(x, y), n + y.num * x.den, x.den * y.den)
     /\ Is(__subtract__(x, y), n - y.num * x.den, x.den * y.den) <=> ~SubtractionWraps(x, y)
     /\ Is(__multiply__(x, y), x.num * y.num, x.den * y.den)
     /\ IF IsZero(y)
          THEN /\ __division__(x, y) = ZeroDivision
               /\ __floor_division__(x, y) = ZeroDivision
               /\ __modulo__(x, y) = ZeroDivision
          ELSE /\ Is(__division__(x, y), Sgn(y.num) * n, d) <=> ~DivisionWraps(x, y)
               /\ Is(__floor_division__(x, y), floor, 1) <=> ~(Truncates(x, y) \/ Traps(x, y))
               /\ Is(__modulo__(x, y), n - y.num * x.den * floor, x.den * y.den)
                    <=> ~(Truncates(x, y) \/ Traps(x, y))
     /\ y.den = 1 /\ y.num >= 0 /\ ~(x.num = 0 /\ y.num = 0) =>
          Is(__exponent__(x, y), Power(x.num, y.num), Power(x.den, y.num))
     /\ y.den = 1 /\ y.num < 0 /\ x.num # 0 =>
          LET e == -y.num
              s == IF e % 2 = 1 THEN Sgn(x.num) ELSE 1
          IN Is(__exponent__(x, y), s * Power(x.den, e), Power(Abs(x.num), e))
     /\ y.den # 1 /\ x.num < 0 => __exponent__(x, y).err = "MathsError"
     /\ x.num = 0 /\ y.num = 0 => Is(__exponent__(x, y), 1, 1)
     /\ x.num = 0 /\ y.num < 0 =>
          __exponent__(x, y).err = IF y.is_int64 THEN "SIGFPE" ELSE "MathsError"

\* The int64 of a mixed comparison is passed on as an unsigned long.
ComparisonWraps(x, y) ==
  \/ x.is_int64 /\ x.num < 0 /\ ~y.is_int64
  \/ y.is_int64 /\ y.num < 0 /\ ~x.is_int64

\* Comparisons order the numbers by their values, unless a negative int64 meets a
\* rational, and equal numbers have one hash, as the dictionary needs.
OrderBut ==
  LET x == registers[0]
      y == registers[1]
      c == mpq_cmp(x, y)
  IN IsNumber(x) /\ IsNumber(y) =>
     /\ c = 0 <=> __hash__(x) = __hash__(y)
     /\ ~ComparisonWraps(x, y) =>
          /\ __equal__(x, y) = Value(Bool(c = 0)) /\ __not_equal__(x, y) = Value(Bool(c # 0))
          /\ __less_than__(x, y) = Value(Bool(c < 0))
          /\ __less_than_equal__(x, y) = Value(Bool(c <= 0))
          /\ __greater_than__(x, y) = Value(Bool(c > 0))
          /\ __greater_than_equal__(x, y) = Value(Bool(c >= 0))

\* A literal of another module has the key of code in the shared cache.
KeyClash(m, code) ==
  \E other \in Modules \ {m} : \E i \in DOMAIN Literals[other] :
     LET its == Translated(other).code[i]
     IN ~its.is_int64 /\ make_id(its) = make_id(code)

\* A literal is loaded as the number its text says, from a cache that is keyed by
\* where constants lie: unless a module that shares the cache has the same key.
LoadsWhatIsWritten ==
  \A i \in DOMAIN Literals[running] :
    LET t == Literals[running][i]
        code == Translated(running).code[i]
        base == detect_base(t.radix)
        digits == IF t.negative THEN -t.digits ELSE t.digits
    IN (code.is_int64 \/ ~KeyClash(running, code)) =>
         Is(Value(Loaded(running, code)),
            digits * (IF t.exp > 0 THEN Power(base, t.exp) ELSE 1),
            Power(t.radix, t.frac_len) * (IF t.exp < 0 THEN Power(base, -t.exp) ELSE 1))
=============================================================================
