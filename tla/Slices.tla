-------------------------------- MODULE Slices --------------------------------
(***************************************************************************)
(* Slices and ranges over 64-bit integers (objects/slice/slice.c and       *)
(* objects/iterator/range_iterator.c of the runtime).  INT64_MAX is the    *)
(* largest int64; what leaves the range wraps, as in the program's build.  *)
(***************************************************************************)
EXTENDS Integers, SequencesExt

CONSTANTS INT64_MAX, ARGON_NULL

ASSUME SlicesAssumption == INT64_MAX \in Nat \ {0} /\ ARGON_NULL \notin Int

INT64_MIN == -INT64_MAX - 1
Int64 == INT64_MIN .. INT64_MAX

\* n rounds of a loop from x, each as the function step says.
Iterate(step, x, n) ==
  LET after[k \in Nat] == IF k = 0 THEN x ELSE step[after[k - 1]]
  IN after[n]

\* A sum, difference or negation of two int64.
Wrapped(x) == INT64_MIN + ((x - INT64_MIN) % (2 * (INT64_MAX + 1)))

\* Division in C: towards zero.
Quotient(x, y) ==
  LET Size(n) == IF n < 0 THEN -n ELSE n
      q == Size(x) \div Size(y)
  IN IF (x < 0) = (y < 0) THEN q ELSE -q

Clamp(x, low, high) == IF x < low THEN low ELSE IF x > high THEN high ELSE x

\* A slice has start, stop and step, each a number or ARGON_NULL.  A step of 0 is refused before
\* anything is read; the slices of the models have none.
slice_indices(s, length) ==
  LET step == IF s.step = ARGON_NULL THEN 1 ELSE s.step
      Bound(v, default, low, high) ==
        IF v = ARGON_NULL THEN default ELSE Clamp(IF v < 0 THEN v + length ELSE v, low, high)
  IN IF step > 0
     THEN [start |-> Bound(s.start, 0, 0, length),
           stop  |-> Bound(s.stop, length, 0, length), step |-> step]
     ELSE [start |-> Bound(s.start, length - 1, -1, length - 1),
           stop  |-> Bound(s.stop, -1, -1, length - 1), step |-> step]

\* How many positions normalised indices name.  The array, tuple and string types have a copy each.
slice_len(x) ==
  IF x.step > 0 /\ x.stop > x.start
  THEN Quotient(Wrapped(x.stop - x.start + x.step - 1), x.step)
  ELSE IF x.step < 0 /\ x.stop < x.start
  THEN Quotient(Wrapped(x.start - x.stop - x.step - 1), Wrapped(-x.step))
  ELSE 0

\* The i-th of them, from 0.
src_index(x, i) == x.start + i * x.step

-------------------------------------------------------------------------------
(* A range iterator over int64: current, stop, step and whether stop is      *)
(* yielded too.  The other form, over rationals, does the same with numbers  *)
(* that do not overflow.                                                     *)

\* range(stop), range(start, stop) and range(start, stop, step); __init__ refuses a step of 0.
NewRange(args, inclusive) ==
  [current |-> IF Len(args) = 1 THEN 0 ELSE args[1],
   stop |-> IF Len(args) = 1 THEN args[1] ELSE args[2],
   step |-> IF Len(args) = 3 THEN args[3] ELSE 1,
   inclusive |-> inclusive]

Exhausted(r) ==
  \/ r.step > 0 /\ r.current > r.stop
  \/ r.step < 0 /\ r.current < r.stop
  \/ ~r.inclusive /\ r.current = r.stop

\* What __next__ leaves behind when it yields current.
Advanced(r) == [r EXCEPT !.current = Wrapped(r.current + r.step)]

RangeObjects == [current : Int, stop : Int, step : Int, inclusive : BOOLEAN]

\* The iterator when __next__ has been called n times, whatever it answered.
After(r, n) == Iterate([s \in RangeObjects |-> Advanced(s)], r, n)

\* How many values it yields; one that wraps yields them for ever, or more than memory holds.
Yielded(r) ==
  LET ends == {n \in 0 .. INT64_MAX : Exhausted(After(r, n))}
  IN IF ends = {} THEN INT64_MAX + 1 ELSE Min(ends)

Endless(r) == Yielded(r) > INT64_MAX
Everything(r) == [i \in 1 .. Yielded(r) |-> After(r, i - 1).current]
=============================================================================
