------------------------------ MODULE ArrayObject ------------------------------
(***************************************************************************)
(* An array (objects/array/array.c of the runtime, on the darray_armem of  *)
(* internals/dynamic_array_armem) and the program that uses it.  Most      *)
(* methods are one step.  map, filter, contains, sort, a loop, and an      *)
(* assignment to a slice from the program's own iterator call the program  *)
(* back, and what it does there may change the array under them.           *)
(***************************************************************************)
EXTENDS Slices

CONSTANTS
  Values,    \* what arrays hold: numbers, for comparisons
  Nowhere,   \* what a slot holds that nobody has written, or that is no longer the array's
  CHUNK,     \* DARRAY_ARMEM_CHUNK_SIZE in elements: 16 in the program
  CUTOFF,    \* argon_qsort sorts by insertion below this distance: 16 in the program
  Methods,   \* the calls the program may begin with
  Later,     \* those it may make after another one, or within
  Starts,    \* the arrays that it may begin with
  MaxCalls,  \* bound: calls made
  MaxYields  \* bound: values that an iterator of the program yields

VARIABLES
  arr,   \* the darray_armem: data, as long as its capacity, and size
  call,  \* the method that has called the program back, or Idle
  last,  \* history: the method that ended last
  calls  \* how many calls have been made

vars == <<arr, call, last, calls>>

\* What a list holds, and what a slot does.
Stored == Int \cup {ARGON_NULL}
Slots == Stored \cup {Nowhere}

ItemLists == {s \in Seq(Stored) : Len(s) <= INT64_MAX}

IsSlice(s) ==
  /\ s.start \in Int64 \cup {ARGON_NULL} /\ s.stop \in Int64 \cup {ARGON_NULL}
  /\ s.step \in (Int64 \ {0}) \cup {ARGON_NULL}

IsRange(r) ==
  r \in RangeObjects /\ r.current \in Int64 /\ r.stop \in Int64 /\ r.step \in Int64 \ {0}

IsIterable(from) ==
  /\ from.k \in {"list", "range", "self"}
  /\ from.k = "list" => from.items \in ItemLists
  /\ from.k = "range" => IsRange(from.range)

\* A method with its arguments, as they have been converted.
IsInvocation(op) ==
  /\ op.m \in {"append", "insert", "pop", "getitem", "setitem", "delitem", "getslice", "setslice",
               "delslice", "new", "tuple", "of_size", "map", "filter", "contains", "for", "sort"}
  /\ op.m \in {"append", "insert"} => op.items \in ItemLists
  /\ op.m \in {"insert", "pop"} => op.pos \in Int64
  /\ op.m \in {"getitem", "setitem", "delitem"} => op.index \in Int64
  /\ op.m \in {"setitem", "filter", "contains"} => op.value \in Stored
  /\ op.m \in {"getslice", "setslice", "delslice", "tuple"} => IsSlice(op.s)
  /\ op.m \in {"new", "setslice", "tuple"} =>
       IsIterable(op.from) \/ (op.m # "tuple" /\ op.from.k = "program")
  /\ op.m = "of_size" => op.n \in Int64
  /\ op.m = "sort" => op.by \in {"ascending", "descending", "less", "greater", "none"}

ASSUME ArrayAssumption ==
  /\ CHUNK \in Nat \ {0} /\ CUTOFF \in Nat \ {0, 1}
  /\ Values \subseteq Int /\ Nowhere \notin Stored
  /\ Starts \subseteq ItemLists
  /\ \A op \in Methods \cup Later : IsInvocation(op)

Idle == [op |-> [m |-> "none"]]

Items(d) == SubSeq(d.data, 1, d.size)

\* The C memcpy of s to data + at, and memmove of what is at from.. to at..
Write(data, at, s) ==
  [i \in DOMAIN data |-> IF i \in at + 1 .. at + Len(s) THEN s[i - at] ELSE data[i]]
Move(data, at, from, n) ==
  [i \in DOMAIN data |-> IF i \in at + 1 .. at + n THEN data[i - at + from] ELSE data[i]]

-------------------------------------------------------------------------------
(* darray_armem                                                             *)

DArrays == [data : Seq(Slots), size : Nat]

\* A negative size is one of 2^63 or more: the room for it wraps to nothing.
darray_armem_init(n) ==
  [data |-> [i \in 1 .. (IF n < 0 THEN 0 ELSE ((n + CHUNK - 1) \div CHUNK) * CHUNK) |-> Nowhere],
   size |-> n]

\* Mutant: the new block is not filled from the old one.
Mut_resize(d, n) == [data |-> [i \in 1 .. 2 * n |-> Nowhere], size |-> n]

\* The capacity may go down as well as up; ar_realloc keeps what fits.
darray_armem_resize(d, n) ==
  LET capacity == 2 * n
  IN [data |-> IF capacity = 0 THEN d.data
               ELSE [i \in 1 .. capacity |-> IF i <= Len(d.data) THEN d.data[i] ELSE Nowhere],
      size |-> n]

\* At the end, which is where all callers insert.
darray_armem_insert(d, e) ==
  LET bigger == IF d.size >= Len(d.data) THEN darray_armem_resize(d, d.size + 1)
                ELSE [d EXCEPT !.size = @ + 1]
  IN [bigger EXCEPT !.data[d.size + 1] = e]

\* pos is a size_t: -1 is beyond every size.
darray_armem_pop(d, pos_) ==
  LET pos == IF pos_ < 0 \/ pos_ >= d.size THEN d.size - 1 ELSE pos_
  IN [d EXCEPT !.data = Move(@, pos, pos + 1, d.size - pos - 1), !.size = @ - 1]

\* Whether darray_armem_get finds every position of S, or ends the process.
Gets(d, S) == S \subseteq 0 .. d.size - 1

-------------------------------------------------------------------------------
(* How a method goes on: it returns, throws, ends the process ("exit"),      *)
(* reads or writes outside its memory ("wild"), makes an array of nearly     *)
(* 2^64 items ("huge"), never ends ("endless"), or calls the program.        *)

Ends(d, out, end) == [arr |-> d, out |-> out, end |-> end]
Return(d, out)    == Ends(d, out, "returned")
Throw(d)          == Ends(d, <<>>, "thrown")
Dies(d, how)      == Ends(d, <<>>, how)
Calls(d, c)       == [arr |-> d, end |-> "calls", call |-> c]

append(d, items) ==
  IF items = <<>> THEN Return(d, <<>>)
  ELSE LET bigger == darray_armem_resize(d, d.size + Len(items))
       IN Return([bigger EXCEPT !.data = Write(@, d.size, items)], <<>>)

\* Mutant: the tail is not moved out of the way.
Mut_insert(d, pos, items) ==
  IF (pos > d.size /\ 0 < pos) \/ items = <<>> THEN Return(d, <<>>)
  ELSE IF pos < 0 THEN Dies(d, "wild")
  ELSE LET bigger == darray_armem_resize(d, d.size + Len(items))
       IN Return([bigger EXCEPT !.data = Write(@, pos, items)], <<>>)

\* The test of the position lets a negative one through.
insert(d, pos, items) ==
  IF (pos > d.size /\ 0 < pos) \/ items = <<>> THEN Return(d, <<>>)
  ELSE IF pos < 0 THEN Dies(d, "wild")
  ELSE LET n == Len(items)
           bigger == darray_armem_resize(d, d.size + n)
           gap == Move(bigger.data, pos + n, pos, d.size - pos)
       IN Return([bigger EXCEPT !.data = Write(gap, pos, items)], <<>>)

pop(d, pos) ==
  IF d.size = 0 THEN Throw(d)
  ELSE Return(darray_armem_pop(d, pos),
              <<d.data[IF pos < 0 \/ pos >= d.size THEN d.size ELSE pos + 1]>>)

\* The position that an index names: negative ones count from the end.
At(d, index) == IF index < 0 THEN index + d.size ELSE index
InRange(d, index) == At(d, index) \in 0 .. d.size - 1

getitem(d, index) ==
  IF InRange(d, index) THEN Return(d, <<d.data[At(d, index) + 1]>>) ELSE Throw(d)

setitem(d, index, v) ==
  IF InRange(d, index) THEN Return([d EXCEPT !.data[At(d, index) + 1] = v], <<v>>) ELSE Throw(d)

delitem(d, index) ==
  IF InRange(d, index)
  THEN LET at == At(d, index)
       IN Return([data |-> Move(d.data, at, at + 1, d.size - at - 1), size |-> d.size - 1], <<>>)
  ELSE Throw(d)

Chosen(x) == {src_index(x, i) : i \in 0 .. slice_len(x) - 1}

getslice(d, s) ==
  LET x == slice_indices(s, d.size)
      n == slice_len(x)
  IN IF n < 0 THEN Dies(d, "huge")
     ELSE IF ~Gets(d, Chosen(x)) THEN Dies(d, "exit")
     ELSE Return(d, [i \in 1 .. n |-> d.data[src_index(x, i - 1) + 1]])

\* The items are moved down over the slots that are NULL.
Squeezed(d) ==
  LET Down == [s \in [data : Seq(Slots), write : Nat, read : Nat] |->
                 IF s.read >= d.size THEN s
                 ELSE IF s.data[s.read + 1] = Nowhere THEN [s EXCEPT !.read = @ + 1]
                 ELSE [data |-> [s.data EXCEPT ![s.write + 1] = s.data[s.read + 1]],
                       write |-> s.write + 1, read |-> s.read + 1]]
      end == Iterate(Down, [data |-> d.data, write |-> 0, read |-> 0], d.size)
  IN [data |-> end.data, size |-> end.write]

\* A contiguous slice is closed by moving the tail; of another one the slots are set to NULL and
\* squeezed out.
delslice(d, s) ==
  LET x == slice_indices(s, d.size)
      n == slice_len(x)
      start == IF x.step = 1 THEN x.start ELSE x.stop + 1
      marked == [i \in DOMAIN d.data |-> IF i - 1 \in Chosen(x) THEN Nowhere ELSE d.data[i]]
  IN IF n = 0 THEN Return(d, <<>>)
     ELSE IF x.step \in {1, -1}
     THEN Return([data |-> Move(d.data, start, start + n, d.size - n - start), size |-> d.size - n],
                 <<>>)
     ELSE IF ~Gets(d, Chosen(x)) THEN Dies(d, "exit")
     ELSE Return(Squeezed([d EXCEPT !.data = marked]), <<>>)

-------------------------------------------------------------------------------
(* What is iterated over to build an array or to replace a slice: a list of *)
(* its own, a range, the array itself, or an iterator of the program.       *)

collected(b, from) ==
  CASE from.k = "list"  -> from.items
    [] from.k = "range" -> Everything(from.range)
    [] from.k = "self"  -> b

NeverEnds(from) == from.k = "range" /\ Endless(from.range)

\* array(iterable); tuple.of(iterable), and a slice of that tuple, which is read without a check.
new(d, from) == IF NeverEnds(from) THEN Dies(d, "endless") ELSE Return(d, collected(Items(d), from))

tuple_of(d, from) == collected(Items(d), from)
tuple_getslice(d, from, s) ==
  LET tuple == tuple_of(d, from)
      x == slice_indices(s, Len(tuple))
      n == slice_len(x)
  IN IF NeverEnds(from) THEN Dies(d, "endless")
     ELSE IF n < 0 THEN Dies(d, "huge")
     ELSE IF \E p \in Chosen(x) : p \notin 0 .. Len(tuple) - 1 THEN Dies(d, "wild")
     ELSE Return(d, [i \in 1 .. n |-> tuple[src_index(x, i - 1) + 1]])

\* The indices x and their number n were computed before new_items were collected.
assign(d, x, n, new_items) ==
  LET new_len  == Len(new_items)
      new_size == d.size - n + new_len
      grown == IF new_len > n
               THEN Iterate([e \in DArrays |-> darray_armem_insert(e, ARGON_NULL)], d, new_len - n)
               ELSE d
      moved == [i \in DOMAIN grown.data |->
                  IF i > x.start + new_len /\ i <= new_size THEN grown.data[i - new_len + n]
                  ELSE grown.data[i]]
  IN IF x.step # 1
     THEN IF new_len # n THEN Throw(d)
          ELSE IF ~Gets(d, Chosen(x)) THEN Dies(d, "exit")
          ELSE Return([d EXCEPT !.data = [p \in DOMAIN @ |->
                         IF \E i \in 0 .. n - 1 : src_index(x, i) + 1 = p
                         THEN new_items[1 + CHOOSE i \in 0 .. n - 1 : src_index(x, i) + 1 = p]
                         ELSE @[p]]], new_items)
     ELSE IF new_size < 0 THEN Dies(d, "huge")
     ELSE IF new_len > 0 /\ x.start + new_len > new_size THEN Dies(d, "exit")
     ELSE Return([data |-> Write(moved, x.start, new_items), size |-> new_size], new_items)

setslice(d, s, from) ==
  LET x == slice_indices(s, d.size)
  IN IF NeverEnds(from) THEN Dies(d, "endless")
     ELSE assign(d, x, slice_len(x), collected(Items(d), from))

\* array.of_size(n), by which the program replaces its array.
of_size(n) ==
  LET d == darray_armem_init(n)
  IN IF n < 0 THEN Dies(d, "huge")
     ELSE Return([d EXCEPT !.data = Write(@, 0, [i \in 1 .. n |-> ARGON_NULL])], <<>>)

\* The methods that never call the program.
Run(op, d) ==
  CASE op.m = "append"   -> append(d, op.items)
    [] op.m = "insert"   -> insert(d, op.pos, op.items)
    [] op.m = "pop"      -> pop(d, op.pos)
    [] op.m = "getitem"  -> getitem(d, op.index)
    [] op.m = "setitem"  -> setitem(d, op.index, op.value)
    [] op.m = "delitem"  -> delitem(d, op.index)
    [] op.m = "getslice" -> getslice(d, op.s)
    [] op.m = "setslice" -> setslice(d, op.s, op.from)
    [] op.m = "delslice" -> delslice(d, op.s)
    [] op.m = "new"      -> new(d, op.from)
    [] op.m = "tuple"    -> tuple_getslice(d, op.from, op.s)
    [] op.m = "of_size"  -> of_size(op.n)

CallsBack(op) ==
  \/ op.m \in {"map", "filter", "contains", "for", "sort"}
  \/ op.m \in {"new", "setslice"} /\ op.from.k = "program"

-------------------------------------------------------------------------------
(* Sorting.  The comparisons are the program's; the slots that are compared *)
(* are a copy that it cannot reach.                                         *)

argon_array_compare(a, b, by) ==
  CASE by = "ascending"  -> a - b
    [] by = "descending" -> b - a
    [] by = "less"       -> -1
    [] by = "greater"    -> 1
    [] by = "none"       -> 0   \* the program's function gives no number

\* key goes down to p, over everything that comes after it.
Sink(a, lo, j, key, by) ==
  LET p == Min({q \in lo .. j : \A r \in q .. j - 1 : argon_array_compare(a[r], key, by) > 0})
  IN [k \in DOMAIN a |-> IF k = p THEN key ELSE IF k \in p + 1 .. j THEN a[k - 1] ELSE a[k]]

argon_insertion_sort(a, lo, hi, by) ==
  LET Insert == [s \in [a : Seq(Int), i : Nat] |->
                   IF s.i > hi THEN s
                   ELSE [a |-> Sink(s.a, lo, s.i, s.a[s.i], by), i |-> s.i + 1]]
  IN Iterate(Insert, [a |-> a, i |-> lo + 1], hi - lo).a

Swapped(a, i, j) == [a EXCEPT ![i] = a[j], ![j] = a[i]]
InOrder(a, i, j, by) == IF argon_array_compare(a[i], a[j], by) > 0 THEN Swapped(a, i, j) ELSE a

\* Where the two scans of the partition stop and cross.  The one upwards is held by the pivot
\* alone: with a comparison that puts nothing after the pivot it leaves the copy, here at 0.
Partition(a, lo, hi, by) ==
  LET pivot == a[hi - 1]
      Scan == [s \in [a : Seq(Int), i : Nat, j : Nat, over : BOOLEAN] |->
        LET up   == {k \in DOMAIN s.a : k > s.i /\ ~(argon_array_compare(s.a[k], pivot, by) < 0)}
            down == {k \in lo .. s.j - 1 : ~(argon_array_compare(pivot, s.a[k], by) < 0)} \cup {lo}
            i == Min(up)
            j == Max(down)
        IN IF s.over THEN s
           ELSE IF up = {} THEN [s EXCEPT !.i = 0, !.over = TRUE]
           ELSE IF i >= j THEN [s EXCEPT !.i = i, !.over = TRUE]
           ELSE [s EXCEPT !.a = Swapped(@, i, j), !.i = i, !.j = j]]
  IN Iterate(Scan, [a |-> a, i |-> lo, j |-> hi - 1, over |-> FALSE], Len(a))

\* todo has the parts that are still to be sorted, as the recursion takes them.  <<>> stands for a
\* scan outside the copy.  Positions are from 1.
argon_qsort(a, lo_, hi_, by) ==
  LET Part == [s \in [a : Seq(Int), todo : Seq(Nat \X Nat)] |->
        LET lo == Head(s.todo)[1]
            hi == Head(s.todo)[2]
            mid == lo + (hi - lo) \div 2
            b == InOrder(InOrder(InOrder(s.a, lo, mid, by), lo, hi, by), mid, hi, by)
            parted == Partition(Swapped(b, mid, hi - 1), lo, hi, by)
            i == parted.i
        IN IF s.todo = <<>> THEN s
           ELSE IF hi - lo < CUTOFF
           THEN [a |-> argon_insertion_sort(s.a, lo, hi, by), todo |-> Tail(s.todo)]
           ELSE IF i = 0 THEN [a |-> <<>>, todo |-> <<>>]
           ELSE [a |-> Swapped(parted.a, i, hi - 1),
                 todo |-> (IF i - 1 > lo THEN << <<lo, i - 1>> >> ELSE <<>>)
                          \o (IF i + 1 < hi THEN << <<i + 1, hi>> >> ELSE <<>>) \o Tail(s.todo)]]
  IN Iterate(Part, [a |-> a, todo |-> << <<lo_, hi_>> >>], 2 * Len(a)).a

\* The sorted copy is written back over what is the array by now, without a look at its size and
\* then with one.
write_back(d, c) ==
  LET sorted == argon_qsort(c.out, 1, c.n, c.op.by)
  IN IF sorted = <<>> \/ c.n > Len(d.data) THEN Dies(d, "wild")
     ELSE IF c.n > d.size THEN Dies(d, "exit")
     ELSE Return([d EXCEPT !.data = Write(@, 0, sorted)], <<>>)

-------------------------------------------------------------------------------
(* Methods that call the program.  Each says how it goes on from the state  *)
(* of its locals: n, the size it was begun with; i; given, the item that    *)
(* the program is called with; moved, whether the slot it was read from has *)
(* been given back since; out, what has been collected.                     *)

\* map trusts n, but reads by darray_armem_get.
map(d, c) ==
  IF c.i = c.n THEN Return(d, c.out)
  ELSE IF ~Gets(d, {c.i}) THEN Dies(d, "exit")
  ELSE Calls(d, [c EXCEPT !.given = d.data[c.i + 1]])

\* Mutant: filter trusts n as well.
Mut_filter(d, c) ==
  IF c.i = c.n THEN Return(d, c.out)
  ELSE IF ~Gets(d, {c.i}) THEN Dies(d, "exit")
  ELSE Calls(d, [c EXCEPT !.given = d.data[c.i + 1], !.moved = FALSE])

\* filter, __contains__ and the array's iterator look at the size each time.
filter(d, c) ==
  IF c.i < d.size THEN Calls(d, [c EXCEPT !.given = d.data[c.i + 1], !.moved = FALSE])
  ELSE Return(d, c.out)

__contains__(d, c) ==
  IF c.i > 0 /\ c.given = c.op.value THEN Return(d, <<c.given>>)
  ELSE IF c.i < d.size THEN Calls(d, [c EXCEPT !.given = d.data[c.i + 1]])
  ELSE Return(d, <<>>)

\* A for loop: __next__ of the array's iterator, and the body.
__next__(d, c) ==
  IF c.i < d.size
  THEN Calls(d, [c EXCEPT !.given = d.data[c.i + 1], !.out = Append(@, d.data[c.i + 1])])
  ELSE Return(d, c.out)

sort(d, c) ==
  IF c.n <= 1 THEN Return(d, <<>>)
  ELSE IF c.i = 0 THEN Calls(d, [c EXCEPT !.out = Items(d)])
  ELSE write_back(d, c)

\* The program's iterator has ended when i is 1.
collect(d, c) ==
  IF c.i = 0 THEN Calls(d, c)
  ELSE IF c.op.m = "new" THEN Return(d, c.out)
  ELSE assign(d, c.x, slice_len(c.x), c.out)

GoOn(d, c) ==
  CASE c.op.m = "map"      -> map(d, c)
    [] c.op.m = "filter"   -> filter(d, c)
    [] c.op.m = "contains" -> __contains__(d, c)
    [] c.op.m = "for"      -> __next__(d, c)
    [] c.op.m = "sort"     -> sort(d, c)
    [] c.op.m \in {"new", "setslice"} -> collect(d, c)

\* filter reads the slot again, through the pointer it had before the call.
Reread(d, c) == IF c.moved \/ c.i >= Len(d.data) THEN Nowhere ELSE d.data[c.i + 1]

\* What the program may answer, and what the method makes of it.  The function of map returns its
\* argument, so that what comes out is what was read; the comparisons of sort throw on anything
\* but a number.
Answered(d, c) ==
  LET next == [c EXCEPT !.i = @ + 1]
  IN CASE c.op.m = "map"    -> {[next EXCEPT !.out = Append(@, c.given)]}
       [] c.op.m = "filter" ->
            IF c.given = c.op.value THEN {next}
            ELSE {[next EXCEPT !.out = Append(@, Reread(d, c))]}
       [] c.op.m = "sort"   -> IF Range(c.out) \subseteq Values THEN {next} ELSE {}
       [] c.op.m \in {"new", "setslice"} ->
            {next} \cup IF Len(c.out) = MaxYields THEN {}
                        ELSE {[c EXCEPT !.out = Append(@, v)] : v \in Values}
       [] OTHER -> {next}

-------------------------------------------------------------------------------
(* The program                                                              *)

Report(op, before, o) ==
  [op |-> op, before |-> before, out |-> o.out, end |-> o.end,
   held |-> {}, touched |-> FALSE, shrunk |-> FALSE]

Init ==
  /\ \E s \in Starts : arr = [darray_armem_init(Len(s)) EXCEPT !.data = Write(@, 0, s)]
  /\ call = Idle /\ calls = 0
  /\ last = Report(Idle.op, <<>>, Return(arr, <<>>))

\* A call that changes nothing is the last: the others may be made without it.
Counted(changes) == calls' = IF changes THEN calls + 1 ELSE MaxCalls

Alive == last.end \in {"returned", "thrown"}

\* The method c goes on with outcome o.
Step(c, o) ==
  /\ arr' = o.arr
  /\ IF o.end = "calls" THEN call' = o.call /\ UNCHANGED last
     ELSE /\ call' = Idle
          /\ last' = [op |-> c.op, before |-> c.before, out |-> o.out, end |-> o.end,
                      held |-> c.held, touched |-> c.touched, shrunk |-> c.shrunk]

\* The program calls a method that does not call back.  When it does so from within another one
\* it changes the array under it: reading shows nothing there.  A reallocation may move the block.
Simple(op) ==
  /\ Alive /\ calls < MaxCalls /\ ~CallsBack(op)
  /\ LET o == Run(op, arr)
     IN /\ call # Idle => o.arr # arr \/ o.end \notin {"returned", "thrown"}
        /\ call # Idle => op.m # "of_size"
        /\ arr' = o.arr
        /\ last' = Report(op, Items(arr), o)
        /\ IF call = Idle THEN UNCHANGED call
           ELSE \E moves \in {FALSE, Len(o.arr.data) # Len(arr.data)} :
                  call' = [call EXCEPT !.moved = @ \/ moves, !.touched = TRUE,
                                       !.shrunk = @ \/ o.arr.size < arr.size,
                                       !.held = @ \cup Range(Items(o.arr))]
        /\ Counted(o.arr # arr)

Begin(op) ==
  /\ Alive /\ calls < MaxCalls /\ call = Idle /\ CallsBack(op)
  /\ LET c == [op |-> op, n |-> arr.size, i |-> 0, given |-> Nowhere, moved |-> FALSE, out |-> <<>>,
               x |-> IF op.m = "setslice" THEN slice_indices(op.s, arr.size) ELSE ARGON_NULL,
               before |-> Items(arr), held |-> Range(Items(arr)),
               touched |-> FALSE, shrunk |-> FALSE]
     IN Step(c, GoOn(arr, c))
  /\ calls' = calls + 1

Answer ==
  /\ Alive /\ call # Idle
  /\ \E c \in Answered(arr, call) : Step(c, GoOn(arr, c))
  /\ IF call' = Idle /\ ~call.touched /\ arr' = arr THEN Counted(FALSE) ELSE UNCHANGED calls

\* The program throws: the method gives up, and what it has collected is lost.
Raise ==
  /\ Alive /\ call # Idle
  /\ Step(call, Throw(arr))
  /\ IF call.touched THEN UNCHANGED calls ELSE Counted(FALSE)

\* Memory ends before an array has more than INT64_MAX items.
Next ==
  /\ \/ \E op \in IF calls = 0 THEN Methods ELSE Later : Simple(op) \/ Begin(op)
     \/ Answer
     \/ Raise
  /\ arr'.size <= INT64_MAX

Spec == Init /\ [][Next]_vars

-------------------------------------------------------------------------------
(* Properties.  A list is a sequence, and what a method does to it is said   *)
(* here without buffers, indices or sizes.                                   *)

\* The numbers of S, upwards or downwards.
Listed(S, up) ==
  LET Before(x) == {y \in S : IF up THEN y < x ELSE y > x}
  IN [i \in 1 .. Cardinality(S) |-> CHOOSE x \in S : Cardinality(Before(x)) = i - 1]

\* The positions that a slice names in a list of n, in its order.
Named(s, n) ==
  LET step == IF s.step = ARGON_NULL THEN 1 ELSE s.step
      From(v, default) == IF v = ARGON_NULL THEN default ELSE IF v < 0 THEN v + n ELSE v
      first == IF step > 0 THEN Max({0, From(s.start, 0)}) ELSE Min({n - 1, From(s.start, n - 1)})
      IsNamed(p) == IF step > 0 THEN p >= first /\ p < From(s.stop, n) /\ (p - first) % step = 0
                    ELSE p <= first /\ p > From(s.stop, -1) /\ (first - p) % (-step) = 0
  IN Listed({p \in 0 .. n - 1 : IsNamed(p)}, step > 0)

NamedItems(s, b) == LET at == Named(s, Len(b)) IN [i \in DOMAIN at |-> b[at[i] + 1]]

\* The numbers that a range stands for.
RangeOf(r) ==
  LET IsIn(x) ==
        /\ IF r.step > 0 THEN x >= r.current /\ x <= r.stop /\ (x - r.current) % r.step = 0
           ELSE x <= r.current /\ x >= r.stop /\ (r.current - x) % (-r.step) = 0
        /\ r.inclusive \/ x # r.stop
  IN Listed({x \in Int64 : IsIn(x)}, r.step > 0)

Source(b, from) ==
  CASE from.k = "list"  -> from.items
    [] from.k = "range" -> RangeOf(from.range)
    [] from.k = "self"  -> b

Without(b, at) == LET rest == Listed(DOMAIN b \ at, TRUE) IN [i \in DOMAIN rest |-> b[rest[i]]]

\* b with the positions of the slice replaced by s.
Replaced(b, s, items) ==
  LET at == Named(s, Len(b))
      first == IF at # <<>> THEN at[1] ELSE slice_indices(s, Len(b)).start
  IN IF s.step \in {1, ARGON_NULL}
     THEN SubSeq(b, 1, first) \o items \o SubSeq(b, first + Len(at) + 1, Len(b))
     ELSE [p \in DOMAIN b |-> IF \E i \in DOMAIN at : at[i] + 1 = p
                              THEN items[CHOOSE i \in DOMAIN at : at[i] + 1 = p] ELSE b[p]]

Has(b, index) == index \in -Len(b) .. Len(b) - 1
Place(b, index) == IF index < 0 THEN index + Len(b) + 1 ELSE index + 1

\* A list refuses what it does not have.
Refused(op, b, items) ==
  CASE op.m = "pop" -> b = <<>>
    [] op.m \in {"getitem", "setitem", "delitem"} -> ~Has(b, op.index)
    [] op.m = "setslice" -> op.s.step \notin {1, ARGON_NULL} /\ Len(items) # Len(Named(op.s, Len(b)))
    [] OTHER -> FALSE

\* What a method returns.  pop takes the last item when there is none at its position.
Result(op, b, out) ==
  CASE op.m = "pop" -> <<b[IF op.pos \in 0 .. Len(b) - 1 THEN op.pos + 1 ELSE Len(b)]>>
    [] op.m = "getitem"  -> <<b[Place(b, op.index)]>>
    [] op.m = "setitem"  -> <<op.value>>
    [] op.m = "getslice" -> NamedItems(op.s, b)
    [] op.m = "tuple"    -> NamedItems(op.s, Source(b, op.from))
    [] op.m \in {"new", "setslice"} -> IF op.from.k = "program" THEN out ELSE Source(b, op.from)
    [] op.m \in {"map", "for"} -> b
    [] op.m = "filter"   -> Without(b, {i \in DOMAIN b : b[i] = op.value})
    [] op.m = "contains" -> IF op.value \in Range(b) THEN <<op.value>> ELSE <<>>
    [] OTHER -> <<>>

Count(v, s) == Cardinality({i \in DOMAIN s : s[i] = v})

\* Whether a list that was b has become a.
Becomes(op, b, a, items) ==
  CASE op.m = "append"  -> a = b \o op.items
    [] op.m = "insert"  -> a = IF op.pos > Len(b) \/ op.items = <<>> THEN b
                               ELSE SubSeq(b, 1, op.pos) \o op.items \o SubSeq(b, op.pos + 1, Len(b))
    [] op.m = "pop"     -> a = Without(b, {IF op.pos \in 0 .. Len(b) - 1 THEN op.pos + 1 ELSE Len(b)})
    [] op.m = "setitem" -> a = ReplaceAt(b, Place(b, op.index), op.value)
    [] op.m = "delitem" -> a = Without(b, {Place(b, op.index)})
    [] op.m = "delslice" -> a = Without(b, {p + 1 : p \in Range(Named(op.s, Len(b)))})
    [] op.m = "setslice" -> a = Replaced(b, op.s, items)
    [] op.m = "of_size" -> a = [i \in 1 .. op.n |-> ARGON_NULL]
    [] op.m = "sort" ->
         /\ \A v \in Range(a) \cup Range(b) : Count(v, a) = Count(v, b)
         /\ op.by \in {"ascending", "descending"} =>
              \A i, j \in DOMAIN a : i < j => argon_array_compare(a[i], a[j], op.by) <= 0
    [] OTHER -> a = b

\* Steps and ranges whose arithmetic leaves 64 bits, and ranges of 2^63 - 1 numbers or more.
HugeStep(op, b) ==
  LET n == Len(IF op.m = "tuple" THEN collected(b, op.from) ELSE b)
  IN /\ op.m \in {"getslice", "setslice", "delslice", "tuple"} /\ op.s.step # ARGON_NULL
     /\ op.s.step > INT64_MAX - n \/ op.s.step < n - INT64_MAX
OverTheEdge(op) ==
  /\ op.m \in {"new", "setslice", "tuple"} /\ op.from.k = "range"
  /\ LET r == op.from.range
     IN \/ r.stop + r.step \notin Int64
        \/ IF r.step > 0 THEN r.stop - r.current >= INT64_MAX * r.step
           ELSE r.stop - r.current <= INT64_MAX * r.step

\* A method during which the program has not changed the array does what the same method does to
\* a list, or has no effect and throws: whatever the capacity of the buffer, what is left in it,
\* how a slice counts, and how the sort goes.
UndisturbedIsExactBut ==
  LET op == last.op  b == last.before  a == Items(arr)
  IN (/\ op.m # "none" /\ ~last.touched
      /\ ~HugeStep(op, b) /\ ~OverTheEdge(op)) =>
     /\ last.end = "thrown" =>
          a = b /\ (CallsBack(op) \/ Refused(op, b, Result(op, b, <<>>)))
     /\ last.end = "returned" =>
          /\ ~Refused(op, b, last.out)
          /\ last.out = Result(op, b, last.out)
          /\ Becomes(op, b, a, last.out)

\* No slot that nobody has written becomes an item, and what a method that calls back delivers was
\* in the array at some time during the call, though the program changed it; except what filter
\* keeps when its test has changed the array, since it reads the item again.
DeliversItemsBut ==
  Alive =>
    /\ Nowhere \notin Range(Items(arr))
    /\ last.op.m \in {"map", "filter", "for", "contains"} =>
         Range(last.out) \subseteq
           last.held \cup (IF last.op.m = "filter" /\ last.touched THEN {Nowhere} ELSE {})

\* No sequence of calls, nested ones included, ends the process, leaves the buffer or makes an
\* array of 2^64 items, except an insertion at a negative position, a negative size, arithmetic
\* that leaves 64 bits, a comparison that is not an order, and map, sort and an assignment to a
\* slice when the program has made the array shorter meanwhile.
StaysInBufferBut ==
  LET op == last.op
      Shorter(ms) == op.m \in ms /\ last.shrunk
  IN CASE last.end = "wild" -> \/ op.m = "insert" /\ op.pos < 0
                               \/ op.m = "sort" /\ op.by = "less"
                               \/ Shorter({"sort"})
       [] last.end = "exit" -> Shorter({"map", "sort", "setslice"})
       [] last.end = "huge" -> \/ op.m = "of_size" /\ op.n < 0
                               \/ HugeStep(op, last.before)
                               \/ Shorter({"setslice"})
       [] last.end = "endless" -> OverTheEdge(op)
       [] OTHER -> TRUE
=============================================================================
