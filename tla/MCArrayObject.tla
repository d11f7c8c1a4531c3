----------------------------- MODULE MCArrayObject -----------------------------
(* ArrayObject for TLC: what the program may call.                             *)
EXTENDS ArrayObject

\* Lists shorter than a chunk, as long and longer; the longer ones are partitioned by the sort.
MCStarts == {<<>>, <<2>>, <<2, 1>>, <<1, 2, 1>>, <<2, 1, 2, 1>>, <<1, 2, 1, 1, 2>>, <<2, 2, 1, 1, 1>>}

Bounds == {ARGON_NULL, -4, -1, 1, 3}
Steps  == {ARGON_NULL, 1, 2, -1, -2}
AnySlice == [start : Bounds, stop : Bounds, step : Steps]
            \cup [start : {0, ARGON_NULL}, stop : {2, ARGON_NULL}, step : {INT64_MAX, INT64_MIN}]
Fewer  == [start : {0, 1}, stop : {ARGON_NULL}, step : {1, 2}]
Few    == [start : {0, 1, -1}, stop : {2, ARGON_NULL}, step : {1, 2, -1}]
Lists  == {<<>>, <<2, 1>>, <<1, 1, 2>>}

Ranges ==
  {NewRange(args, inclusive) :
     args \in {<<2>>, <<1, 3>>, <<0, 3, 2>>, <<2, -1, -2>>, <<1, -1, -1>>, <<INT64_MAX, INT64_MAX>>,
               <<1, INT64_MAX, 2>>, <<0, INT64_MAX, 2>>, <<1, INT64_MIN, -3>>},
     inclusive \in BOOLEAN}

Sources == [k : {"list"}, items : Lists] \cup [k : {"range"}, range : Ranges] \cup [k : {"self"}]
Program == [k |-> "program"]

MCMethods ==
  [m : {"append"}, items : {<<>>, <<1>>, <<2, 1>>}]
    \cup [m : {"insert"}, pos : -1 .. 4, items : {<<>>, <<2>>, <<1, 2>>}]
    \cup [m : {"pop"}, pos : -1 .. 3]
    \cup [m : {"getitem", "delitem"}, index : -3 .. 3]
    \cup [m : {"setitem"}, index : -3 .. 2, value : Values]
    \cup [m : {"getslice", "delslice"}, s : AnySlice]
    \cup [m : {"setslice"}, s : AnySlice, from : [k : {"list"}, items : Lists]]
    \cup [m : {"setslice"}, s : Few, from : Sources \cup {Program}]
    \cup [m : {"tuple"}, from : Sources, s : Few]
    \cup [m : {"new"}, from : Sources \cup {Program}]
    \cup [m : {"of_size"}, n : {-1, 0, 2, 3}]
    \cup [m : {"map", "for"}]
    \cup [m : {"filter", "contains"}, value : Values]
    \cup [m : {"sort"}, by : {"ascending", "descending", "less", "greater", "none"}]

MCLater ==
  [m : {"append"}, items : {<<2, 1>>}]
    \cup [m : {"insert"}, pos : {1}, items : {<<2>>}]
    \cup [m : {"pop"}, pos : {-1, 0}]
    \cup [m : {"delitem"}, index : {0, -1}]
    \cup [m : {"setitem"}, index : {-2}, value : {1}]
    \cup [m : {"delslice"}, s : Fewer]
    \cup [m : {"setslice"}, s : Fewer, from : [k : {"list"}, items : {<<1, 1, 2>>}]]
    \cup [m : {"map", "for"}]
    \cup [m : {"filter"}, value : {1}]
    \cup [m : {"sort"}, by : {"ascending"}]
=============================================================================
