------------------------------ MODULE Dictionary ------------------------------
(***************************************************************************)
(* A dictionary and a loop over it (src/src/runtime/objects/dictionary/    *)
(* dictionary.c).  The iterator is an array of pointers to the entries of  *)
(* the map, taken once; the body of the loop, or another thread, updates   *)
(* the map meanwhile.  The map of a scope is cleared and nothing iterates  *)
(* over it.                                                                *)
(*                                                                         *)
(* No lock covers the iterator once the pointers are collected: sorting    *)
(* them, and each of the two loads of __next__, is a step of its own, and  *)
(* updates by other threads come between. An update, which has the lock,   *)
(* is one step also for these loads, as each of them is of one word, and   *)
(* the two come in any order.                                              *)
(***************************************************************************)
EXTENDS HashmapGC

CONSTANT MaxLoopOrder  \* how many insertions are considered while a loop is under way

VARIABLES
  owner,     \* what has this map: a dictionary or a scope
  nodes,     \* the entries that a listing has collected and has still to sort
  array,     \* the entries that the iterator has still to yield, from current on
  key, val,  \* what __next__ has loaded of the first of them: at most one of each
  \* History, for the properties:
  keys,      \* the keys of these entries when the iterator was made
  held,      \* the pairs that the dictionary has held since then
  moved,     \* whether slots have moved since then
  torn       \* whether slots have moved, or been filled again, between the two loads

loads    == <<key, val, torn>>
iterator == <<owner, nodes, array, keys, held, moved, loads>>

Pair(e) == <<e.hash, e.val>>
Iterating == nodes # {} \/ array # <<>>
BetweenLoads == (key = {}) # (val = {})

DictInit ==
  /\ Init /\ owner \in {"dictionary", "scope"}
  /\ nodes = {} /\ array = <<>> /\ key = {} /\ val = {}
  /\ keys = <<>> /\ held = {} /\ moved = FALSE /\ torn = FALSE

\* One iterator at a time: the map does not depend on the iterators over it.
__iter__ ==
  /\ owner = "dictionary" /\ ~Iterating
  /\ nodes' = Pointers
  /\ keys' = [i \in DOMAIN hashmap_GC_to_array |-> Deref(hashmap_GC_to_array[i]).hash]
  /\ held' = {Pair(Deref(p)) : p \in Pointers}
  /\ UNCHANGED <<vars, owner, array, moved, loads>>

\* The comparisons read the orders through the pointers: if slots have moved since they
\* were collected, the array may come out in any order.
__iter__sort ==
  /\ nodes # {}
  /\ array' \in IF moved THEN Bijection(1 .. Cardinality(nodes), nodes) ELSE {ByOrder(nodes)}
  /\ nodes' = {}
  /\ UNCHANGED <<vars, owner, keys, held, moved, loads>>

\* __next__ loads node->key and node->val, which the compiler may do in either order.
__next__key ==
  /\ array # <<>> /\ key = {}
  /\ key' = {Deref(Head(array)).hash}
  /\ UNCHANGED <<vars, owner, nodes, array, val, keys, held, moved, torn>>

__next__val ==
  /\ array # <<>> /\ val = {}
  /\ val' = {Deref(Head(array)).val}
  /\ UNCHANGED <<vars, owner, nodes, array, key, keys, held, moved, torn>>

\* It yields what it has loaded.
__next__ ==
  /\ key # {} /\ val # {}
  /\ key' = {} /\ val' = {} /\ torn' = FALSE
  /\ array' = Tail(array) /\ keys' = Tail(keys)
  /\ IF array' = <<>> THEN held' = {} /\ moved' = FALSE ELSE UNCHANGED <<held, moved>>
  /\ UNCHANGED <<vars, owner, nodes>>

__setitem__(k, v) ==
  /\ Iterating => order < MaxLoopOrder
  /\ hashmap_insert_GC(k, v)
  /\ held' = IF Iterating THEN held \cup {<<k, v>>} ELSE held
  /\ torn' = (torn \/ (BetweenLoads /\ moved /\ inline_count' # inline_count))
  /\ UNCHANGED <<owner, nodes, array, key, val, keys, moved>>

__delitem__(k) ==
  /\ hashmap_remove_GC(k)
  /\ moved' = (moved \/ (Iterating /\ inline_count' # inline_count))
  /\ torn' = (torn \/ (BetweenLoads /\ inline_count' # inline_count))
  /\ UNCHANGED <<owner, nodes, array, key, val, keys, held>>

EMPTY_SCOPE ==
  /\ owner = "scope"
  /\ clear_hashmap_GC
  /\ UNCHANGED iterator

DictNext ==
  \/ \E k \in Keys, v \in Vals : __setitem__(k, v)
  \/ \E k \in Keys : __delitem__(k)
  \/ __iter__
  \/ __iter__sort
  \/ __next__key
  \/ __next__val
  \/ __next__
  \/ EMPTY_SCOPE

DictSpec == DictInit /\ [][DictNext]_<<vars, iterator>>

-------------------------------------------------------------------------------
(* Properties *)

\* While the dictionary loses no inline entry, the iterator goes through the keys that the
\* dictionary had when it was made, in that order, and leads to the value of now of those
\* still there: growing the table moves no node, and an update while the pointers are being
\* sorted makes no difference.
IteratorKeepsItsEntries ==
  ~moved =>
    \A i \in DOMAIN array :
      LET e == Deref(array[i])
      IN /\ e.hash = keys[i]
         /\ array[i] \in Pointers => hashmap_lookup_GC(e.hash) = e.val

\* A pair that __next__ yields is one that the dictionary has held since __iter__, also when
\* slots have moved under the iterator: never a blank slot, an entry of before, or a key with
\* the value of another.  But when another thread removes an inline entry between the two
\* loads, or fills a slot that a removal has vacated, key and value may be of two such pairs.
IteratorYieldsHeldPairsBut ==
  /\ ~torn => key \X val \subseteq held
  /\ key \subseteq {pair[1] : pair \in held} /\ val \subseteq {pair[2] : pair \in held}
=============================================================================
