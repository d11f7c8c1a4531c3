------------------------------ MODULE HashmapGC ------------------------------
(***************************************************************************)
(* The map behind scopes, objects and dictionaries                         *)
(* (src/src/runtime/internals/hashmap/hashmap.c): a few entries inline,    *)
(* then chains of nodes in a table that doubles.  A key is its hash.  A    *)
(* chain is the set of its nodes: nodes enter it at its head and growing   *)
(* keeps their order, so that it goes from the newest to the oldest.  What *)
(* a function does under the lock is one step; a listing also sorts what   *)
(* it has collected, after the unlock (Dictionary).                        *)
(***************************************************************************)
EXTENDS Naturals, Sequences, FiniteSets, FiniteSetsExt, Functions

CONSTANTS
  Keys, Vals,
  INLINE_HASHMAP_ARRAY_SIZE,
  InitialSize,  \* the first size of the table, a power of two
  MaxOrder      \* how many insertions are considered

ASSUME MapAssumption ==
  /\ Keys \subseteq Nat /\ "NULL" \notin Vals
  /\ INLINE_HASHMAP_ARRAY_SIZE \in Nat /\ InitialSize \in Nat \ {0}
  /\ MaxOrder \in Nat \ {0}

VARIABLES
  order,          \* the order of the next new entry
  inline_values, inline_count,
  size, list,     \* the table: the nodes of each position's chain
  hashmap_count,  \* how many nodes have been made since the map was cleared
  node            \* the memory of every node that was allocated

table == <<size, list, hashmap_count, node>>
slots == <<inline_values, inline_count>>
vars  == <<order, slots, table>>

Entry(k, v, o) == [hash |-> k, val |-> v, order |-> o]
Slots == 1 .. INLINE_HASHMAP_ARRAY_SIZE
Blank == [hash |-> 0, val |-> "NULL", order |-> 0]

\* A pointer to an entry: a slot of inline_values or a node.
Slot(i) == [in |-> "inline", n |-> i]
Node(n) == [in |-> "node", n |-> n]
Deref(p) == IF p.in = "inline" THEN inline_values[p.n] ELSE node[p.n]

Init ==
  /\ order = 1
  /\ inline_values = [i \in Slots |-> Blank] /\ inline_count = 0
  /\ size = 0 /\ list = [b \in {} |-> {}] /\ hashmap_count = 0 /\ node = <<>>

hashCode(k, s) == k % s

\* The slot, and the nodes of the chain, with this hash.
InSlots(k) == {i \in 1 .. inline_count : inline_values[i].hash = k}
InChain(k, l, s) ==
  IF s = 0 THEN {} ELSE {n \in l[hashCode(k, s)] : node[n].hash = k}

-------------------------------------------------------------------------------
(* Lookups *)

\* hashmap_lookup_GC: the inline entries first.
hashmap_lookup_GC(k) ==
  IF InSlots(k) # {} THEN inline_values[Min(InSlots(k))].val
  ELSE IF InChain(k, list, size) # {} THEN node[Max(InChain(k, list, size))].val
  ELSE "NULL"

\* Pointers to all entries, as collected under the lock.
Nodes == UNION {list[b] : b \in DOMAIN list}
Pointers == {Slot(i) : i \in 1 .. inline_count} \cup {Node(n) : n \in Nodes}

\* An array of pointers, sorted by the orders found behind them.
qsort(orders) ==
  CHOOSE s \in [1 .. Cardinality(DOMAIN orders) -> DOMAIN orders] :
    \A i, j \in DOMAIN s : i < j => orders[s[i]] < orders[s[j]]

ByOrder(S) == qsort([p \in S |-> Deref(p).order])

\* The listing, when nothing comes between collecting and sorting.
hashmap_GC_to_array == ByOrder(Pointers)

-------------------------------------------------------------------------------
(* Insertion *)

\* The table at twice its size: each chain is split by the bit that is new.
Split(n, s) == (node[n].hash \div s) % 2

\* Mutant: the chains are split by the bit above the new one.
Mut_resize_wrongBit(s, l) ==
  [b \in 0 .. (IF s = 0 THEN InitialSize ELSE 2 * s) - 1 |->
     IF s = 0 THEN {}
     ELSE {n \in l[b % s] : Split(n, 2 * s) = b \div s}]

resize(s, l) ==
  [b \in 0 .. (IF s = 0 THEN InitialSize ELSE 2 * s) - 1 |->
     IF s = 0 THEN {}
     ELSE {n \in l[b % s] : Split(n, s) = b \div s}]

\* The table to insert in: it grows when one more node would fill three quarters.
Full  == 4 * (hashmap_count + 1) > 3 * size
Size  == IF ~Full THEN size ELSE IF size = 0 THEN InitialSize ELSE 2 * size
Table == IF Full THEN resize(size, list) ELSE list

\* Mutant: the entry is written anew, with its order.
Mut_OverwriteSlot_newOrder(k, v) ==
  /\ InSlots(k) # {}
  /\ inline_values' = [inline_values EXCEPT ![Min(InSlots(k))] = Entry(k, v, order)]
  /\ UNCHANGED <<inline_count, table>>

OverwriteSlot(k, v) ==
  /\ InSlots(k) # {}
  /\ inline_values' = [inline_values EXCEPT ![Min(InSlots(k))].val = v]
  /\ UNCHANGED <<inline_count, table>>

UseSlot(k, v) ==
  /\ InSlots(k) = {}
  /\ size = 0 /\ inline_count < INLINE_HASHMAP_ARRAY_SIZE
  /\ inline_count' = inline_count + 1
  /\ inline_values' = [inline_values EXCEPT ![inline_count'] = Entry(k, v, order)]
  /\ UNCHANGED table

InTable(k) ==
  InSlots(k) = {} /\ (size # 0 \/ inline_count = INLINE_HASHMAP_ARRAY_SIZE)

OverwriteNode(k, v) ==
  /\ InTable(k)
  /\ InChain(k, Table, Size) # {}
  /\ size' = Size /\ list' = Table
  /\ node' = [node EXCEPT ![Max(InChain(k, Table, Size))].val = v]
  /\ UNCHANGED <<slots, hashmap_count>>

\* Mutant: growing copies the nodes and frees the old ones, as the map of the compiler does
\* (src/src/hashmap/hashmap.c).
Mut_NewNode_copies(k, v) ==
  LET c == IF Full THEN Len(node) ELSE 0
  IN /\ InTable(k)
     /\ InChain(k, Table, Size) = {}
     /\ node' = Append([n \in 1 .. c |-> Blank] \o node, Entry(k, v, order))
     /\ size' = Size
     /\ list' = [b \in DOMAIN Table |->
                   {n + c : n \in Table[b]}
                     \cup (IF b = hashCode(k, Size) THEN {Len(node')} ELSE {})]
     /\ hashmap_count' = hashmap_count + 1
     /\ UNCHANGED slots

NewNode(k, v) ==
  /\ InTable(k)
  /\ InChain(k, Table, Size) = {}
  /\ node' = Append(node, Entry(k, v, order))
  /\ size' = Size
  /\ list' = [Table EXCEPT ![hashCode(k, Size)] = @ \cup {Len(node')}]
  /\ hashmap_count' = hashmap_count + 1
  /\ UNCHANGED slots

\* Every insertion takes an order, used or not.
hashmap_insert_GC(k, v) ==
  /\ order < MaxOrder
  /\ order' = order + 1
  /\ OverwriteSlot(k, v) \/ UseSlot(k, v) \/ OverwriteNode(k, v) \/ NewNode(k, v)

-------------------------------------------------------------------------------
(* Removal *)

\* memmove closes the gap; the last slot keeps its old contents behind the count.

\* Mutant: the slot left behind is blanked.
Mut_RemoveSlot_blanks(k) ==
  /\ InSlots(k) # {}
  /\ inline_values' =
       [i \in Slots |-> IF i \in Min(InSlots(k)) .. inline_count - 1
                        THEN inline_values[i + 1]
                        ELSE IF i = inline_count THEN Blank ELSE inline_values[i]]
  /\ inline_count' = inline_count - 1
  /\ UNCHANGED table

RemoveSlot(k) ==
  /\ InSlots(k) # {}
  /\ inline_values' =
       [i \in Slots |-> IF i \in Min(InSlots(k)) .. inline_count - 1
                        THEN inline_values[i + 1] ELSE inline_values[i]]
  /\ inline_count' = inline_count - 1
  /\ UNCHANGED table

\* The node is unlinked; hashmap_count stays as it is.
RemoveNode(k) ==
  /\ InSlots(k) = {} /\ InChain(k, list, size) # {}
  /\ list' = [list EXCEPT ![hashCode(k, size)] = @ \ {Max(InChain(k, list, size))}]
  /\ UNCHANGED <<slots, size, hashmap_count, node>>

hashmap_remove_GC(k) ==
  /\ RemoveSlot(k) \/ RemoveNode(k)
  /\ UNCHANGED order

\* The table keeps its size, and new entries go there, no longer inline.  Only scopes are
\* cleared, and no pointer to an entry of a scope is kept: their memory is forgotten.
clear_hashmap_GC ==
  /\ order' = 1 /\ inline_count' = 0 /\ hashmap_count' = 0
  /\ list' = [b \in DOMAIN list |-> {}]
  /\ inline_values' = [i \in Slots |-> Blank] /\ node' = <<>>
  /\ UNCHANGED size

Next ==
  \/ \E k \in Keys, v \in Vals : hashmap_insert_GC(k, v)
  \/ \E k \in Keys : hashmap_remove_GC(k)
  \/ clear_hashmap_GC

Spec == Init /\ [][Next]_vars

-------------------------------------------------------------------------------
(* Properties *)

\* The type of every variable; hashmap_count, which no removal lowers, is at least the
\* number of nodes the table has.
TypeOK ==
  LET entry == [hash : Keys \cup {0}, val : Vals \cup {"NULL"}, order : 0 .. MaxOrder]
  IN /\ order \in 1 .. MaxOrder
     /\ inline_values \in [Slots -> entry] /\ inline_count \in {0} \cup Slots
     /\ size \in Nat /\ list \in [0 .. size - 1 -> SUBSET (1 .. Len(node))]
     /\ node \in Seq(entry)
     /\ hashmap_count \in Cardinality(Nodes) .. MaxOrder

\* Whatever was inserted, removed and resized before: an entry that a listing of the map
\* shows is the one that a lookup of its key finds, so that no key is there twice and no
\* node hangs in a chain where hashCode does not look for it.
ListedIsFound ==
  /\ \A p \in Pointers : hashmap_lookup_GC(Deref(p).hash) = Deref(p).val
  /\ \A p, q \in Pointers : Deref(p).hash = Deref(q).hash => p = q

\* The entries by their order are what a user takes a map for: a value for each key, the
\* keys in the order of their first insertion, whether they are inline or in the table.
Present == {k \in Keys : hashmap_lookup_GC(k) # "NULL"}
Map     == [k \in Present |-> hashmap_lookup_GC(k)]
Before  == {<<Deref(e[1]).hash, Deref(e[2]).hash>> :
              e \in {f \in Pointers \X Pointers : Deref(f[1]).order < Deref(f[2]).order}}
OM == INSTANCE OrderedMap WITH map <- Map, before <- Before
Refines == OM!Spec
=============================================================================
