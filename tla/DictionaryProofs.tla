--------------------------- MODULE DictionaryProofs ---------------------------
(***************************************************************************)
(* Proofs about HashmapGC and Dictionary, for any keys and values, any     *)
(* number of inline slots, any first size of the table and any number of   *)
(* insertions: what is listed is found, the map is an insertion-ordered    *)
(* map, and what a loop over a dictionary yields while it changes.         *)
(***************************************************************************)
EXTENDS Dictionary, FiniteSetTheorems, FunctionTheorems, SequenceTheorems, TLAPS

-------------------------------------------------------------------------------
(* Operators *)

\* The one element of a set is its least and its greatest (the searches of the slots and of a
\* chain stop at the only entry with the hash).
LEMMA OneElement ==
  ASSUME NEW n \in Nat
  PROVE  Min({n}) = n /\ Max({n}) = n
  BY DEF Min, Max

\* A quotient and a remainder are determined by the number they make.
LEMMA DivUnique ==
  ASSUME NEW a \in Nat, NEW d \in Nat \ {0}, NEW q \in Nat, NEW r \in 0 .. d - 1, a = d * q + r
  PROVE  a % d = r /\ a \div d = q
  <1> DEFINE e == a \div d
             t == a % d
  <1>1. e \in Int /\ t \in 0 .. d - 1 /\ a = d * e + t
    OBVIOUS
  <1>2. e = q
    <2>1. ASSUME e >= q + 1 PROVE FALSE
      <3>1. d * e >= d * (q + 1)
        BY <1>1, <2>1
      <3>2. d * (q + 1) = d * q + d
        OBVIOUS
      <3> QED BY <3>1, <3>2, <1>1
    <2>2. ASSUME e + 1 <= q PROVE FALSE
      <3>1. d * q >= d * (e + 1)
        BY <1>1, <2>2
      <3>2. d * (e + 1) = d * e + d
        BY <1>1
      <3> QED BY <3>1, <3>2, <1>1
    <2> QED BY <2>1, <2>2, <1>1
  <1> QED BY <1>1, <1>2

\* hashCode in a table of twice the size is hashCode in the old one, with the bit that
\* resize_hashmap_GC_nolock splits the chains by on top.
LEMMA NewBit ==
  ASSUME NEW k \in Nat, NEW s \in Nat \ {0}
  PROVE  /\ k % s \in 0 .. s - 1 /\ (k \div s) % 2 \in {0, 1}
         /\ k % (2 * s) = (k % s) + s * ((k \div s) % 2)
  <1> DEFINE q == k \div s
             r == k % s
             p == q \div 2
             t == q % 2
             d == 2 * s
  <1>1. q \in Nat /\ r \in 0 .. s - 1 /\ k = s * q + r
    OBVIOUS
  <1>2. p \in Nat /\ t \in {0, 1} /\ q = 2 * p + t
    BY <1>1
  <1> HIDE DEF q, r, p, t
  <1>3. k = d * p + (s * t + r)
    <2>1. s * q = s * (2 * p) + s * t
      BY <1>1, <1>2
    <2>2. s * (2 * p) = (2 * s) * p
      BY <1>2
    <2> QED BY <2>1, <2>2, <1>1, <1>2
  <1>4. s * t + r \in 0 .. d - 1
    <2>1. CASE t = 0
      BY <2>1, <1>1
    <2>2. CASE t = 1
      BY <2>2, <1>1
    <2> QED BY <2>1, <2>2, <1>2
  <1>5. d \in Nat \ {0}
    OBVIOUS
  <1>6. k % d = s * t + r
    <2> HIDE DEF d
    <2> QED BY <1>2, <1>3, <1>4, <1>5, DivUnique
  <1> QED BY <1>1, <1>2, <1>4, <1>6 DEF q, r, t, p

\* A position of the table of twice the size is a position of the old one and a bit.
LEMMA OldPosition ==
  ASSUME NEW s \in Nat \ {0}
  PROVE  /\ \A b \in 0 .. 2 * s - 1 :
              b % s \in 0 .. s - 1 /\ b \div s \in {0, 1} /\ b = (b % s) + s * (b \div s)
         /\ \A c \in 0 .. s - 1, t \in {0, 1} :
              /\ c + s * t \in 0 .. 2 * s - 1
              /\ (c + s * t) % s = c /\ (c + s * t) \div s = t
  <1>1. ASSUME NEW c \in 0 .. s - 1, NEW t \in {0, 1}
        PROVE  /\ c + s * t \in 0 .. 2 * s - 1
               /\ (c + s * t) % s = c /\ (c + s * t) \div s = t
    <2>1. c + s * t \in 0 .. 2 * s - 1
      <3>1. CASE t = 0
        BY <3>1
      <3>2. CASE t = 1
        BY <3>2
      <3> QED BY <3>1, <3>2
    <2>2. c + s * t = s * t + c /\ s * t \in Nat
      OBVIOUS
    <2> QED BY <2>1, <2>2, DivUnique
  <1>2. ASSUME NEW b \in 0 .. 2 * s - 1
        PROVE  b % s \in 0 .. s - 1 /\ b \div s \in {0, 1} /\ b = (b % s) + s * (b \div s)
    <2>1. CASE b < s
      <3>1. b = s * 0 + b
        OBVIOUS
      <3>2. b % s = b /\ b \div s = 0
        BY <3>1, <2>1, DivUnique
      <3> QED BY <3>2, <2>1
    <2>2. CASE b >= s
      <3>1. b = s * 1 + (b - s) /\ b - s \in 0 .. s - 1
        BY <2>2
      <3>2. b % s = b - s /\ b \div s = 1
        BY <3>1, DivUnique
      <3> QED BY <3>2, <2>2
    <2> QED BY <2>1, <2>2
  <1> QED BY <1>1, <1>2

-------------------------------------------------------------------------------
(* The invariant *)

\* Whatever a slot or a node may hold.
Cells == [hash : Keys \cup {0}, val : Vals \cup {"NULL"}, order : 0 .. MaxOrder]

\* The types.
Typed ==
  /\ order \in 1 .. MaxOrder
  /\ inline_values \in [Slots -> Cells] /\ inline_count \in 0 .. INLINE_HASHMAP_ARRAY_SIZE
  /\ size \in Nat
  /\ node \in Seq(Cells)
  /\ hashmap_count \in Nat

\* A table l of s positions: its chains hold nodes, each in the chain where hashCode looks for
\* it.
Hung(l, s) ==
  /\ l \in [0 .. s - 1 -> SUBSET (1 .. Len(node))]
  /\ \A b \in 0 .. s - 1 : \A n \in l[b] : hashCode(node[n].hash, s) = b

\* Every insertion that makes a node takes an order; the nodes of the table are some of those.
Counted ==
  /\ hashmap_count < order
  /\ Cardinality(Nodes) <= hashmap_count

\* What the entries must be for a lookup to find each: there, with a hash and an order of
\* their own.
EntriesOK ==
  /\ \A p \in Pointers : Deref(p) \in [hash : Keys, val : Vals, order : 1 .. order - 1]
  /\ \A p, q \in Pointers : Deref(p).hash = Deref(q).hash => p = q
  /\ \A p, q \in Pointers : Deref(p).order = Deref(q).order => p = q

\* The inductive invariant.
IInv == Typed /\ Hung(list, size) /\ EntriesOK /\ Counted

-------------------------------------------------------------------------------
(* The entries and the pointers to them *)

\* A pointer leads to a slot below inline_count or to a node of a chain.
LEMMA PointerCases ==
  /\ \A p \in Pointers : (\E i \in 1 .. inline_count : p = Slot(i)) \/ (\E n \in Nodes : p = Node(n))
  /\ \A i \in Int : Slot(i) \in Pointers <=> i \in 1 .. inline_count
  /\ \A n : Node(n) \in Pointers <=> n \in Nodes
  /\ \A i : Deref(Slot(i)) = inline_values[i]
  /\ \A n : Deref(Node(n)) = node[n]
  /\ \A i, j : Slot(i) = Slot(j) => i = j
  /\ \A i, j : Node(i) = Node(j) => i = j
  /\ \A i, n : Slot(i) # Node(n)
  BY DEF Pointers, Slot, Node, Deref

\* The nodes of the table are nodes that were made.
LEMMA NodesMade ==
  ASSUME Typed, Hung(list, size)
  PROVE  Nodes \subseteq 1 .. Len(node)
  BY DEF Typed, Hung, Nodes

\* resize_hashmap_GC_nolock: the table that an insertion works on has a position, the nodes
\* that the table had and each of them where hashCode looks for it in the new size.
LEMMA TableIsHung ==
  ASSUME MapAssumption, Typed, Hung(list, size), EntriesOK
  PROVE  /\ Size \in Nat \ {0} /\ Hung(Table, Size)
         /\ UNION {Table[b] : b \in DOMAIN Table} = Nodes
  <1>1. CASE ~Full
    <2>1. Size = size /\ Table = list
      BY <1>1 DEF Size, Table
    <2>2. size # 0
      BY <1>1 DEF Full, Typed
    <2> QED BY <2>1, <2>2 DEF Typed, Nodes
  <1>2. CASE Full /\ size = 0
    <2>1. Size = InitialSize /\ Table = [b \in 0 .. InitialSize - 1 |-> {}]
      BY <1>2 DEF Size, Table, resize
    <2>2. Nodes = {}
      BY <1>2 DEF Nodes, Hung
    <2> QED BY <2>1, <2>2 DEF Hung, MapAssumption
  <1>3. CASE Full /\ size # 0
    <2> DEFINE s == size
    <2>1. s \in Nat \ {0} /\ Size = 2 * s
      BY <1>3 DEF Size, Typed
    <2>2. Table = [b \in 0 .. 2 * s - 1 |-> {n \in list[b % s] : Split(n, s) = b \div s}]
      BY <1>3 DEF Table, resize
    <2>3. \A n \in Nodes : n \in 1 .. Len(node) /\ node[n].hash \in Nat
      BY NodesMade, PointerCases DEF EntriesOK, MapAssumption
    <2>4. \A c \in 0 .. s - 1 : \A n \in list[c] : n \in Nodes /\ node[n].hash % s = c
      BY DEF Hung, Nodes, hashCode
    <2> HIDE DEF s
    <2>5. ASSUME NEW b \in 0 .. 2 * s - 1, NEW n \in Table[b]
          PROVE  n \in Nodes /\ hashCode(node[n].hash, 2 * s) = b
      <3> DEFINE h == node[n].hash
      <3>1. n \in list[b % s] /\ (h \div s) % 2 = b \div s
        BY <2>2 DEF Split
      <3>2. b % s \in 0 .. s - 1 /\ b = (b % s) + s * (b \div s)
        BY <2>1, OldPosition
      <3>3. n \in Nodes /\ h \in Nat /\ h % s = b % s
        BY <3>1, <3>2, <2>3, <2>4
      <3>4. h % (2 * s) = (h % s) + s * ((h \div s) % 2)
        BY <3>3, <2>1, NewBit
      <3> QED BY <3>1, <3>2, <3>3, <3>4 DEF hashCode
    <2>6. ASSUME NEW n \in Nodes
          PROVE  \E b \in 0 .. 2 * s - 1 : n \in Table[b]
      <3> DEFINE h == node[n].hash
                 t == (h \div s) % 2
      <3>1. PICK c \in 0 .. s - 1 : n \in list[c]
        BY DEF Nodes, Hung, s
      <3>2. h \in Nat /\ h % s = c
        BY <3>1, <2>3, <2>4
      <3>3. t \in {0, 1}
        BY <3>2, <2>1, NewBit
      <3> DEFINE b == c + s * t
      <3>4. b \in 0 .. 2 * s - 1 /\ b % s = c /\ b \div s = t
        <4> HIDE DEF t
        <4> QED BY <3>3, <2>1, OldPosition
      <3>5. Split(n, s) = t
        BY DEF Split
      <3> QED BY <3>1, <3>4, <3>5, <2>2
    <2>7. DOMAIN Table = 0 .. 2 * s - 1
      BY <2>2
    <2>8. UNION {Table[b] : b \in DOMAIN Table} = Nodes
      BY <2>5, <2>6, <2>7
    <2>9. Table \in [0 .. 2 * s - 1 -> SUBSET (1 .. Len(node))]
      <3>1. \A b \in 0 .. 2 * s - 1 : Table[b] \subseteq 1 .. Len(node)
        BY <2>3, <2>5
      <3> QED BY <3>1, <2>2
    <2> QED BY <2>1, <2>5, <2>8, <2>9 DEF Hung
  <1> QED BY <1>1, <1>2, <1>3

\* The search of a chain finds the nodes of the table with this hash.
LEMMA ChainFinds ==
  ASSUME NEW l, NEW s \in Nat, Hung(l, s), UNION {l[b] : b \in DOMAIN l} = Nodes,
         NEW k \in Nat
  PROVE  InChain(k, l, s) = {n \in Nodes : node[n].hash = k}
  <1>1. DOMAIN l = 0 .. s - 1
    BY DEF Hung
  <1>2. CASE s = 0
    BY <1>1, <1>2 DEF InChain
  <1>3. CASE s # 0
    <2>1. k % s \in 0 .. s - 1
      BY <1>3, NewBit
    <2>2. ASSUME NEW n \in Nodes, node[n].hash = k PROVE n \in l[k % s]
      <3>1. PICK b \in 0 .. s - 1 : n \in l[b]
        BY <1>1
      <3>2. k % s = b
        BY <3>1, <2>2 DEF Hung, hashCode
      <3> QED BY <3>1, <3>2
    <2> QED BY <1>1, <1>3, <2>1, <2>2 DEF InChain, hashCode
  <1> QED BY <1>2, <1>3

\* The searches of hashmap_insert_GC, hashmap_remove_GC and hashmap_lookup_GC find the entry
\* with this hash, and none when there is none.
LEMMA Finds ==
  ASSUME MapAssumption, IInv, NEW k \in Keys
  PROVE  /\ InSlots(k) = {i \in 1 .. inline_count : Slot(i) \in Pointers /\ Deref(Slot(i)).hash = k}
         /\ InChain(k, list, size) = {n \in Nodes : Deref(Node(n)).hash = k}
         /\ InChain(k, Table, Size) = {n \in Nodes : Deref(Node(n)).hash = k}
         /\ \A i \in InSlots(k) : InSlots(k) = {i} /\ Min(InSlots(k)) = i
         /\ \A n \in Nodes : Deref(Node(n)).hash = k =>
              /\ InSlots(k) = {}
              /\ InChain(k, list, size) = {n} /\ Max(InChain(k, list, size)) = n
              /\ InChain(k, Table, Size) = {n} /\ Max(InChain(k, Table, Size)) = n
  <1>1. k \in Nat /\ size \in Nat /\ inline_count \in Nat
    BY DEF MapAssumption, IInv, Typed
  <1>2. InSlots(k) = {i \in 1 .. inline_count : Slot(i) \in Pointers /\ Deref(Slot(i)).hash = k}
    BY PointerCases DEF InSlots
  <1>3. InChain(k, list, size) = {n \in Nodes : Deref(Node(n)).hash = k}
    BY <1>1, ChainFinds, PointerCases DEF IInv, Nodes
  <1>4. InChain(k, Table, Size) = {n \in Nodes : Deref(Node(n)).hash = k}
    BY <1>1, ChainFinds, TableIsHung, PointerCases DEF IInv
  <1>5. ASSUME NEW i \in InSlots(k) PROVE InSlots(k) = {i} /\ Min(InSlots(k)) = i
    <2>1. InSlots(k) = {i}
      BY <1>2, PointerCases DEF IInv, EntriesOK
    <2>2. i \in Nat
      BY <1>2
    <2> QED BY <2>1, <2>2, OneElement
  <1>6. ASSUME NEW n \in Nodes, Deref(Node(n)).hash = k
        PROVE  InSlots(k) = {} /\ n \in Nat /\ {m \in Nodes : Deref(Node(m)).hash = k} = {n}
    <2>1. n \in Nat
      BY NodesMade DEF IInv, Typed
    <2>2. \A p \in Pointers : Deref(p).hash = k => p = Node(n)
      BY <1>6, PointerCases DEF IInv, EntriesOK
    <2>3. InSlots(k) = {}
      BY <2>2, <1>2, PointerCases
    <2>4. \A m \in Nodes : Deref(Node(m)).hash = k => m = n
      BY <2>2, PointerCases
    <2> QED BY <2>1, <2>3, <2>4, <1>6
  <1>7. \A n \in Nodes : Deref(Node(n)).hash = k =>
              /\ InSlots(k) = {}
              /\ InChain(k, list, size) = {n} /\ Max(InChain(k, list, size)) = n
              /\ InChain(k, Table, Size) = {n} /\ Max(InChain(k, Table, Size)) = n
    BY <1>3, <1>4, <1>6, OneElement
  <1> QED BY <1>2, <1>3, <1>4, <1>5, <1>7

\* hashmap_lookup_GC: the value of the entry with this hash, and NULL when there is none.
LEMMA Lookup ==
  ASSUME MapAssumption, IInv, NEW k \in Keys
  PROVE  /\ \A p \in Pointers : Deref(p).hash = k => hashmap_lookup_GC(k) = Deref(p).val
         /\ (\A p \in Pointers : Deref(p).hash # k) => hashmap_lookup_GC(k) = "NULL"
  <1>1. ASSUME NEW p \in Pointers, Deref(p).hash = k
        PROVE  hashmap_lookup_GC(k) = Deref(p).val
    <2>1. CASE \E i \in 1 .. inline_count : p = Slot(i)
      <3>1. PICK i \in 1 .. inline_count : p = Slot(i)
        BY <2>1
      <3>2. i \in InSlots(k)
        BY <1>1, <3>1, Finds, PointerCases
      <3>3. InSlots(k) # {} /\ Min(InSlots(k)) = i
        BY <3>2, Finds
      <3> QED BY <3>1, <3>3, PointerCases DEF hashmap_lookup_GC
    <2>2. CASE \E n \in Nodes : p = Node(n)
      <3>1. PICK n \in Nodes : p = Node(n)
        BY <2>2
      <3>2. InSlots(k) = {} /\ InChain(k, list, size) # {} /\ Max(InChain(k, list, size)) = n
        BY <1>1, <3>1, Finds
      <3> QED BY <3>1, <3>2, PointerCases DEF hashmap_lookup_GC
    <2> QED BY <2>1, <2>2, PointerCases
  <1>2. ASSUME \A p \in Pointers : Deref(p).hash # k
        PROVE  hashmap_lookup_GC(k) = "NULL"
    <2>1. InSlots(k) = {} /\ InChain(k, list, size) = {}
      BY <1>2, Finds, PointerCases
    <2> QED BY <2>1 DEF hashmap_lookup_GC
  <1> QED BY <1>1, <1>2

-------------------------------------------------------------------------------
(* What an operation does to the entries *)

\* The entry with hash k gets the value v.
Overwrites(k, v) ==
  \E m \in Pointers :
    /\ Deref(m).hash = k /\ Pointers' = Pointers
    /\ \A p \in Pointers :
         Deref(p)' = IF p = m THEN [Deref(p) EXCEPT !.val = v] ELSE Deref(p)

\* There was no entry with hash k, and there is one: it is the youngest.
Adds(k, v) ==
  \E m :
    /\ m \notin Pointers /\ Pointers' = Pointers \cup {m}
    /\ \A p \in Pointers : Deref(p).hash # k /\ Deref(p)' = Deref(p)
    /\ Deref(m)' = Entry(k, v, order)

\* The entry with hash k is gone; the others are what they were, some of them elsewhere.
Removes(k) ==
  \E m \in Pointers : \E f \in [Pointers' -> Pointers \ {m}] :
    /\ Deref(m).hash = k
    /\ \A p \in Pointers' : Deref(p)' = Deref(f[p])
    /\ \A p, q \in Pointers' : f[p] = f[q] => p = q
    /\ \A p \in Pointers \ {m} : \E q \in Pointers' : f[q] = p

\* hashmap_insert_GC on a key that an inline slot has.
LEMMA OverwriteSlotStep ==
  ASSUME MapAssumption, IInv, NEW k \in Keys, NEW v \in Vals, OverwriteSlot(k, v)
  PROVE  /\ Overwrites(k, v)
         /\ inline_values' \in [Slots -> Cells]
         /\ UNCHANGED <<inline_count, table>>
  <1>1. PICK i \in InSlots(k) : TRUE
    BY DEF OverwriteSlot
  <1>2. Min(InSlots(k)) = i /\ i \in 1 .. inline_count /\ Deref(Slot(i)).hash = k
    BY <1>1, Finds
  <1>3. /\ inline_values' = [inline_values EXCEPT ![i].val = v]
        /\ inline_count' = inline_count /\ UNCHANGED table
    BY <1>2 DEF OverwriteSlot
  <1>4. inline_values \in [Slots -> Cells] /\ i \in Slots
    BY <1>2 DEF IInv, Typed, Slots
  <1>5. inline_values[i] \in Cells /\ [inline_values[i] EXCEPT !.val = v] \in Cells
    BY <1>4 DEF Cells
  <1>6. inline_values' \in [Slots -> Cells]
    BY <1>3, <1>4, <1>5
  <1>7. Pointers' = Pointers
    BY <1>3 DEF Pointers, Nodes, table
  <1>8. ASSUME NEW p \in Pointers
        PROVE  Deref(p)' = IF p = Slot(i) THEN [Deref(p) EXCEPT !.val = v] ELSE Deref(p)
    <2>1. CASE \E j \in 1 .. inline_count : p = Slot(j)
      <3>1. PICK j \in 1 .. inline_count : p = Slot(j)
        BY <2>1
      <3>2. j \in Slots
        BY DEF IInv, Typed, Slots
      <3>3. Deref(p)' = inline_values'[j] /\ Deref(p) = inline_values[j]
        BY <3>1 DEF Deref, Slot
      <3>4. p = Slot(i) <=> j = i
        BY <3>1, PointerCases
      <3> QED BY <3>2, <3>3, <3>4, <1>3, <1>4
    <2>2. CASE \E n \in Nodes : p = Node(n)
      BY <2>2, <1>3, PointerCases DEF Deref, Node, table
    <2> QED BY <2>1, <2>2, PointerCases
  <1>9. Slot(i) \in Pointers
    BY <1>2, PointerCases
  <1> QED BY <1>2, <1>3, <1>6, <1>7, <1>8, <1>9 DEF Overwrites

\* hashmap_insert_GC into the next inline slot.
LEMMA UseSlotStep ==
  ASSUME MapAssumption, IInv, NEW k \in Keys, NEW v \in Vals, order < MaxOrder, UseSlot(k, v)
  PROVE  /\ Adds(k, v)
         /\ inline_values' \in [Slots -> Cells]
         /\ inline_count' \in 0 .. INLINE_HASHMAP_ARRAY_SIZE
         /\ UNCHANGED table
  <1>0. PICK c \in Nat : c = inline_count + 1
    BY DEF IInv, Typed
  <1>1. /\ inline_count' = c /\ UNCHANGED table
        /\ inline_values' = [inline_values EXCEPT ![c] = Entry(k, v, order)]
        /\ InSlots(k) = {} /\ size = 0
    BY <1>0 DEF UseSlot
  <1>2. c \in Slots /\ inline_values \in [Slots -> Cells] /\ inline_count \in Nat
    BY <1>0 DEF UseSlot, IInv, Typed, Slots, MapAssumption
  <1>3. Entry(k, v, order) \in Cells
    BY DEF Entry, Cells, IInv, Typed, MapAssumption
  <1>4. inline_values' \in [Slots -> Cells]
    BY <1>1, <1>2, <1>3
  <1>5. Nodes = {}
    BY <1>1 DEF IInv, Hung, Nodes
  <1>6. \A p \in Pointers : \E i \in 1 .. inline_count : p = Slot(i)
    BY <1>5, PointerCases
  <1>7. Slot(c) \notin Pointers
    BY <1>0, <1>2, PointerCases
  <1>8. Pointers' = Pointers \cup {Slot(c)}
    <2>1. Nodes' = Nodes
      BY <1>1 DEF Nodes, table
    <2>2. 1 .. inline_count' = (1 .. inline_count) \cup {c}
      BY <1>0, <1>1, <1>2
    <2> QED BY <2>1, <2>2 DEF Pointers
  <1>9. ASSUME NEW p \in Pointers PROVE Deref(p).hash # k /\ Deref(p)' = Deref(p)
    <2>1. PICK i \in 1 .. inline_count : p = Slot(i)
      BY <1>6
    <2>2. Deref(p).hash # k
      BY <2>1, <1>1, Finds
    <2>3. i \in Slots /\ i # c
      BY <1>0, <1>2 DEF IInv, Typed, Slots
    <2>4. Deref(p)' = inline_values'[i] /\ Deref(p) = inline_values[i]
      BY <2>1 DEF Deref, Slot
    <2> QED BY <2>2, <2>3, <2>4, <1>1, <1>2
  <1>10. Deref(Slot(c))' = Entry(k, v, order)
    <2>1. Deref(Slot(c))' = inline_values'[c]
      BY DEF Deref, Slot
    <2> QED BY <2>1, <1>1, <1>2
  <1>11. inline_count' \in 0 .. INLINE_HASHMAP_ARRAY_SIZE
    BY <1>0, <1>1, <1>2 DEF Slots
  <1> QED BY <1>1, <1>4, <1>7, <1>8, <1>9, <1>10, <1>11 DEF Adds

\* hashmap_insert_GC on a key that a node has, in a table that may have grown.
LEMMA OverwriteNodeStep ==
  ASSUME MapAssumption, IInv, NEW k \in Keys, NEW v \in Vals, OverwriteNode(k, v)
  PROVE  /\ Overwrites(k, v)
         /\ size' \in Nat /\ Hung(list, size)' /\ node' \in Seq(Cells) /\ Nodes' = Nodes
         /\ UNCHANGED <<slots, hashmap_count>>
  <1>1. PICK n \in Nodes : Deref(Node(n)).hash = k
    BY Finds DEF OverwriteNode
  <1>2. /\ size' = Size /\ list' = Table
        /\ node' = [node EXCEPT ![n].val = v]
        /\ UNCHANGED <<slots, hashmap_count>>
    BY <1>1, Finds DEF OverwriteNode
  <1>3. node \in Seq(Cells) /\ n \in 1 .. Len(node)
    BY NodesMade DEF IInv, Typed
  <1>4. node[n] \in Cells /\ [node[n] EXCEPT !.val = v] \in Cells
    <2>1. node[n] \in Cells
      BY <1>3, ElementOfSeq
    <2> QED BY <2>1 DEF Cells
  <1>5. /\ node' \in Seq(Cells) /\ Len(node') = Len(node)
        /\ \A m \in 1 .. Len(node) :
             node'[m] = IF m = n THEN [node[m] EXCEPT !.val = v] ELSE node[m]
    BY <1>2, <1>3, <1>4
  <1>6. /\ Size \in Nat \ {0} /\ Hung(Table, Size)
        /\ UNION {Table[b] : b \in DOMAIN Table} = Nodes
    BY TableIsHung DEF IInv
  <1>7. Nodes' = Nodes
    BY <1>2, <1>6 DEF Nodes
  <1>8. \A m \in 1 .. Len(node) : node'[m].hash = node[m].hash
    <2>1. \A m \in 1 .. Len(node) : node[m] \in Cells
      BY <1>3
    <2> QED BY <2>1, <1>5 DEF Cells
  <1>9. Hung(list, size)'
    <2>1. \A b \in 0 .. Size - 1 : \A m \in Table[b] :
            m \in 1 .. Len(node) /\ hashCode(node[m].hash, Size) = b
      BY <1>6 DEF Hung
    <2>2. \A b \in 0 .. Size - 1 : \A m \in Table[b] : hashCode(node'[m].hash, Size) = b
      BY <2>1, <1>8
    <2> QED BY <2>2, <1>2, <1>5, <1>6 DEF Hung, hashCode
  <1>10. Pointers' = Pointers
    BY <1>2, <1>7 DEF Pointers, slots
  <1>11. ASSUME NEW p \in Pointers
         PROVE  Deref(p)' = IF p = Node(n) THEN [Deref(p) EXCEPT !.val = v] ELSE Deref(p)
    <2>1. CASE \E i \in 1 .. inline_count : p = Slot(i)
      BY <2>1, <1>2, PointerCases DEF Deref, Slot, slots
    <2>2. CASE \E m \in Nodes : p = Node(m)
      <3>1. PICK m \in Nodes : p = Node(m)
        BY <2>2
      <3>2. m \in 1 .. Len(node)
        BY NodesMade DEF IInv
      <3>3. Deref(p)' = node'[m] /\ Deref(p) = node[m]
        BY <3>1 DEF Deref, Node
      <3>4. p = Node(n) <=> m = n
        BY <3>1, PointerCases
      <3> QED BY <3>2, <3>3, <3>4, <1>5
    <2> QED BY <2>1, <2>2, PointerCases
  <1>12. Node(n) \in Pointers
    BY PointerCases
  <1> QED BY <1>1, <1>2, <1>5, <1>6, <1>7, <1>9, <1>10, <1>11, <1>12 DEF Overwrites

\* hashmap_insert_GC into a new node, in a table that may have grown.
LEMMA NewNodeStep ==
  ASSUME MapAssumption, IInv, NEW k \in Keys, NEW v \in Vals, order < MaxOrder, NewNode(k, v)
  PROVE  /\ Adds(k, v)
         /\ size' \in Nat /\ Hung(list, size)' /\ node' \in Seq(Cells)
         /\ \E m : Nodes' = Nodes \cup {m}
         /\ hashmap_count' = hashmap_count + 1 /\ UNCHANGED slots
  <1>0. PICK m \in Nat : m = Len(node) + 1
    BY DEF IInv, Typed
  <1>1. node \in Seq(Cells) /\ Entry(k, v, order) \in Cells
    BY DEF Entry, Cells, IInv, Typed, MapAssumption
  <1>2. /\ node' \in Seq(Cells) /\ Len(node') = m /\ node'[m] = Entry(k, v, order)
        /\ \A n \in 1 .. Len(node) : node'[n] = node[n]
    BY <1>0, <1>1, AppendProperties DEF NewNode
  <1> DEFINE pos == hashCode(k, Size)
  <1>3. /\ size' = Size /\ list' = [Table EXCEPT ![pos] = @ \cup {m}]
        /\ hashmap_count' = hashmap_count + 1 /\ UNCHANGED slots
        /\ InSlots(k) = {} /\ InChain(k, Table, Size) = {}
    BY <1>2 DEF NewNode, InTable
  <1>4. /\ Size \in Nat \ {0} /\ Hung(Table, Size)
        /\ UNION {Table[b] : b \in DOMAIN Table} = Nodes
    BY TableIsHung DEF IInv
  <1>5. pos \in 0 .. Size - 1 /\ DOMAIN Table = 0 .. Size - 1
    <2>1. k \in Nat
      BY DEF MapAssumption
    <2> QED BY <2>1, <1>4, NewBit DEF hashCode, Hung
  <1>6. /\ DOMAIN list' = 0 .. Size - 1
        /\ \A b \in 0 .. Size - 1 :
             list'[b] = IF b = pos THEN Table[b] \cup {m} ELSE Table[b]
    BY <1>3, <1>5
  <1>7. Nodes' = Nodes \cup {m}
    <2>1. \A n : n \in Nodes' <=> \E b \in 0 .. Size - 1 : n \in list'[b]
      BY <1>6 DEF Nodes
    <2>2. \A n : n \in Nodes <=> \E b \in 0 .. Size - 1 : n \in Table[b]
      BY <1>4, <1>5
    <2>3. \A n : n \in Nodes' <=> n \in Nodes \cup {m}
      <3> HIDE DEF pos
      <3> QED BY <2>1, <2>2, <1>5, <1>6
    <2> QED BY <2>3
  <1>8. Hung(list, size)'
    <2>1. \A b \in 0 .. Size - 1 : \A n \in Table[b] :
            n \in 1 .. Len(node) /\ hashCode(node[n].hash, Size) = b
      BY <1>4 DEF Hung
    <2>2. hashCode(node'[m].hash, Size) = pos
      BY <1>2 DEF Entry
    <2>3. Len(node) \in Nat
      BY <1>1
    <2>4. \A b \in 0 .. Size - 1 : \A n \in list'[b] :
            n \in 1 .. Len(node') /\ hashCode(node'[n].hash, Size) = b
      <3> HIDE DEF pos
      <3> QED BY <2>1, <2>2, <2>3, <1>0, <1>2, <1>6
    <2>5. list' \in [0 .. Size - 1 -> SUBSET (1 .. Len(node'))]
      <3>1. \A b \in 0 .. Size - 1 : list'[b] \in SUBSET (1 .. Len(node'))
        BY <2>4
      <3>2. list' = [b \in 0 .. Size - 1 |-> list'[b]]
        BY <1>3, <1>5
      <3> QED BY <3>1, <3>2
    <2> QED BY <2>4, <2>5, <1>3 DEF Hung
  <1>9. Pointers' = Pointers \cup {Node(m)}
    BY <1>3, <1>7 DEF Pointers, slots
  <1>10. Node(m) \notin Pointers
    <2>1. m \notin Nodes
      BY <1>0, NodesMade DEF IInv, Typed
    <2> QED BY <2>1, PointerCases
  <1>11. ASSUME NEW p \in Pointers PROVE Deref(p).hash # k /\ Deref(p)' = Deref(p)
    <2>1. CASE \E i \in 1 .. inline_count : p = Slot(i)
      <3>1. PICK i \in 1 .. inline_count : p = Slot(i)
        BY <2>1
      <3>2. Deref(p).hash # k
        BY <3>1, <1>3, Finds
      <3>3. Deref(p)' = inline_values'[i] /\ Deref(p) = inline_values[i]
        BY <3>1 DEF Deref, Slot
      <3> QED BY <3>2, <3>3, <1>3 DEF slots
    <2>2. CASE \E n \in Nodes : p = Node(n)
      <3>1. PICK n \in Nodes : p = Node(n)
        BY <2>2
      <3>2. Deref(p).hash # k
        BY <3>1, <1>3, Finds
      <3>3. n \in 1 .. Len(node)
        BY NodesMade DEF IInv
      <3>4. Deref(p)' = node'[n] /\ Deref(p) = node[n]
        BY <3>1 DEF Deref, Node
      <3> QED BY <3>2, <3>3, <3>4, <1>2
    <2> QED BY <2>1, <2>2, PointerCases
  <1>12. Deref(Node(m))' = Entry(k, v, order)
    BY <1>2 DEF Deref, Node
  <1>13. Adds(k, v)
    BY <1>9, <1>10, <1>11, <1>12 DEF Adds
  <1> QED BY <1>2, <1>3, <1>4, <1>7, <1>8, <1>13

\* hashmap_remove_GC on a key that an inline slot has: the slots above it move down.
LEMMA RemoveSlotStep ==
  ASSUME MapAssumption, IInv, NEW k \in Keys, RemoveSlot(k)
  PROVE  /\ Removes(k)
         /\ inline_values' \in [Slots -> Cells]
         /\ inline_count' \in 0 .. INLINE_HASHMAP_ARRAY_SIZE
         /\ UNCHANGED table
  <1>0. PICK c \in Nat : c = inline_count
    BY DEF IInv, Typed
  <1>1. PICK i \in InSlots(k) : TRUE
    BY DEF RemoveSlot
  <1>2. Min(InSlots(k)) = i /\ i \in 1 .. c /\ Deref(Slot(i)).hash = k
    BY <1>0, <1>1, Finds
  <1>3. /\ inline_values' = [j \in Slots |-> IF j \in i .. c - 1 THEN inline_values[j + 1]
                                             ELSE inline_values[j]]
        /\ inline_count' = c - 1 /\ UNCHANGED table
    BY <1>0, <1>2 DEF RemoveSlot
  <1>4. /\ inline_values \in [Slots -> Cells] /\ c \in 0 .. INLINE_HASHMAP_ARRAY_SIZE
        /\ INLINE_HASHMAP_ARRAY_SIZE \in Nat
    BY <1>0 DEF IInv, Typed, MapAssumption
  <1>5. \A j \in 1 .. c : j \in Slots
    BY <1>4 DEF Slots
  <1>6. inline_values' \in [Slots -> Cells]
    <2>1. \A j \in Slots : j \in i .. c - 1 => j + 1 \in Slots
      BY <1>2, <1>4 DEF Slots
    <2>2. \A j \in Slots : (IF j \in i .. c - 1 THEN inline_values[j + 1]
                                                ELSE inline_values[j]) \in Cells
      BY <2>1, <1>4
    <2> QED BY <2>2, <1>3
  <1>7. Nodes' = Nodes
    BY <1>3 DEF Nodes, table
  <1>8. /\ Pointers  = {Slot(j) : j \in 1 .. c} \cup {Node(n) : n \in Nodes}
        /\ Pointers' = {Slot(j) : j \in 1 .. c - 1} \cup {Node(n) : n \in Nodes}
    BY <1>0, <1>3, <1>7 DEF Pointers
  <1> DEFINE up(j) == IF j \in i .. c - 1 THEN j + 1 ELSE j
             from(p) == IF p.in = "inline" THEN Slot(up(p.n)) ELSE p
             f == [p \in Pointers' |-> from(p)]
  <1>9. /\ \A j \in 1 .. c - 1 : Slot(j) \in Pointers' /\ f[Slot(j)] = Slot(up(j))
        /\ \A n \in Nodes : Node(n) \in Pointers' /\ f[Node(n)] = Node(n)
    BY <1>8 DEF Slot, Node
  <1>10. /\ \A j \in 1 .. c - 1 : up(j) \in 1 .. c /\ up(j) # i
         /\ \A j, h \in 1 .. c - 1 : up(j) = up(h) => j = h
         /\ \A h \in 1 .. c : h # i => \E j \in 1 .. c - 1 : up(j) = h
    <2>1. ASSUME NEW h \in 1 .. c, h # i PROVE \E j \in 1 .. c - 1 : up(j) = h
      <3>1. CASE h < i
        BY <3>1, <1>2
      <3>2. CASE h > i
        <4>1. h - 1 \in 1 .. c - 1 /\ up(h - 1) = h
          BY <3>2, <1>2
        <4> QED BY <4>1
      <3> QED BY <3>1, <3>2, <2>1, <1>2
    <2> QED BY <2>1, <1>2
  <1> HIDE DEF up
  <1>11. \A p \in Pointers' :
           (\E j \in 1 .. c - 1 : p = Slot(j)) \/ (\E n \in Nodes : p = Node(n))
    BY <1>8
  <1>12. f \in [Pointers' -> Pointers \ {Slot(i)}]
    <2>1. ASSUME NEW p \in Pointers' PROVE f[p] \in Pointers \ {Slot(i)}
      <3> HIDE DEF f
      <3>1. CASE \E j \in 1 .. c - 1 : p = Slot(j)
        BY <3>1, <1>8, <1>9, <1>10, PointerCases
      <3>2. CASE \E n \in Nodes : p = Node(n)
        BY <3>2, <1>8, <1>9, PointerCases
      <3> QED BY <3>1, <3>2, <1>11
    <2> QED BY <2>1
  <1>13. ASSUME NEW p \in Pointers' PROVE Deref(p)' = Deref(f[p])
    <2>1. CASE \E j \in 1 .. c - 1 : p = Slot(j)
      <3>1. PICK j \in 1 .. c - 1 : p = Slot(j)
        BY <2>1
      <3>2. Deref(p)' = inline_values'[j]
        BY <3>1 DEF Deref, Slot
      <3>3. f[p] = Slot(up(j)) /\ Deref(f[p]) = inline_values[up(j)]
        <4>1. f[p] = Slot(up(j))
          BY <3>1, <1>9
        <4> HIDE DEF f
        <4> QED BY <4>1, PointerCases
      <3>4. inline_values'[j] = inline_values[up(j)]
        BY <1>3, <1>5 DEF up
      <3> QED BY <3>2, <3>3, <3>4
    <2>2. CASE \E n \in Nodes : p = Node(n)
      <3>1. PICK n \in Nodes : p = Node(n)
        BY <2>2
      <3>2. Deref(p)' = node'[n]
        BY <3>1 DEF Deref, Node
      <3>3. f[p] = Node(n)
        BY <3>1, <1>9
      <3> HIDE DEF f
      <3>4. Deref(f[p]) = node[n]
        BY <3>3, PointerCases
      <3> QED BY <3>2, <3>4, <1>3 DEF table
    <2> QED BY <2>1, <2>2, <1>11
  <1>14. ASSUME NEW p \in Pointers', NEW q \in Pointers', f[p] = f[q] PROVE p = q
    <2> HIDE DEF f
    <2> QED BY <1>9, <1>10, <1>11, <1>14, PointerCases
  <1>15. ASSUME NEW p \in Pointers \ {Slot(i)} PROVE \E q \in Pointers' : f[q] = p
    <2> HIDE DEF f
    <2>1. CASE \E h \in 1 .. c : p = Slot(h)
      <3>1. PICK h \in 1 .. c : p = Slot(h) /\ h # i
        BY <2>1, <1>15
      <3>2. PICK j \in 1 .. c - 1 : up(j) = h
        BY <3>1, <1>10
      <3> QED BY <3>1, <3>2, <1>9
    <2>2. CASE \E n \in Nodes : p = Node(n)
      BY <2>2, <1>9
    <2> QED BY <2>1, <2>2, <1>0, PointerCases
  <1>16. Removes(k)
    <2>1. Slot(i) \in Pointers
      BY <1>2, <1>8
    <2> HIDE DEF f
    <2> QED BY <2>1, <1>2, <1>12, <1>13, <1>14, <1>15 DEF Removes
  <1>17. inline_count' \in 0 .. INLINE_HASHMAP_ARRAY_SIZE
    BY <1>2, <1>3, <1>4
  <1> QED BY <1>3, <1>6, <1>16, <1>17

\* hashmap_remove_GC on a key that a node has: the node leaves its chain.
LEMMA RemoveNodeStep ==
  ASSUME MapAssumption, IInv, NEW k \in Keys, RemoveNode(k)
  PROVE  /\ Removes(k)
         /\ Hung(list, size)' /\ Nodes' \subseteq Nodes
         /\ UNCHANGED <<slots, size, hashmap_count, node>>
  <1>1. PICK m \in Nodes : Deref(Node(m)).hash = k
    BY Finds DEF RemoveNode
  <1>2. /\ list' = [list EXCEPT ![hashCode(k, size)] = @ \ {m}]
        /\ UNCHANGED <<slots, size, hashmap_count, node>>
    BY <1>1, Finds DEF RemoveNode
  <1>3. PICK c \in 0 .. size - 1 : m \in list[c]
    BY DEF Nodes, IInv, Hung
  <1>4. hashCode(k, size) = c
    BY <1>1, <1>3, PointerCases DEF IInv, Hung
  <1>5. list' = [list EXCEPT ![c] = @ \ {m}]
    BY <1>2, <1>4
  <1>6. /\ list' \in [0 .. size - 1 -> SUBSET (1 .. Len(node))]
        /\ \A b \in 0 .. size - 1 : list'[b] = IF b = c THEN list[b] \ {m} ELSE list[b]
    BY <1>3, <1>5 DEF IInv, Hung
  <1>7. \A b \in 0 .. size - 1 : \A n \in list[b] : n = m => b = c
    BY <1>3 DEF IInv, Hung
  <1>8. Nodes' = Nodes \ {m}
    <2>1. \A n : n \in Nodes' <=> \E b \in 0 .. size - 1 : n \in list'[b]
      BY <1>6 DEF Nodes
    <2>2. \A n : n \in Nodes <=> \E b \in 0 .. size - 1 : n \in list[b]
      BY DEF Nodes, IInv, Hung
    <2>3. \A n : n \in Nodes' <=> n \in Nodes \ {m}
      BY <2>1, <2>2, <1>6, <1>7
    <2> QED BY <2>3
  <1>9. Hung(list, size)'
    BY <1>2, <1>6 DEF IInv, Hung, hashCode
  <1>10. Pointers' = Pointers \ {Node(m)}
    <2>1. \A p : p \in Pointers' <=>
            (\E i \in 1 .. inline_count : p = Slot(i)) \/ (\E n \in Nodes \ {m} : p = Node(n))
      BY <1>2, <1>8 DEF Pointers, slots
    <2> QED BY <2>1, PointerCases
  <1>11. \A p : Deref(p)' = Deref(p)
    BY <1>2 DEF Deref, slots
  <1> DEFINE f == [p \in Pointers' |-> p]
  <1>12. Removes(k)
    <2>1. f \in [Pointers' -> Pointers \ {Node(m)}]
      BY <1>10
    <2>2. \A p \in Pointers' : f[p] = p
      OBVIOUS
    <2>3. Node(m) \in Pointers
      BY PointerCases
    <2> HIDE DEF f
    <2> QED BY <2>1, <2>2, <2>3, <1>1, <1>10, <1>11 DEF Removes
  <1> QED BY <1>2, <1>8, <1>9, <1>12

-------------------------------------------------------------------------------
(* The invariant is inductive *)

\* The entries of the map stay real and apart from each other when one gets a value.
LEMMA OverwritesKeeps ==
  ASSUME MapAssumption, Typed, EntriesOK, NEW k \in Keys, NEW v \in Vals, Overwrites(k, v),
         order' = order + 1
  PROVE  EntriesOK'
  <1> DEFINE E == [hash : Keys, val : Vals, order : 1 .. order - 1]
  <1>1. PICK m \in Pointers :
          /\ Pointers' = Pointers
          /\ \A p \in Pointers :
               Deref(p)' = IF p = m THEN [Deref(p) EXCEPT !.val = v] ELSE Deref(p)
    BY DEF Overwrites
  <1>2. \A p \in Pointers : Deref(p) \in E
    BY DEF EntriesOK
  <1>3. ASSUME NEW p \in Pointers
        PROVE  Deref(p)' \in E /\ Deref(p)'.hash = Deref(p).hash /\ Deref(p)'.order = Deref(p).order
    <2>1. [Deref(p) EXCEPT !.val = v] \in E
      BY <1>2
    <2> QED BY <1>1, <1>2, <2>1
  <1>4. E \subseteq E'
    BY <1>1 DEF Typed
  <1>5. \A p \in Pointers' : Deref(p)' \in E'
    BY <1>1, <1>3, <1>4
  <1> HIDE DEF E
  <1>6. \A p, q \in Pointers' : Deref(p)'.hash = Deref(q)'.hash => p = q
    BY <1>1, <1>3 DEF EntriesOK
  <1>7. \A p, q \in Pointers' : Deref(p)'.order = Deref(q)'.order => p = q
    BY <1>1, <1>3 DEF EntriesOK
  <1> QED BY <1>5, <1>6, <1>7 DEF EntriesOK, E

\* They stay so when there is one more, of a hash that no other has.
LEMMA AddsKeeps ==
  ASSUME MapAssumption, Typed, EntriesOK, NEW k \in Keys, NEW v \in Vals, Adds(k, v),
         order' = order + 1
  PROVE  EntriesOK'
  <1>1. PICK m :
          /\ m \notin Pointers /\ Pointers' = Pointers \cup {m}
          /\ \A p \in Pointers : Deref(p).hash # k /\ Deref(p)' = Deref(p)
          /\ Deref(m)' = Entry(k, v, order)
    BY DEF Adds
  <1>2. order \in Nat \ {0}
    BY DEF Typed
  <1>3. \A p \in Pointers : /\ Deref(p) \in [hash : Keys, val : Vals, order : 1 .. order - 1]
                            /\ Deref(p).order < order
    BY <1>2 DEF EntriesOK
  <1>4. \A p \in Pointers' : Deref(p)' \in [hash : Keys, val : Vals, order : 1 .. order' - 1]
    BY <1>1, <1>2, <1>3 DEF Entry
  <1>5. \A p, q \in Pointers' : Deref(p)'.hash = Deref(q)'.hash => p = q
    BY <1>1 DEF Entry, EntriesOK
  <1>6. \A p, q \in Pointers' : Deref(p)'.order = Deref(q)'.order => p = q
    BY <1>1, <1>2, <1>3 DEF Entry, EntriesOK
  <1> QED BY <1>4, <1>5, <1>6 DEF EntriesOK

\* They stay so when one goes and others move.
LEMMA RemovesKeeps ==
  ASSUME EntriesOK, NEW k \in Keys, Removes(k), order' = order
  PROVE  EntriesOK'
  <1>0. PICK m \in Pointers : \E f \in [Pointers' -> Pointers \ {m}] :
          /\ \A p \in Pointers' : Deref(p)' = Deref(f[p])
          /\ \A p, q \in Pointers' : f[p] = f[q] => p = q
    BY DEF Removes
  <1>1. PICK f \in [Pointers' -> Pointers \ {m}] :
          /\ \A p \in Pointers' : Deref(p)' = Deref(f[p])
          /\ \A p, q \in Pointers' : f[p] = f[q] => p = q
    BY <1>0
  <1>2. \A p \in Pointers' : f[p] \in Pointers
    BY <1>1
  <1>3. \A p \in Pointers' : Deref(p)' \in [hash : Keys, val : Vals, order : 1 .. order' - 1]
    BY <1>1, <1>2 DEF EntriesOK
  <1>4. \A p, q \in Pointers' : Deref(p)'.hash = Deref(q)'.hash => p = q
    BY <1>1, <1>2 DEF EntriesOK
  <1>5. \A p, q \in Pointers' : Deref(p)'.order = Deref(q)'.order => p = q
    BY <1>1, <1>2 DEF EntriesOK
  <1> QED BY <1>3, <1>4, <1>5 DEF EntriesOK

\* The chains hold finitely many nodes.
LEMMA NodesFinite ==
  ASSUME Typed, Hung(list, size)
  PROVE  IsFiniteSet(Nodes) /\ Cardinality(Nodes) \in Nat
  <1>1. IsFiniteSet(1 .. Len(node))
    <2>1. Len(node) \in Int /\ 1 \in Int
      BY DEF Typed
    <2> QED BY <2>1, FS_Interval
  <1> QED BY <1>1, NodesMade, FS_Subset, FS_CardinalityType

\* createHashmap_GC.
LEMMA InitIInv ==
  ASSUME MapAssumption, Init
  PROVE  IInv
  <1>1. Nodes = {}
    BY DEF Init, Nodes
  <1>2. Pointers = {}
    BY <1>1 DEF Init, Pointers
  <1>3. Typed
    <2>1. Blank \in Cells
      BY DEF Blank, Cells, MapAssumption
    <2> QED BY <2>1 DEF Init, Typed, MapAssumption
  <1>4. Hung(list, size)
    BY DEF Init, Hung
  <1>5. Counted
    BY <1>1, FS_EmptySet DEF Init, Counted
  <1>6. EntriesOK
    BY <1>2 DEF EntriesOK
  <1> QED BY <1>3, <1>4, <1>5, <1>6 DEF IInv

\* hashmap_insert_GC keeps the invariant.
LEMMA InsertIInv ==
  ASSUME MapAssumption, IInv, NEW k \in Keys, NEW v \in Vals, hashmap_insert_GC(k, v)
  PROVE  IInv' /\ (Overwrites(k, v) \/ Adds(k, v))
  <1>1. order < MaxOrder /\ order' = order + 1 /\ order \in 1 .. MaxOrder
        /\ order' \in 1 .. MaxOrder
    BY DEF hashmap_insert_GC, IInv, Typed, MapAssumption
  <1>2. Cardinality(Nodes) \in Nat /\ IsFiniteSet(Nodes) /\ hashmap_count \in Nat
    BY NodesFinite DEF IInv, Typed
  <1>3. CASE OverwriteSlot(k, v)
    <2>1. Overwrites(k, v) /\ inline_values' \in [Slots -> Cells]
          /\ UNCHANGED <<inline_count, table>>
      BY <1>3, OverwriteSlotStep
    <2>2. EntriesOK'
      BY <2>1, <1>1, OverwritesKeeps DEF IInv
    <2>3. Typed' /\ Hung(list, size)'
      BY <2>1, <1>1 DEF IInv, Typed, Hung, hashCode, table
    <2>4. Counted'
      BY <2>1, <1>1, <1>2 DEF IInv, Counted, Nodes, table
    <2> QED BY <2>1, <2>2, <2>3, <2>4 DEF IInv
  <1>4. CASE UseSlot(k, v)
    <2>1. Adds(k, v) /\ inline_values' \in [Slots -> Cells]
          /\ inline_count' \in 0 .. INLINE_HASHMAP_ARRAY_SIZE /\ UNCHANGED table
      BY <1>1, <1>4, UseSlotStep
    <2>2. EntriesOK'
      BY <2>1, <1>1, AddsKeeps DEF IInv
    <2>3. Typed' /\ Hung(list, size)'
      BY <2>1, <1>1 DEF IInv, Typed, Hung, hashCode, table
    <2>4. Counted'
      BY <2>1, <1>1, <1>2 DEF IInv, Counted, Nodes, table
    <2> QED BY <2>1, <2>2, <2>3, <2>4 DEF IInv
  <1>5. CASE OverwriteNode(k, v)
    <2>1. /\ Overwrites(k, v)
          /\ size' \in Nat /\ Hung(list, size)' /\ node' \in Seq(Cells) /\ Nodes' = Nodes
          /\ UNCHANGED <<slots, hashmap_count>>
      BY <1>5, OverwriteNodeStep
    <2>2. EntriesOK'
      BY <2>1, <1>1, OverwritesKeeps DEF IInv
    <2>3. Typed'
      BY <2>1, <1>1 DEF IInv, Typed, slots
    <2>4. Counted'
      BY <2>1, <1>1, <1>2 DEF IInv, Counted
    <2> QED BY <2>1, <2>2, <2>3, <2>4 DEF IInv
  <1>6. CASE NewNode(k, v)
    <2>1. /\ Adds(k, v)
          /\ size' \in Nat /\ Hung(list, size)' /\ node' \in Seq(Cells)
          /\ \E m : Nodes' = Nodes \cup {m}
          /\ hashmap_count' = hashmap_count + 1 /\ UNCHANGED slots
      BY <1>1, <1>6, NewNodeStep
    <2>2. EntriesOK'
      BY <2>1, <1>1, AddsKeeps DEF IInv
    <2>3. Typed'
      BY <2>1, <1>1, <1>2 DEF IInv, Typed, slots
    <2>4. PICK m : Nodes' = Nodes \cup {m}
      BY <2>1
    <2>5. /\ Cardinality(Nodes \cup {m}) \in Nat
          /\ Cardinality(Nodes \cup {m}) <= Cardinality(Nodes) + 1
      BY <1>2, FS_AddElement
    <2>6. Cardinality(Nodes)' = Cardinality(Nodes \cup {m})
      BY <2>4
    <2>7. Cardinality(Nodes) <= hashmap_count /\ hashmap_count < order
      BY DEF IInv, Counted
    <2>8. hashmap_count' < order' /\ Cardinality(Nodes)' <= hashmap_count'
      BY <2>1, <2>5, <2>6, <2>7, <1>1, <1>2
    <2>9. Counted'
      BY <2>8 DEF Counted
    <2> QED BY <2>1, <2>2, <2>3, <2>9 DEF IInv
  <1> QED BY <1>3, <1>4, <1>5, <1>6 DEF hashmap_insert_GC

\* hashmap_remove_GC keeps the invariant.
LEMMA RemoveIInv ==
  ASSUME MapAssumption, IInv, NEW k \in Keys, hashmap_remove_GC(k)
  PROVE  IInv' /\ Removes(k)
  <1>1. order' = order /\ order \in 1 .. MaxOrder
    BY DEF hashmap_remove_GC, IInv, Typed
  <1>2. Cardinality(Nodes) \in Nat /\ IsFiniteSet(Nodes) /\ hashmap_count \in Nat
    BY NodesFinite DEF IInv, Typed
  <1>3. CASE RemoveSlot(k)
    <2>1. Removes(k) /\ inline_values' \in [Slots -> Cells]
          /\ inline_count' \in 0 .. INLINE_HASHMAP_ARRAY_SIZE /\ UNCHANGED table
      BY <1>3, RemoveSlotStep
    <2>2. EntriesOK'
      BY <2>1, <1>1, RemovesKeeps DEF IInv
    <2>3. Typed' /\ Hung(list, size)'
      BY <2>1, <1>1 DEF IInv, Typed, Hung, hashCode, table
    <2>4. Counted'
      BY <2>1, <1>1 DEF IInv, Counted, Nodes, table
    <2> QED BY <2>1, <2>2, <2>3, <2>4 DEF IInv
  <1>4. CASE RemoveNode(k)
    <2>1. Removes(k) /\ Hung(list, size)' /\ Nodes' \subseteq Nodes
          /\ UNCHANGED <<slots, size, hashmap_count, node>>
      BY <1>4, RemoveNodeStep
    <2>2. EntriesOK'
      BY <2>1, <1>1, RemovesKeeps DEF IInv
    <2>3. Typed'
      BY <2>1, <1>1 DEF IInv, Typed, slots
    <2>4. Cardinality(Nodes') <= Cardinality(Nodes) /\ Cardinality(Nodes') \in Nat
      BY <2>1, <1>2, FS_Subset, FS_CardinalityType
    <2>5. Counted'
      BY <2>1, <2>4, <1>1, <1>2 DEF IInv, Counted
    <2> QED BY <2>1, <2>2, <2>3, <2>5 DEF IInv
  <1> QED BY <1>3, <1>4 DEF hashmap_remove_GC

\* clear_hashmap_GC keeps the invariant.
LEMMA ClearIInv ==
  ASSUME MapAssumption, IInv, clear_hashmap_GC
  PROVE  IInv' /\ Pointers' = {}
  <1>1. /\ order' = 1 /\ inline_count' = 0 /\ hashmap_count' = 0 /\ size' = size
        /\ list' = [b \in 0 .. size - 1 |-> {}]
        /\ inline_values' = [i \in Slots |-> Blank] /\ node' = <<>>
    BY DEF clear_hashmap_GC, IInv, Hung
  <1>2. Nodes' = {}
    BY <1>1 DEF Nodes
  <1>3. Pointers' = {}
    BY <1>1, <1>2 DEF Pointers
  <1>4. Typed'
    <2>1. Blank \in Cells
      BY DEF Blank, Cells, MapAssumption
    <2> QED BY <2>1, <1>1 DEF IInv, Typed, MapAssumption
  <1>5. Hung(list, size)'
    BY <1>1 DEF Hung
  <1>6. Counted'
    BY <1>1, <1>2, FS_EmptySet DEF Counted
  <1>7. EntriesOK'
    BY <1>3 DEF EntriesOK
  <1> QED BY <1>3, <1>4, <1>5, <1>6, <1>7 DEF IInv

\* Every operation, and a step of something else, keeps the invariant.
LEMMA NextIInv ==
  ASSUME MapAssumption, IInv, [Next]_vars
  PROVE  IInv'
  <1>1. CASE UNCHANGED vars
    <2>1. /\ order' = order /\ inline_values' = inline_values /\ inline_count' = inline_count
          /\ size' = size /\ list' = list /\ hashmap_count' = hashmap_count /\ node' = node
      BY <1>1 DEF vars, table, slots
    <2>2. Nodes' = Nodes /\ Typed'
      BY <2>1 DEF Nodes, IInv, Typed
    <2>3. Pointers' = Pointers /\ \A p : Deref(p)' = Deref(p)
      BY <2>1, <2>2 DEF Pointers, Deref
    <2>4. Hung(list, size)'
      BY <2>1 DEF IInv, Hung, hashCode
    <2>5. EntriesOK'
      BY <2>1, <2>3 DEF IInv, EntriesOK
    <2>6. Counted'
      BY <2>1, <2>2 DEF IInv, Counted
    <2> QED BY <2>2, <2>4, <2>5, <2>6 DEF IInv
  <1>2. CASE Next
    BY <1>2, InsertIInv, RemoveIInv, ClearIInv DEF Next
  <1> QED BY <1>1, <1>2

-------------------------------------------------------------------------------
(* The invariants that TLC checks *)

\* After any operations on the map: the invariant.
THEOREM MapInvariant == Spec => []IInv
  <1>1. MapAssumption /\ Init => IInv
    BY InitIInv
  <1>2. MapAssumption /\ IInv /\ [Next]_vars => IInv'
    BY NextIInv
  <1> QED BY <1>1, <1>2, MapAssumption, PTL DEF Spec

\* The types, and that hashmap_count, by which the table grows, never falls short of the nodes
\* that the table has.
THEOREM MapTypeCorrect == Spec => []TypeOK
  <1>1. MapAssumption /\ IInv => TypeOK
    <2> SUFFICES ASSUME MapAssumption, IInv PROVE TypeOK
      OBVIOUS
    <2>1. Cardinality(Nodes) \in Nat
      BY NodesFinite DEF IInv
    <2>2. hashmap_count \in Cardinality(Nodes) .. MaxOrder
      BY <2>1 DEF IInv, Counted, Typed, MapAssumption
    <2>3. inline_count \in {0} \cup Slots
      BY DEF IInv, Typed, Slots, MapAssumption
    <2>4. list \in [0 .. size - 1 -> SUBSET (1 .. Len(node))]
      BY DEF IInv, Hung
    <2> QED BY <2>2, <2>3, <2>4 DEF IInv, Typed, TypeOK, Cells
  <1> QED BY <1>1, MapInvariant, MapAssumption, PTL

\* An entry that hashmap_GC_to_array lists is the one that hashmap_lookup_GC finds by its hash,
\* whatever was inserted, removed, cleared and resized before.
THEOREM MapListedIsFound == Spec => []ListedIsFound
  <1>1. MapAssumption /\ IInv => ListedIsFound
    <2> SUFFICES ASSUME MapAssumption, IInv PROVE ListedIsFound
      OBVIOUS
    <2>1. \A p \in Pointers : Deref(p).hash \in Keys
      BY DEF IInv, EntriesOK
    <2>2. \A p \in Pointers : hashmap_lookup_GC(Deref(p).hash) = Deref(p).val
      BY <2>1, Lookup
    <2> QED BY <2>2 DEF ListedIsFound, IInv, EntriesOK
  <1> QED BY <1>1, MapInvariant, MapAssumption, PTL

-------------------------------------------------------------------------------
(* The map is an insertion-ordered map *)

\* What the map of OrderedMap and its order are, in terms of the entries.
MapOfEntries ==
  /\ Map = [k \in DOMAIN Map |-> Map[k]]
  /\ \A k : k \in DOMAIN Map <=> \E p \in Pointers : Deref(p).hash = k
  /\ \A p \in Pointers : Map[Deref(p).hash] = Deref(p).val
  /\ \A x \in Before : x = <<x[1], x[2]>>
  /\ \A k, l : <<k, l>> \in Before <=>
       \E p, q \in Pointers :
         Deref(p).hash = k /\ Deref(q).hash = l /\ Deref(p).order < Deref(q).order

\* The keys that a lookup finds are the hashes of the entries, with their values.
LEMMA MapOf == MapAssumption /\ IInv => MapOfEntries
  <1> SUFFICES ASSUME MapAssumption, IInv PROVE MapOfEntries
    OBVIOUS
  <1>1. DOMAIN Map = Present /\ Map = [k \in DOMAIN Map |-> Map[k]]
        /\ \A k \in Present : Map[k] = hashmap_lookup_GC(k)
    BY DEF Map
  <1>2. \A p \in Pointers : Deref(p).hash \in Keys /\ Deref(p).val \in Vals
    BY DEF IInv, EntriesOK
  <1>3. \A p \in Pointers : hashmap_lookup_GC(Deref(p).hash) = Deref(p).val
    BY <1>2, Lookup
  <1>4. \A p \in Pointers : Deref(p).hash \in Present
    BY <1>2, <1>3 DEF Present, MapAssumption
  <1>5. \A k \in Present : \E p \in Pointers : Deref(p).hash = k
    BY Lookup DEF Present
  <1>6. \A p \in Pointers : Map[Deref(p).hash] = Deref(p).val
    BY <1>1, <1>3, <1>4
  <1>7. \A x : x \in Before <=>
          \E p, q \in Pointers :
            x = <<Deref(p).hash, Deref(q).hash>> /\ Deref(p).order < Deref(q).order
    <2>1. ASSUME NEW x \in Before
          PROVE  \E p, q \in Pointers :
                   x = <<Deref(p).hash, Deref(q).hash>> /\ Deref(p).order < Deref(q).order
      <3>1. PICK e \in Pointers \X Pointers :
              x = <<Deref(e[1]).hash, Deref(e[2]).hash>> /\ Deref(e[1]).order < Deref(e[2]).order
        BY DEF Before
      <3>2. e[1] \in Pointers /\ e[2] \in Pointers
        OBVIOUS
      <3> QED BY <3>1, <3>2
    <2>2. ASSUME NEW p \in Pointers, NEW q \in Pointers, Deref(p).order < Deref(q).order
          PROVE  <<Deref(p).hash, Deref(q).hash>> \in Before
      <3> DEFINE e == <<p, q>>
      <3>1. e \in Pointers \X Pointers /\ e[1] = p /\ e[2] = q
        OBVIOUS
      <3> HIDE DEF e
      <3> QED BY <3>1, <2>2 DEF Before
    <2> QED BY <2>1, <2>2
  <1>8. \A x \in Before : x = <<x[1], x[2]>>
    BY <1>7
  <1>9. \A k, l : <<k, l>> \in Before <=>
       \E p, q \in Pointers :
         Deref(p).hash = k /\ Deref(q).hash = l /\ Deref(p).order < Deref(q).order
    BY <1>7
  <1> QED BY <1>1, <1>4, <1>5, <1>6, <1>8, <1>9 DEF MapOfEntries

\* A value put under a key that is there.
LEMMA OverwritesPuts ==
  ASSUME MapAssumption, EntriesOK, MapOfEntries, MapOfEntries', NEW k \in Keys, NEW v \in Vals,
         Overwrites(k, v)
  PROVE  OM!Put(k, v)
  <1>1. PICK m \in Pointers :
          /\ Deref(m).hash = k /\ Pointers' = Pointers
          /\ \A p \in Pointers :
               Deref(p)' = IF p = m THEN [Deref(p) EXCEPT !.val = v] ELSE Deref(p)
    BY DEF Overwrites
  <1>2. \A p \in Pointers : Deref(p) \in [hash : Keys, val : Vals, order : 1 .. order - 1]
    BY DEF EntriesOK
  <1>3. \A p \in Pointers :
          /\ Deref(p)'.hash = Deref(p).hash /\ Deref(p)'.order = Deref(p).order
          /\ Deref(p)'.val = IF p = m THEN v ELSE Deref(p).val
    BY <1>1, <1>2
  <1>4. \A p \in Pointers : Deref(p).hash = k <=> p = m
    BY <1>1 DEF EntriesOK
  <1>5. DOMAIN Map' = DOMAIN Map /\ k \in DOMAIN Map
    <2>1. \A l : l \in DOMAIN Map' <=> l \in DOMAIN Map
      BY <1>1, <1>3 DEF MapOfEntries
    <2> QED BY <2>1, <1>1 DEF MapOfEntries
  <1>6. \A l \in DOMAIN Map : Map'[l] = IF l = k THEN v ELSE Map[l]
    <2> SUFFICES ASSUME NEW l \in DOMAIN Map PROVE Map'[l] = IF l = k THEN v ELSE Map[l]
      OBVIOUS
    <2>1. PICK p \in Pointers : Deref(p).hash = l
      BY DEF MapOfEntries
    <2>2. Map[l] = Deref(p).val
      BY <2>1 DEF MapOfEntries
    <2>3. Map'[Deref(p)'.hash] = Deref(p)'.val
      BY <1>1 DEF MapOfEntries
    <2> QED BY <2>1, <2>2, <2>3, <1>3, <1>4
  <1>7. Map' = [l \in DOMAIN Map \cup {k} |-> IF l = k THEN v ELSE Map[l]]
    <2>1. Map' = [l \in DOMAIN Map' |-> Map'[l]]
      BY DEF MapOfEntries
    <2>2. DOMAIN Map \cup {k} = DOMAIN Map'
      BY <1>5
    <2> QED BY <2>1, <2>2, <1>5, <1>6
  <1>8. Before' = Before
    <2>1. ASSUME NEW x, NEW y
          PROVE  <<x, y>> \in Before' <=> <<x, y>> \in Before
      <3>1. <<x, y>> \in Before' <=>
              \E p, q \in Pointers :
                Deref(p)'.hash = x /\ Deref(q)'.hash = y /\ Deref(p)'.order < Deref(q)'.order
        BY <1>1 DEF MapOfEntries
      <3> QED BY <3>1, <1>3 DEF MapOfEntries
    <2>2. \A x \in Before' : x = <<x[1], x[2]>>
      BY DEF MapOfEntries
    <2>3. \A x \in Before : x = <<x[1], x[2]>>
      BY DEF MapOfEntries
    <2> QED BY <2>1, <2>2, <2>3
  <1> QED BY <1>5, <1>7, <1>8 DEF OM!Put

\* A value put under a key that was absent: it comes after all others.
LEMMA AddsPuts ==
  ASSUME MapAssumption, Typed, EntriesOK, MapOfEntries, MapOfEntries', NEW k \in Keys,
         NEW v \in Vals, Adds(k, v)
  PROVE  OM!Put(k, v)
  <1>1. PICK m :
          /\ m \notin Pointers /\ Pointers' = Pointers \cup {m}
          /\ \A p \in Pointers : Deref(p).hash # k /\ Deref(p)' = Deref(p)
          /\ Deref(m)' = Entry(k, v, order)
    BY DEF Adds
  <1>2. \A p \in Pointers : Deref(p).order \in Int /\ Deref(p).order < order
    BY DEF EntriesOK, Typed
  <1>3. Deref(m)'.hash = k /\ Deref(m)'.val = v /\ Deref(m)'.order = order
    BY <1>1 DEF Entry
  <1>4. DOMAIN Map' = DOMAIN Map \cup {k} /\ k \notin DOMAIN Map
    <2>1. \A l : l \in DOMAIN Map' <=> l \in DOMAIN Map \/ l = k
      BY <1>1, <1>3 DEF MapOfEntries
    <2>2. k \notin DOMAIN Map
      BY <1>1 DEF MapOfEntries
    <2> QED BY <2>1, <2>2
  <1>5. \A l \in DOMAIN Map : Map'[l] = Map[l]
    <2> SUFFICES ASSUME NEW l \in DOMAIN Map PROVE Map'[l] = Map[l]
      OBVIOUS
    <2>1. PICK p \in Pointers : Deref(p).hash = l
      BY DEF MapOfEntries
    <2>2. Map[l] = Deref(p).val
      BY <2>1 DEF MapOfEntries
    <2>3. Map'[Deref(p)'.hash] = Deref(p)'.val
      BY <1>1 DEF MapOfEntries
    <2> QED BY <2>1, <2>2, <2>3, <1>1
  <1>6. Map'[k] = v
    BY <1>1, <1>3 DEF MapOfEntries
  <1>7. Map' = [l \in DOMAIN Map \cup {k} |-> IF l = k THEN v ELSE Map[l]]
    <2>1. Map' = [l \in DOMAIN Map' |-> Map'[l]]
      BY DEF MapOfEntries
    <2> QED BY <2>1, <1>4, <1>5, <1>6
  <1>8. Before' = Before \cup ((DOMAIN Map) \X {k})
    <2>1. ASSUME NEW x, NEW y
          PROVE  <<x, y>> \in Before' <=> <<x, y>> \in Before \/ (x \in DOMAIN Map /\ y = k)
      <3>1. <<x, y>> \in Before' <=>
              \E p, q \in Pointers \cup {m} :
                Deref(p)'.hash = x /\ Deref(q)'.hash = y /\ Deref(p)'.order < Deref(q)'.order
        BY <1>1 DEF MapOfEntries
      <3>2. \A p \in Pointers : Deref(p)'.order < Deref(m)'.order
        BY <1>1, <1>2, <1>3
      <3>3. \A p \in Pointers \cup {m} : ~(Deref(m)'.order < Deref(p)'.order)
        BY <1>1, <1>2, <1>3 DEF Typed
      <3>4. <<x, y>> \in Before' <=>
              \/ \E p, q \in Pointers :
                   Deref(p)'.hash = x /\ Deref(q)'.hash = y /\ Deref(p)'.order < Deref(q)'.order
              \/ \E p \in Pointers : Deref(p)'.hash = x /\ y = k
        BY <3>1, <3>2, <3>3, <1>3
      <3>5. <<x, y>> \in Before' <=>
              \/ \E p, q \in Pointers :
                   Deref(p).hash = x /\ Deref(q).hash = y /\ Deref(p).order < Deref(q).order
              \/ \E p \in Pointers : Deref(p).hash = x /\ y = k
        BY <3>4, <1>1
      <3> QED BY <3>5 DEF MapOfEntries
    <2>2. \A x \in Before' : x = <<x[1], x[2]>>
      BY DEF MapOfEntries
    <2>3. \A x \in Before : x = <<x[1], x[2]>>
      BY DEF MapOfEntries
    <2> QED BY <2>1, <2>2, <2>3
  <1> QED BY <1>4, <1>7, <1>8 DEF OM!Put

\* A key deleted: the others keep their values and their order, wherever their entries are now.
LEMMA RemovesDeletes ==
  ASSUME EntriesOK, MapOfEntries, MapOfEntries', NEW k \in Keys, Removes(k)
  PROVE  OM!Delete(k)
  <1>0. PICK m \in Pointers : \E f \in [Pointers' -> Pointers \ {m}] :
          /\ Deref(m).hash = k
          /\ \A p \in Pointers' : Deref(p)' = Deref(f[p])
          /\ \A p \in Pointers \ {m} : \E q \in Pointers' : f[q] = p
    BY DEF Removes
  <1>1. PICK f \in [Pointers' -> Pointers \ {m}] :
          /\ Deref(m).hash = k
          /\ \A p \in Pointers' : Deref(p)' = Deref(f[p])
          /\ \A p \in Pointers \ {m} : \E q \in Pointers' : f[q] = p
    BY <1>0
  <1>2. \A p \in Pointers : Deref(p).hash = k <=> p = m
    BY <1>1 DEF EntriesOK
  <1>3. \A p \in Pointers' : f[p] \in Pointers /\ f[p] # m
    BY <1>1
  <1>4. \A p \in Pointers' : Deref(p)'.hash # k
    BY <1>1, <1>2, <1>3
  <1>5. \A l : l \in DOMAIN Map' <=> l \in DOMAIN Map \ {k}
    <2>1. ASSUME NEW l \in DOMAIN Map' PROVE l \in DOMAIN Map \ {k}
      <3>1. PICK p \in Pointers' : Deref(p)'.hash = l
        BY DEF MapOfEntries
      <3>2. Deref(f[p]).hash = l /\ f[p] \in Pointers /\ l # k
        BY <3>1, <1>1, <1>3, <1>4
      <3> QED BY <3>2 DEF MapOfEntries
    <2>2. ASSUME NEW l \in DOMAIN Map, l # k PROVE l \in DOMAIN Map'
      <3>1. PICK p \in Pointers : Deref(p).hash = l
        BY DEF MapOfEntries
      <3>2. PICK q \in Pointers' : f[q] = p
        BY <3>1, <2>2, <1>1
      <3>3. Deref(q)'.hash = l
        BY <3>1, <3>2, <1>1
      <3> QED BY <3>3 DEF MapOfEntries
    <2> QED BY <2>1, <2>2
  <1>6. \A l \in DOMAIN Map' : Map'[l] = Map[l]
    <2> SUFFICES ASSUME NEW l \in DOMAIN Map' PROVE Map'[l] = Map[l]
      OBVIOUS
    <2>1. PICK p \in Pointers' : Deref(p)'.hash = l
      BY DEF MapOfEntries
    <2>2. Map'[l] = Deref(p)'.val
      BY <2>1 DEF MapOfEntries
    <2>3. Map[Deref(f[p]).hash] = Deref(f[p]).val
      BY <1>3 DEF MapOfEntries
    <2> QED BY <2>1, <2>2, <2>3, <1>1
  <1>7. Map' = [l \in DOMAIN Map \ {k} |-> Map[l]]
    <2>1. Map' = [l \in DOMAIN Map' |-> Map'[l]] /\ DOMAIN Map' = DOMAIN Map \ {k}
      BY <1>5 DEF MapOfEntries
    <2> QED BY <2>1, <1>6
  <1>8. ASSUME NEW x, NEW y
        PROVE  <<x, y>> \in Before' <=> <<x, y>> \in Before /\ x # k /\ y # k
    <2>1. ASSUME <<x, y>> \in Before' PROVE <<x, y>> \in Before /\ x # k /\ y # k
      <3>1. PICK p \in Pointers', q \in Pointers' :
              Deref(p)'.hash = x /\ Deref(q)'.hash = y /\ Deref(p)'.order < Deref(q)'.order
        BY <2>1 DEF MapOfEntries
      <3>2. x # k /\ y # k
        BY <3>1, <1>4
      <3>3. /\ Deref(f[p]).hash = x /\ Deref(f[q]).hash = y
            /\ Deref(f[p]).order < Deref(f[q]).order
        BY <3>1, <1>1
      <3> QED BY <3>2, <3>3, <1>3 DEF MapOfEntries
    <2>2. ASSUME <<x, y>> \in Before, x # k, y # k PROVE <<x, y>> \in Before'
      <3>1. PICK p \in Pointers, q \in Pointers :
              Deref(p).hash = x /\ Deref(q).hash = y /\ Deref(p).order < Deref(q).order
        BY <2>2 DEF MapOfEntries
      <3>2. p # m /\ q # m
        BY <3>1, <2>2, <1>2
      <3>3. PICK g \in Pointers' : f[g] = p
        BY <3>2, <1>1
      <3>4. PICK h \in Pointers' : f[h] = q
        BY <3>2, <1>1
      <3>5. Deref(g)'.hash = x /\ Deref(h)'.hash = y /\ Deref(g)'.order < Deref(h)'.order
        BY <3>1, <3>3, <3>4, <1>1
      <3> QED BY <3>5 DEF MapOfEntries
    <2> QED BY <2>1, <2>2
  <1>9. Before' = {p \in Before : k \notin {p[1], p[2]}}
    <2>1. \A x \in Before' : x = <<x[1], x[2]>>
      BY DEF MapOfEntries
    <2>2. \A x \in Before : x = <<x[1], x[2]>>
      BY DEF MapOfEntries
    <2> QED BY <2>1, <2>2, <1>8
  <1>10. k \in DOMAIN Map
    BY <1>1 DEF MapOfEntries
  <1> QED BY <1>7, <1>9, <1>10 DEF OM!Delete

\* A map without entries.
LEMMA NoEntries ==
  ASSUME MapOfEntries, Pointers = {}
  PROVE  Map = [k \in {} |-> k] /\ Before = {}
  <1>1. DOMAIN Map = {}
    BY DEF MapOfEntries
  <1>2. Map = [k \in {} |-> k]
    <2>1. Map = [k \in DOMAIN Map |-> Map[k]]
      BY DEF MapOfEntries
    <2> QED BY <1>1, <2>1
  <1>3. \A x \in Before : x = <<x[1], x[2]>> /\ <<x[1], x[2]>> \notin Before
    BY DEF MapOfEntries
  <1> QED BY <1>2, <1>3

\* hashmap_GC implements OrderedMap: insertions, removals and clearings, growing tables and
\* moving slots with them, are what they say to a user of the map, and nothing else changes a
\* value or the order of the keys.
THEOREM MapRefinesOrderedMap == Spec => Refines
  <1>1. MapAssumption /\ Init => OM!Init
    <2> SUFFICES ASSUME MapAssumption, Init PROVE OM!Init
      OBVIOUS
    <2>1. Nodes = {}
      BY DEF Init, Nodes
    <2>2. Pointers = {}
      BY <2>1 DEF Init, Pointers
    <2>3. MapOfEntries
      BY InitIInv, MapOf
    <2> QED BY <2>2, <2>3, NoEntries DEF OM!Init
  <1>2. MapAssumption /\ IInv /\ IInv' /\ MapOfEntries /\ MapOfEntries' /\ [Next]_vars
          => [OM!Next]_<<Map, Before>>
    <2> SUFFICES ASSUME MapAssumption, IInv, IInv', MapOfEntries, MapOfEntries', [Next]_vars
                 PROVE  [OM!Next]_<<Map, Before>>
      OBVIOUS
    <2>1. ASSUME NEW k \in Keys, NEW v \in Vals, hashmap_insert_GC(k, v) PROVE OM!Next
      <3>1. Overwrites(k, v) \/ Adds(k, v)
        BY <2>1, InsertIInv
      <3>2. OM!Put(k, v)
        BY <3>1, OverwritesPuts, AddsPuts DEF IInv
      <3> QED BY <3>2 DEF OM!Next
    <2>2. ASSUME NEW k \in Keys, hashmap_remove_GC(k) PROVE OM!Next
      <3>1. Removes(k)
        BY <2>2, RemoveIInv
      <3>2. OM!Delete(k)
        BY <3>1, RemovesDeletes DEF IInv
      <3> QED BY <3>2 DEF OM!Next
    <2>3. ASSUME clear_hashmap_GC PROVE OM!Next
      <3>1. Pointers' = {}
        BY <2>3, ClearIInv
      <3>2. Map' = [k \in {} |-> k] /\ Before' = {}
        <4>1. DOMAIN Map' = {} /\ Map' = [k \in DOMAIN Map' |-> Map'[k]]
          BY <3>1 DEF MapOfEntries
        <4>2. Map' = [k \in {} |-> k]
          BY <4>1
        <4>3. \A x \in Before' : x = <<x[1], x[2]>> /\ <<x[1], x[2]>> \notin Before'
          BY <3>1 DEF MapOfEntries
        <4> QED BY <4>2, <4>3
      <3> QED BY <3>2 DEF OM!Next, OM!Clear
    <2>4. CASE UNCHANGED vars
      <3>1. /\ inline_values' = inline_values /\ inline_count' = inline_count
            /\ size' = size /\ list' = list /\ node' = node
        BY <2>4 DEF vars, table, slots
      <3>2. Map' = Map /\ Before' = Before
        BY <3>1 DEF Map, Before, Present, hashmap_lookup_GC, InSlots, InChain, hashCode,
                    Pointers, Nodes, Deref
      <3> QED BY <3>2
    <2> QED BY <2>1, <2>2, <2>3, <2>4 DEF Next
  <1> QED BY <1>1, <1>2, MapInvariant, MapOf, MapAssumption, PTL DEF Spec, Refines, OM!Spec

-------------------------------------------------------------------------------
(* The listing *)

\* There are finitely many entries.
LEMMA PointersFinite ==
  ASSUME Typed, Hung(list, size)
  PROVE  IsFiniteSet(Pointers) /\ Cardinality(Pointers) \in Nat
  <1> DEFINE S == {Slot(i) : i \in 1 .. inline_count}
             N == {Node(n) : n \in Nodes}
             f == [i \in 1 .. inline_count |-> Slot(i)]
             g == [n \in Nodes |-> Node(n)]
  <1>1. IsFiniteSet(S)
    <2>1. IsFiniteSet(1 .. inline_count)
      <3>1. inline_count \in Int /\ 1 \in Int
        BY DEF Typed
      <3> QED BY <3>1, FS_Interval
    <2>2. f \in [1 .. inline_count -> S] /\ \A t \in S : \E s \in 1 .. inline_count : f[s] = t
      OBVIOUS
    <2> HIDE DEF f, S
    <2>3. f \in Surjection(1 .. inline_count, S)
      BY <2>2, Fun_IsSurj
    <2> QED BY <2>1, <2>3, FS_Surjection
  <1>2. IsFiniteSet(N)
    <2>1. g \in [Nodes -> N] /\ \A t \in N : \E s \in Nodes : g[s] = t
      OBVIOUS
    <2> HIDE DEF g, N
    <2>2. g \in Surjection(Nodes, N)
      BY <2>1, Fun_IsSurj
    <2> QED BY <2>2, NodesFinite, FS_Surjection
  <1>3. Pointers = S \cup N
    BY DEF Pointers
  <1> HIDE DEF S, N
  <1> QED BY <1>1, <1>2, <1>3, FS_Union, FS_CardinalityType

\* hashmap_GC_to_array: every entry once, the oldest first.
THEOREM ListingIsSorted ==
  ASSUME Typed, Hung(list, size), EntriesOK
  PROVE  /\ hashmap_GC_to_array \in Seq(Pointers)
         /\ hashmap_GC_to_array \in [1 .. Cardinality(Pointers) -> Pointers]
         /\ {hashmap_GC_to_array[i] : i \in DOMAIN hashmap_GC_to_array} = Pointers
         /\ \A i, j \in DOMAIN hashmap_GC_to_array :
              i < j => Deref(hashmap_GC_to_array[i]).order < Deref(hashmap_GC_to_array[j]).order
  <1> DEFINE P == Pointers
             n == Cardinality(P)
             Ord(p) == Deref(p).order
             Upto(p) == {q \in P : Ord(q) <= Ord(p)}
             rank == [p \in P |-> Cardinality(Upto(p))]
  <1>1. IsFiniteSet(P) /\ n \in Nat
    BY PointersFinite
  <1>2. /\ \A p \in P : Ord(p) \in Int
        /\ \A p, q \in P : Ord(p) = Ord(q) => p = q
    BY DEF EntriesOK, Typed
  <1>3. ASSUME NEW p \in P
        PROVE  IsFiniteSet(Upto(p)) /\ Cardinality(Upto(p)) \in 1 .. n
    <2>1. Upto(p) \in SUBSET P /\ p \in Upto(p)
      BY <1>2
    <2> HIDE DEF Upto, P
    <2>2. IsFiniteSet(Upto(p)) /\ Cardinality(Upto(p)) <= n /\ Cardinality(Upto(p)) \in Nat
      BY <2>1, <1>1, FS_Subset, FS_CardinalityType
    <2>3. Cardinality(Upto(p)) # 0
      BY <2>1, <2>2, FS_EmptySet
    <2> QED BY <2>2, <2>3, <1>1
  <1>4. ASSUME NEW p \in P, NEW q \in P, Ord(p) < Ord(q)
        PROVE  Cardinality(Upto(p)) < Cardinality(Upto(q))
    <2>1. Upto(p) \in SUBSET Upto(q) /\ q \in Upto(q) /\ q \notin Upto(p)
      BY <1>2, <1>4
    <2> HIDE DEF Upto
    <2>2. /\ Cardinality(Upto(p)) <= Cardinality(Upto(q))
          /\ Cardinality(Upto(p)) # Cardinality(Upto(q))
      BY <2>1, <1>3, FS_Subset
    <2>3. Cardinality(Upto(p)) \in Int /\ Cardinality(Upto(q)) \in Int
      BY <1>3
    <2> QED BY <2>2, <2>3
  <1> HIDE DEF P
  <1>5. rank \in [P -> 1 .. n] /\ \A p \in P : rank[p] = Cardinality(Upto(p))
    BY <1>3
  <1> HIDE DEF Ord, Upto, rank
  <1>6. \A p, q \in P : rank[p] = rank[q] => p = q
    <2> SUFFICES ASSUME NEW p \in P, NEW q \in P, rank[p] = rank[q] PROVE p = q
      OBVIOUS
    <2>1. rank[p] \in Int /\ rank[q] \in Int
      BY <1>5
    <2>2. ~(Ord(p) < Ord(q)) /\ ~(Ord(q) < Ord(p))
      BY <2>1, <1>4, <1>5
    <2> QED BY <2>2, <1>2
  <1>7. Cardinality(1 .. n) = n /\ IsFiniteSet(1 .. n)
    <2> HIDE DEF n
    <2> QED BY <1>1, FS_Interval
  <1>8. \A i \in 1 .. n : \E p \in P : rank[p] = i
    <2>1. rank \in Injection(P, 1 .. n)
      BY <1>5, <1>6, Fun_IsInj
    <2>2. rank \in Surjection(P, 1 .. n)
      BY <2>1, <1>7, FS_Injection
    <2> QED BY <2>2, Fun_SurjectionProperties
  <1> DEFINE s == [i \in 1 .. n |-> CHOOSE p \in P : rank[p] = i]
  <1>9. s \in [1 .. n -> P] /\ \A i \in 1 .. n : rank[s[i]] = i
    BY <1>8
  <1> HIDE DEF s
  <1>10. \A i, j \in 1 .. n : i < j => Ord(s[i]) < Ord(s[j])
    <2> SUFFICES ASSUME NEW i \in 1 .. n, NEW j \in 1 .. n, i < j PROVE Ord(s[i]) < Ord(s[j])
      OBVIOUS
    <2>1. s[i] \in P /\ s[j] \in P /\ rank[s[i]] = i /\ rank[s[j]] = j
      BY <1>9
    <2>2. Ord(s[i]) # Ord(s[j])
      BY <2>1, <1>2
    <2>3. ~(Ord(s[j]) < Ord(s[i]))
      <3> SUFFICES ASSUME Ord(s[j]) < Ord(s[i]) PROVE FALSE
        OBVIOUS
      <3>1. Cardinality(Upto(s[j])) < Cardinality(Upto(s[i]))
        BY <2>1, <1>4
      <3>2. j < i
        BY <3>1, <2>1, <1>5
      <3> QED BY <3>2
    <2>4. Ord(s[i]) \in Int /\ Ord(s[j]) \in Int
      BY <2>1, <1>2
    <2> QED BY <2>2, <2>3, <2>4
  <1> DEFINE a == hashmap_GC_to_array
  <1>11. a \in [1 .. n -> P] /\ \A i, j \in 1 .. n : i < j => Ord(a[i]) < Ord(a[j])
    <2> DEFINE o == [p \in P |-> Ord(p)]
               Sorted(t) == \A i, j \in DOMAIN t : i < j => o[t[i]] < o[t[j]]
    <2>1. DOMAIN o = P /\ \A p \in P : o[p] = Ord(p)
      OBVIOUS
    <2>2. a = qsort(o)
      BY DEF hashmap_GC_to_array, ByOrder, P, Ord
    <2> HIDE DEF o, a
    <2>3. s \in [1 .. n -> P] /\ Sorted(s)
      BY <1>9, <1>10, <2>1
    <2>4. a = CHOOSE t \in [1 .. n -> P] : Sorted(t)
      BY <2>1, <2>2 DEF qsort
    <2> HIDE DEF Sorted
    <2>5. a \in [1 .. n -> P] /\ Sorted(a)
      BY <2>3, <2>4
    <2> QED BY <2>1, <2>5 DEF Sorted
  <1> HIDE DEF a
  <1>12. \A i, j \in 1 .. n : a[i] = a[j] => i = j
    <2> SUFFICES ASSUME NEW i \in 1 .. n, NEW j \in 1 .. n, a[i] = a[j] PROVE i = j
      OBVIOUS
    <2>1. a[i] \in P /\ Ord(a[i]) \in Int
      BY <1>2, <1>11
    <2> QED BY <2>1, <1>11
  <1>13. a \in Surjection(1 .. n, P)
    <2>1. a \in Injection(1 .. n, P)
      BY <1>11, <1>12, Fun_IsInj
    <2> QED BY <2>1, <1>1, <1>7, FS_Injection
  <1>14. {a[i] : i \in DOMAIN a} = P
    <2> HIDE DEF n
    <2>1. \A t \in P : \E i \in 1 .. n : a[i] = t
      BY <1>13 DEF Surjection
    <2> QED BY <2>1, <1>11
  <1>15. a \in Seq(P)
    <2> HIDE DEF n
    <2> QED BY <1>1, <1>11
  <1> QED BY <1>11, <1>14, <1>15 DEF a, P, Ord, n

-------------------------------------------------------------------------------
(* The map of a dictionary *)

\* What a dictionary does to its map, and a scope to its own, are operations of the map.
THEOREM DictionaryUsesMap == DictSpec => Spec
  <1>1. DictInit => Init
    BY DEF DictInit
  <1>2. [DictNext]_<<vars, iterator>> => [Next]_vars
    BY DEF DictNext, __setitem__, __delitem__, __iter__, __iter__sort, __next__key,
              __next__val, __next__, EMPTY_SCOPE, Next
  <1> QED BY <1>1, <1>2, PTL DEF DictSpec, Spec

\* A dictionary lists the entries that it finds.
THEOREM DictListedIsFound == DictSpec => []ListedIsFound
  BY DictionaryUsesMap, MapListedIsFound, PTL

\* A dictionary is an insertion-ordered map, and so is a scope.
THEOREM DictRefinesOrderedMap == DictSpec => Refines
  BY DictionaryUsesMap, MapRefinesOrderedMap, PTL

-------------------------------------------------------------------------------
(* The loop *)

\* A pointer into the memory of the map; one below inline_count if it is to a slot.
Made(p) == (\E i \in Slots : p = Slot(i)) \/ (\E n \in 1 .. Len(node) : p = Node(n))
Kept(p) == (\E i \in 1 .. inline_count : p = Slot(i)) \/ (\E n \in 1 .. Len(node) : p = Node(n))

Places == [in : {"inline", "node"}, n : Nat]

\* An entry whose key and order a step leaves alone.
Same(p) == Deref(p)'.hash = Deref(p).hash /\ Deref(p)'.order = Deref(p).order

\* The listing of what has been collected, if nothing moves until it is sorted.
Listed ==
  /\ ByOrder(nodes) \in [1 .. Len(keys) -> nodes]
  /\ \A p \in nodes : Kept(p)
  /\ \A i \in 1 .. Len(keys) : Deref(ByOrder(nodes)[i]).hash = keys[i]

\* The inductive invariant: the pairs of the map, too, are among those held while the loop
\* runs, since a removal may bring any of them under a pointer of the loop.
LoopInv ==
  /\ owner = "scope" => nodes = {} /\ array = <<>>
  /\ nodes # {} => array = <<>> /\ Len(keys) = Cardinality(nodes)
  /\ nodes = {} => Len(keys) = Len(array)
  /\ array \in Seq(Places) /\ keys \in Seq(Keys)
  /\ \A i \in 1 .. Len(array) : Made(array[i]) /\ Pair(Deref(array[i])) \in held
  /\ \A p \in nodes : p \in Places /\ Made(p) /\ Pair(Deref(p)) \in held
  /\ Iterating => \A p \in Pointers : Pair(Deref(p)) \in held
  /\ ~moved => \A i \in 1 .. Len(array) : Kept(array[i]) /\ Deref(array[i]).hash = keys[i]
  /\ ~moved /\ nodes # {} => Listed

\* What __next__ has loaded: each half is of a pair held, and while no slot moves between the
\* loads, the pointer leads to the key that was loaded, or to the one of the value that was.
LoadInv ==
  /\ array = <<>> => key = {} /\ val = {}
  /\ key \subseteq {pair[1] : pair \in held} /\ val \subseteq {pair[2] : pair \in held}
  /\ ~torn => /\ val = {} => key \subseteq {Deref(Head(array)).hash}
              /\ key = {} => \A v \in val : <<Deref(Head(array)).hash, v>> \in held
              /\ key \X val \subseteq held

\* An insertion changes the memory behind a pointer only to the pair inserted, and leaves the
\* hashes where the loop may have to find them: below inline_count, and in every node.
LEMMA InsertMoves ==
  ASSUME MapAssumption, IInv, NEW k \in Keys, NEW v \in Vals, hashmap_insert_GC(k, v), NEW p
  PROVE  /\ Made(p) => /\ Made(p)'
                       /\ Deref(p)' = Deref(p) \/ Pair(Deref(p))' = <<k, v>>
         /\ Kept(p) => Kept(p)' /\ Same(p)
         /\ Made(p) /\ inline_count' = inline_count => Same(p)
  <1> USE DEF Made, Kept, Same
  <1>1. /\ inline_values \in [Slots -> Cells] /\ inline_count \in 0 .. INLINE_HASHMAP_ARRAY_SIZE
        /\ node \in Seq(Cells) /\ Len(node) \in Nat
        /\ \A i \in 1 .. inline_count : i \in Slots
    BY DEF IInv, Typed, Slots, MapAssumption
  <1>2. \A e \in Cells : /\ [e EXCEPT !.val = v].hash = e.hash /\ [e EXCEPT !.val = v].val = v
                         /\ [e EXCEPT !.val = v].order = e.order
    BY DEF Cells
  <1>3. CASE OverwriteSlot(k, v)
    <2>1. PICK i \in InSlots(k) : TRUE
      BY <1>3 DEF OverwriteSlot
    <2>2. Min(InSlots(k)) = i /\ i \in 1 .. inline_count /\ inline_values[i].hash = k
      BY <2>1, Finds, PointerCases
    <2>3. /\ inline_values' = [inline_values EXCEPT ![i].val = v]
          /\ inline_count' = inline_count /\ node' = node
      BY <1>3, <2>2 DEF OverwriteSlot, table
    <2>4. \A j \in Slots : inline_values'[j] =
            IF j = i THEN [inline_values[j] EXCEPT !.val = v] ELSE inline_values[j]
      BY <2>2, <2>3, <1>1
    <2>5. ASSUME NEW j \in Slots, p = Slot(j)
          PROVE  /\ Deref(p)' = Deref(p) \/ Pair(Deref(p))' = <<k, v>>
                 /\ Same(p)
      <3>1. Deref(p)' = inline_values'[j] /\ Deref(p) = inline_values[j]
        BY <2>5 DEF Deref, Slot
      <3>2. inline_values[j] \in Cells
        BY <1>1
      <3> QED BY <3>1, <3>2, <2>2, <2>4, <1>2 DEF Pair
    <2>6. ASSUME NEW n \in 1 .. Len(node), p = Node(n) PROVE Deref(p)' = Deref(p)
      BY <2>3, <2>6 DEF Deref, Node
    <2> QED BY <2>3, <2>5, <2>6, <1>1
  <1>4. CASE UseSlot(k, v)
    <2>0. PICK c \in Slots : c = inline_count + 1
      BY <1>1, <1>4 DEF UseSlot, Slots, MapAssumption
    <2>1. /\ inline_values' = [inline_values EXCEPT ![c] = Entry(k, v, order)]
          /\ inline_count' = c /\ node' = node
      BY <1>4, <2>0 DEF UseSlot, table
    <2>2. \A j \in Slots : inline_values'[j] =
            IF j = c THEN Entry(k, v, order) ELSE inline_values[j]
      BY <2>1, <1>1
    <2>3. ASSUME NEW j \in Slots, p = Slot(j)
          PROVE  /\ Deref(p)' = Deref(p) \/ Pair(Deref(p))' = <<k, v>>
                 /\ j # c => Deref(p)' = Deref(p)
      <3>1. Deref(p)' = inline_values'[j] /\ Deref(p) = inline_values[j]
        BY <2>3 DEF Deref, Slot
      <3> QED BY <3>1, <2>2 DEF Pair, Entry
    <2>4. ASSUME NEW n \in 1 .. Len(node), p = Node(n) PROVE Deref(p)' = Deref(p)
      BY <2>1, <2>4 DEF Deref, Node
    <2>5. \A j \in 1 .. inline_count : j # c /\ j \in 1 .. inline_count'
      BY <1>1, <2>0, <2>1
    <2>6. inline_count' # inline_count
      BY <1>1, <2>0, <2>1
    <2>7. Kept(p) => Kept(p)' /\ Same(p)
      BY <2>1, <2>3, <2>4, <2>5, <1>1
    <2>8. Made(p) => /\ Made(p)'
                     /\ Deref(p)' = Deref(p) \/ Pair(Deref(p))' = <<k, v>>
      BY <2>1, <2>3, <2>4
    <2> QED BY <2>6, <2>7, <2>8
  <1>5. CASE OverwriteNode(k, v)
    <2>1. PICK m \in Nodes : Deref(Node(m)).hash = k
      BY <1>5, Finds DEF OverwriteNode
    <2>2. /\ node' = [node EXCEPT ![m].val = v]
          /\ inline_values' = inline_values /\ inline_count' = inline_count
      BY <1>5, <2>1, Finds DEF OverwriteNode, slots
    <2>3. m \in 1 .. Len(node) /\ node[m].hash = k /\ node[m] \in Cells
      <3>1. m \in 1 .. Len(node) /\ node[m].hash = k
        BY <2>1, NodesMade, PointerCases DEF IInv
      <3> QED BY <3>1, <1>1, ElementOfSeq
    <2>4. [node[m] EXCEPT !.val = v] \in Cells
      BY <2>3 DEF Cells
    <2>5. /\ Len(node') = Len(node)
          /\ \A n \in 1 .. Len(node) : node'[n] =
               IF n = m THEN [node[n] EXCEPT !.val = v] ELSE node[n]
      BY <2>2, <2>3, <2>4, <1>1
    <2>6. ASSUME NEW n \in 1 .. Len(node), p = Node(n)
          PROVE  /\ Deref(p)' = Deref(p) \/ Pair(Deref(p))' = <<k, v>>
                 /\ Same(p)
      <3>1. Deref(p)' = node'[n] /\ Deref(p) = node[n]
        BY <2>6 DEF Deref, Node
      <3>2. CASE n = m
        <4>1. Deref(p)' = [node[m] EXCEPT !.val = v] /\ Deref(p) = node[m]
          BY <3>1, <3>2, <2>5
        <4>2. Deref(p)'.hash = k /\ Deref(p)'.val = v /\ Deref(p)'.order = Deref(p).order
          BY <4>1, <2>3, <1>2
        <4> QED BY <4>1, <4>2, <2>3 DEF Pair
      <3>3. CASE n # m
        BY <3>1, <3>3, <2>5
      <3> QED BY <3>2, <3>3
    <2>7. ASSUME NEW j \in Slots, p = Slot(j) PROVE Deref(p)' = Deref(p)
      BY <2>2, <2>7 DEF Deref, Slot
    <2> QED BY <2>2, <2>5, <2>6, <2>7, <1>1
  <1>6. CASE NewNode(k, v)
    <2>1. /\ node' = Append(node, Entry(k, v, order))
          /\ inline_values' = inline_values /\ inline_count' = inline_count
      BY <1>6 DEF NewNode, slots
    <2>2. Entry(k, v, order) \in Cells
      BY DEF Entry, Cells, IInv, Typed, MapAssumption
    <2>3. Len(node') = Len(node) + 1 /\ \A n \in 1 .. Len(node) : node'[n] = node[n]
      BY <2>1, <2>2, <1>1, AppendProperties
    <2>4. ASSUME NEW n \in 1 .. Len(node), p = Node(n) PROVE Deref(p)' = Deref(p)
      BY <2>3, <2>4 DEF Deref, Node
    <2>5. ASSUME NEW j \in Slots, p = Slot(j) PROVE Deref(p)' = Deref(p)
      BY <2>1, <2>5 DEF Deref, Slot
    <2>6. \A n \in 1 .. Len(node) : n \in 1 .. Len(node')
      BY <2>3, <1>1
    <2> QED BY <2>1, <2>4, <2>5, <2>6, <1>1
  <1> QED BY <1>3, <1>4, <1>5, <1>6 DEF hashmap_insert_GC

\* A removal changes the memory behind a pointer only to what another entry of the map was, and
\* not at all when no inline slot goes.
LEMMA RemoveMoves ==
  ASSUME MapAssumption, IInv, NEW k \in Keys, hashmap_remove_GC(k), NEW p
  PROVE  /\ Made(p) => /\ Made(p)'
                       /\ Deref(p)' = Deref(p) \/ \E q \in Pointers : Deref(p)' = Deref(q)
         /\ inline_count' = inline_count => (Kept(p) => Kept(p)') /\ Same(p)
  <1> USE DEF Made, Kept, Same
  <1>1. inline_count \in 0 .. INLINE_HASHMAP_ARRAY_SIZE
        /\ \A i \in 1 .. inline_count : i \in Slots
    BY DEF IInv, Typed, Slots, MapAssumption
  <1>2. CASE RemoveSlot(k)
    <2>1. PICK i \in InSlots(k) : TRUE
      BY <1>2 DEF RemoveSlot
    <2>2. Min(InSlots(k)) = i /\ i \in 1 .. inline_count
      BY <2>1, Finds
    <2>3. /\ inline_values' = [j \in Slots |-> IF j \in i .. inline_count - 1
                                THEN inline_values[j + 1] ELSE inline_values[j]]
          /\ inline_count' = inline_count - 1 /\ node' = node
      BY <1>2, <2>2 DEF RemoveSlot, table
    <2>4. ASSUME NEW j \in Slots, p = Slot(j)
          PROVE  Deref(p)' = Deref(p) \/ \E q \in Pointers : Deref(p)' = Deref(q)
      <3>1. Deref(p)' = inline_values'[j] /\ Deref(p) = inline_values[j]
        BY <2>4 DEF Deref, Slot
      <3>2. CASE j \in i .. inline_count - 1
        <4>1. inline_values'[j] = inline_values[j + 1] /\ j + 1 \in 1 .. inline_count
          BY <3>2, <2>2, <2>3, <1>1
        <4>2. Slot(j + 1) \in Pointers /\ Deref(Slot(j + 1)) = inline_values[j + 1]
          BY <4>1, PointerCases
        <4> QED BY <4>1, <4>2, <3>1
      <3>3. CASE j \notin i .. inline_count - 1
        BY <3>1, <3>3, <2>3
      <3> QED BY <3>2, <3>3
    <2>5. ASSUME NEW n \in 1 .. Len(node), p = Node(n) PROVE Deref(p)' = Deref(p)
      BY <2>3, <2>5 DEF Deref, Node
    <2>6. inline_count' # inline_count
      BY <2>3, <1>1
    <2> QED BY <2>3, <2>4, <2>5, <2>6, <1>1
  <1>3. CASE RemoveNode(k)
    <2>1. inline_values' = inline_values /\ inline_count' = inline_count /\ node' = node
      BY <1>3 DEF RemoveNode, slots
    <2>2. Deref(p)' = Deref(p)
      BY <2>1 DEF Deref
    <2> QED BY <2>1, <2>2
  <1> QED BY <1>2, <1>3 DEF hashmap_remove_GC

\* The pairs of the map after an insertion: those of before and the one inserted.
LEMMA InsertPairs ==
  ASSUME MapAssumption, IInv, NEW k \in Keys, NEW v \in Vals, hashmap_insert_GC(k, v),
         NEW p \in Pointers'
  PROVE  Pair(Deref(p))' = <<k, v>> \/ \E q \in Pointers : Pair(Deref(p))' = Pair(Deref(q))
  <1>1. \A q \in Pointers : Deref(q) \in [hash : Keys, val : Vals, order : 1 .. order - 1]
    BY DEF IInv, EntriesOK
  <1>2. CASE Overwrites(k, v)
    <2>1. PICK m \in Pointers :
            /\ Deref(m).hash = k /\ Pointers' = Pointers
            /\ \A q \in Pointers :
                 Deref(q)' = IF q = m THEN [Deref(q) EXCEPT !.val = v] ELSE Deref(q)
      BY <1>2 DEF Overwrites
    <2> QED BY <2>1, <1>1 DEF Pair
  <1>3. CASE Adds(k, v)
    BY <1>3 DEF Adds, Pair, Entry
  <1> QED BY <1>2, <1>3, InsertIInv

\* The pairs of the map after a removal are some of those before.
LEMMA RemovePairs ==
  ASSUME MapAssumption, IInv, NEW k \in Keys, hashmap_remove_GC(k), NEW p \in Pointers'
  PROVE  \E q \in Pointers : Pair(Deref(p))' = Pair(Deref(q))
  <1>1. Removes(k)
    BY RemoveIInv
  <1>2. PICK m \in Pointers : \E f \in [Pointers' -> Pointers \ {m}] :
          \A q \in Pointers' : Deref(q)' = Deref(f[q])
    BY <1>1 DEF Removes
  <1>3. PICK f \in [Pointers' -> Pointers \ {m}] : \A q \in Pointers' : Deref(q)' = Deref(f[q])
    BY <1>2
  <1> QED BY <1>3 DEF Pair

\* A pointer to an entry is kept.
LEMMA PointersKept ==
  ASSUME MapAssumption, IInv, NEW p \in Pointers
  PROVE  p \in Places /\ Made(p) /\ Kept(p) /\ Deref(p).hash \in Keys
  <1>1. \A i \in 1 .. inline_count : i \in Slots /\ i \in Nat
    BY DEF IInv, Typed, Slots, MapAssumption
  <1>2. \A n \in Nodes : n \in 1 .. Len(node) /\ n \in Nat
    BY NodesMade DEF IInv, Typed
  <1>3. Deref(p).hash \in Keys
    BY DEF IInv, EntriesOK
  <1> QED BY <1>1, <1>2, <1>3, PointerCases DEF Made, Kept, Places, Slot, Node

\* A step that leaves the map alone.
LEMMA MapUnchanged ==
  ASSUME UNCHANGED vars
  PROVE  /\ Pointers' = Pointers /\ \A p : Deref(p)' = Deref(p) /\ Pair(Deref(p))' = Pair(Deref(p))
         /\ \A p : (Made(p)' <=> Made(p)) /\ (Kept(p)' <=> Kept(p))
  <1>1. /\ inline_values' = inline_values /\ inline_count' = inline_count
        /\ list' = list /\ node' = node
    BY DEF vars, slots, table
  <1> QED BY <1>1 DEF Pointers, Nodes, Deref, Pair, Made, Kept

\* A listing depends on the orders of what is listed.
LEMMA ByOrderKept ==
  ASSUME nodes' = nodes, \A p \in nodes : Same(p)
  PROVE  ByOrder(nodes)' = ByOrder(nodes)
  <1>1. [p \in nodes |-> Deref(p).order]' = [p \in nodes |-> Deref(p).order]
    BY DEF Same
  <1> QED BY <1>1 DEF ByOrder

\* dictionary.__iter__: pointers to all entries are collected, with their pairs held.
LEMMA IterKeeps ==
  ASSUME MapAssumption, IInv, LoopInv, __iter__
  PROVE  LoopInv'
  <1>1. PICK a : /\ a = hashmap_GC_to_array
                 /\ a \in Seq(Pointers) /\ a \in [1 .. Cardinality(Pointers) -> Pointers]
    BY ListingIsSorted DEF IInv
  <1>2. /\ owner = "dictionary" /\ owner' = owner /\ nodes' = Pointers
        /\ array = <<>> /\ array' = <<>>
        /\ keys' = [i \in DOMAIN a |-> Deref(a[i]).hash]
        /\ held' = {Pair(Deref(p)) : p \in Pointers}
        /\ UNCHANGED vars
    BY <1>1 DEF __iter__, Iterating
  <1>3. /\ DOMAIN a = 1 .. Len(a) /\ Len(a) \in Nat /\ Len(a) = Cardinality(Pointers)
        /\ \A i \in 1 .. Len(a) : a[i] \in Pointers
    <2>1. Cardinality(Pointers) \in Nat
      BY PointersFinite DEF IInv
    <2>2. DOMAIN a = 1 .. Cardinality(Pointers)
      BY <1>1
    <2>3. DOMAIN a = 1 .. Len(a) /\ Len(a) \in Nat
      BY <1>1
    <2>4. Len(a) = Cardinality(Pointers)
      BY <2>1, <2>2, <2>3
    <2> QED BY <1>1, <2>3, <2>4
  <1>4. \A p \in Pointers : p \in Places /\ Made(p) /\ Kept(p) /\ Deref(p).hash \in Keys
    BY PointersKept
  <1>5. keys' \in Seq(Keys) /\ Len(keys') = Len(a)
    BY <1>2, <1>3, <1>4
  <1>6. \A p \in Pointers : /\ Made(p)' /\ Kept(p)' /\ Deref(p)' = Deref(p)
                            /\ Pair(Deref(p))' \in held'
    <2> SUFFICES ASSUME NEW p \in Pointers
                 PROVE  /\ Made(p)' /\ Kept(p)' /\ Deref(p)' = Deref(p)
                        /\ Pair(Deref(p))' \in held'
      OBVIOUS
    <2>1. /\ Made(p)' /\ Kept(p)' /\ Deref(p)' = Deref(p)
          /\ Pair(Deref(p))' = Pair(Deref(p))
      BY <1>2, <1>4, MapUnchanged
    <2>2. Pair(Deref(p)) \in held'
      BY <1>2
    <2> QED BY <2>1, <2>2
  <1>7. \A p \in nodes' : p \in Places /\ Made(p)' /\ Pair(Deref(p))' \in held'
    BY <1>2, <1>4, <1>6
  <1>8. \A p \in Pointers' : Pair(Deref(p))' \in held'
    BY <1>2, <1>6, MapUnchanged
  <1>9. Listed'
    <2>1. [p \in nodes |-> Deref(p).order]' = [p \in Pointers |-> Deref(p).order]
      BY <1>2, <1>6
    <2>2. ByOrder(nodes)' = a
      BY <2>1, <1>1 DEF ByOrder, hashmap_GC_to_array
    <2>3. \A i \in 1 .. Len(a) : Deref(a[i])' = Deref(a[i]) /\ keys'[i] = Deref(a[i]).hash
      BY <1>2, <1>3, <1>6
    <2>4. a \in [1 .. Len(keys') -> nodes']
      BY <1>1, <1>2, <1>3, <1>5
    <2>5. \A p \in nodes' : Kept(p)'
      BY <1>2, <1>6
    <2>6. \A i \in 1 .. Len(keys') : Deref(a[i])'.hash = keys'[i]
      BY <2>3, <1>5
    <2>7. \A i \in 1 .. Len(keys') : Deref(ByOrder(nodes)[i])'.hash = keys'[i]
      BY <2>2, <2>6 DEF Deref
    <2> QED BY <2>2, <2>4, <2>5, <2>7 DEF Listed
  <1>10. nodes' = {} => Len(keys') = 0
    BY <1>2, <1>3, <1>5, FS_EmptySet
  <1>11. Len(array') = 0 /\ array' \in Seq(Places) /\ \A i \in 1 .. Len(array') : FALSE
    BY <1>2
  <1> QED BY <1>2, <1>3, <1>5, <1>7, <1>8, <1>9, <1>10, <1>11 DEF LoopInv

\* The sorting of the listing: an array of what was collected, in its order if nothing moved.
LEMMA SortKeeps ==
  ASSUME MapAssumption, IInv, LoopInv, __iter__sort
  PROVE  LoopInv'
  <1>1. PICK a : /\ array' = a /\ nodes' = {}
                 /\ a \in IF moved THEN Bijection(1 .. Cardinality(nodes), nodes)
                          ELSE {ByOrder(nodes)}
    BY DEF __iter__sort
  <1>2. /\ nodes # {} /\ UNCHANGED vars /\ owner' = owner /\ keys' = keys /\ held' = held
        /\ moved' = moved
    BY DEF __iter__sort
  <1>3. owner # "scope" /\ Len(keys) = Cardinality(nodes) /\ Len(keys) \in Nat
    BY <1>2 DEF LoopInv
  <1>4. a \in [1 .. Len(keys) -> nodes]
    <2>1. CASE moved
      BY <2>1, <1>1, <1>3 DEF Bijection, Injection
    <2>2. CASE ~moved
      BY <2>2, <1>1, <1>2 DEF LoopInv, Listed
    <2> QED BY <2>1, <2>2
  <1>5. \A p \in nodes : p \in Places
    BY DEF LoopInv
  <1>6. a \in Seq(Places) /\ Len(a) = Len(keys)
    BY <1>3, <1>4, <1>5
  <1>7. \A i \in 1 .. Len(array') : Made(array[i])' /\ Pair(Deref(array[i]))' \in held'
    <2> SUFFICES ASSUME NEW i \in 1 .. Len(a)
                 PROVE  Made(array[i])' /\ Pair(Deref(array[i]))' \in held'
      BY <1>1
    <2>1. a[i] \in nodes
      BY <1>4, <1>6
    <2>2. Made(a[i]) /\ Pair(Deref(a[i])) \in held
      BY <2>1 DEF LoopInv
    <2>3. Made(a[i])' /\ Pair(Deref(a[i]))' \in held'
      BY <2>2, <1>2, MapUnchanged
    <2> QED BY <2>3, <1>1 DEF Made, Pair, Deref
  <1>8. ASSUME ~moved'
        PROVE  \A i \in 1 .. Len(array') : Kept(array[i])' /\ Deref(array[i])'.hash = keys'[i]
    <2> SUFFICES ASSUME NEW i \in 1 .. Len(a)
                 PROVE  Kept(array[i])' /\ Deref(array[i])'.hash = keys'[i]
      BY <1>1
    <2>1. Listed /\ a = ByOrder(nodes)
      BY <1>1, <1>2, <1>8 DEF LoopInv
    <2>2. a[i] \in nodes /\ Kept(a[i]) /\ Deref(a[i]).hash = keys[i]
      BY <2>1, <1>4, <1>6 DEF Listed
    <2>3. Kept(a[i])' /\ Deref(a[i])'.hash = keys'[i]
      BY <2>2, <1>2, MapUnchanged
    <2> QED BY <2>3, <1>1 DEF Kept, Deref
  <1>9. \A p \in Pointers' : Pair(Deref(p))' \in held'
    BY <1>2, MapUnchanged DEF LoopInv, Iterating
  <1>10. keys' \in Seq(Keys)
    BY <1>2 DEF LoopInv
  <1> QED BY <1>1, <1>2, <1>3, <1>6, <1>7, <1>8, <1>9, <1>10 DEF LoopInv


\* An update under the loop: every pointer of the loop leads to a pair that is held afterwards,
\* and to the key and the order it led to before if no slot has moved since the loop began.
LEMMA UpdateKeeps ==
  ASSUME LoopInv, UNCHANGED <<owner, nodes, array, keys>>,
         Iterating => \A p \in Pointers' : Pair(Deref(p))' \in held',
         \A p : Made(p) /\ Pair(Deref(p)) \in held /\ Iterating
                  => Made(p)' /\ Pair(Deref(p))' \in held',
         ~moved' /\ Iterating => ~moved /\ \A p : Kept(p) => Kept(p)' /\ Same(p)
  PROVE  LoopInv'
  <1>1. PICK a : a = array
    OBVIOUS
  <1>2. /\ array' = a /\ keys' = keys /\ owner' = owner /\ nodes' = nodes
        /\ a \in Seq(Places) /\ Len(a) \in Nat
        /\ \A i \in 1 .. Len(a) : Iterating
    BY <1>1 DEF LoopInv, Iterating
  <1>3. ASSUME NEW i \in 1 .. Len(a)
        PROVE  Made(array[i])' /\ Pair(Deref(array[i]))' \in held'
    <2>1. Made(a[i]) /\ Pair(Deref(a[i])) \in held
      BY <1>1 DEF LoopInv
    <2>2. Made(a[i])' /\ Pair(Deref(a[i]))' \in held'
      BY <2>1, <1>2
    <2> QED BY <2>2, <1>2 DEF Made, Pair, Deref
  <1>4. ASSUME ~moved', NEW i \in 1 .. Len(a)
        PROVE  Kept(array[i])' /\ Deref(array[i])'.hash = keys'[i]
    <2>1. Kept(a[i]) /\ Deref(a[i]).hash = keys[i]
      BY <1>1, <1>2, <1>4 DEF LoopInv
    <2>2. Kept(a[i])' /\ Deref(a[i])'.hash = keys[i]
      BY <2>1, <1>2, <1>4 DEF Same
    <2> QED BY <2>2, <1>2 DEF Kept, Deref
  <1>5. ASSUME NEW p \in nodes
        PROVE  p \in Places /\ Made(p)' /\ Pair(Deref(p))' \in held'
    <2>1. p \in Places /\ Made(p) /\ Pair(Deref(p)) \in held /\ Iterating
      BY DEF LoopInv, Iterating
    <2> QED BY <2>1
  <1>6. ASSUME ~moved', nodes # {} PROVE Listed'
    <2>1. ~moved /\ Listed /\ \A p : Kept(p) => Kept(p)' /\ Same(p)
      BY <1>6 DEF LoopInv, Iterating
    <2>2. PICK s : s = ByOrder(nodes)
      OBVIOUS
    <2>3. ByOrder(nodes)' = s
      BY <2>1, <2>2, <1>2, ByOrderKept DEF Listed
    <2>4. s \in [1 .. Len(keys) -> nodes]
      BY <2>1, <2>2 DEF Listed
    <2>5. ASSUME NEW i \in 1 .. Len(keys)
          PROVE  Deref(s[i])'.hash = keys[i]
      <3>1. Kept(s[i]) /\ Deref(s[i]).hash = keys[i]
        BY <2>1, <2>2, <2>4 DEF Listed
      <3> QED BY <3>1, <2>1 DEF Same
    <2>6. \A p \in nodes : Kept(p)'
      BY <2>1 DEF Listed
    <2>7. \A i \in 1 .. Len(keys) : Deref(ByOrder(nodes)[i])'.hash = keys[i]
      BY <2>3, <2>5 DEF Deref
    <2> QED BY <2>3, <2>4, <2>6, <2>7, <1>2 DEF Listed
  <1>7. Iterating' => \A p \in Pointers' : Pair(Deref(p))' \in held'
    BY <1>2 DEF Iterating
  <1>8. /\ owner' = "scope" => nodes' = {} /\ array' = <<>>
        /\ nodes' # {} => array' = <<>> /\ Len(keys') = Cardinality(nodes')
        /\ nodes' = {} => Len(keys') = Len(array')
        /\ array' \in Seq(Places) /\ keys' \in Seq(Keys)
    BY <1>1, <1>2 DEF LoopInv
  <1> QED BY <1>2, <1>3, <1>4, <1>5, <1>6, <1>7, <1>8 DEF LoopInv

\* A step that leaves the map and the pointers of the loop alone.
LEMMA SameLoop ==
  ASSUME LoopInv, UNCHANGED vars, UNCHANGED <<owner, nodes, array, keys>>,
         held' = held, moved' = moved
  PROVE  LoopInv'
  <1>1. \A p \in Pointers' : p \in Pointers /\ Pair(Deref(p))' = Pair(Deref(p))
    BY MapUnchanged
  <1>2. \A p : /\ Made(p)' <=> Made(p)
               /\ Kept(p)' <=> Kept(p)
               /\ Same(p) /\ Pair(Deref(p))' = Pair(Deref(p))
    BY MapUnchanged DEF Same
  <1>3. Iterating => \A p \in Pointers' : Pair(Deref(p))' \in held'
    BY <1>1 DEF LoopInv
  <1> QED BY <1>2, <1>3, UpdateKeeps

\* The loads of dictionary.__next__ leave the map and the pointers alone.
LEMMA LoadsKeep ==
  ASSUME LoopInv, __next__key \/ __next__val
  PROVE  LoopInv'
  <1>1. /\ UNCHANGED vars /\ owner' = owner /\ nodes' = nodes /\ array' = array /\ keys' = keys
        /\ held' = held /\ moved' = moved
    BY DEF __next__key, __next__val
  <1> QED BY <1>1, SameLoop

\* dictionary.__next__: one pair less to yield.
LEMMA NextKeeps ==
  ASSUME MapAssumption, IInv, LoopInv, LoadInv, __next__
  PROVE  LoopInv'
  <1>1. /\ array # <<>> /\ array' = Tail(array) /\ keys' = Tail(keys)
        /\ owner' = owner /\ nodes' = nodes /\ UNCHANGED vars
        /\ array' # <<>> => held' = held /\ moved' = moved
    BY DEF __next__, LoadInv
  <1>2. PICK a : a = array
    OBVIOUS
  <1>3. PICK b : b = keys
    OBVIOUS
  <1>4. a \in Seq(Places) /\ b \in Seq(Keys) /\ Len(a) = Len(b) /\ a # <<>> /\ Len(a) \in Nat
    BY <1>1, <1>2, <1>3 DEF LoopInv
  <1>5. /\ Tail(a) \in Seq(Places) /\ Tail(b) \in Seq(Keys)
        /\ Len(Tail(a)) = Len(a) - 1 /\ Len(Tail(b)) = Len(a) - 1
        /\ \A i \in 1 .. Len(a) - 1 :
             i + 1 \in 1 .. Len(a) /\ Tail(a)[i] = a[i + 1] /\ Tail(b)[i] = b[i + 1]
    <2>1. b # <<>>
      BY <1>4
    <2> QED BY <2>1, <1>4, HeadTailProperties
  <1>6. owner' # "scope" /\ nodes' = {}
    BY <1>1 DEF LoopInv
  <1>7. array' = Tail(a) /\ keys' = Tail(b)
    BY <1>1, <1>2, <1>3
  <1>8. CASE Tail(a) = <<>>
    <2>0. Len(Tail(a)) = 0 /\ \A i \in 1 .. Len(Tail(a)) : FALSE
      <3>1. Len(Tail(a)) = 0
        BY <1>5, <1>8, EmptySeq
      <3>2. \A i \in 1 .. 0 : FALSE
        OBVIOUS
      <3> QED BY <3>1, <3>2, Zenon
    <2>1. Len(array') = 0 /\ \A i \in 1 .. Len(array') : FALSE
      BY <1>7, <2>0
    <2>2. Len(keys') = 0 /\ array' \in Seq(Places) /\ keys' \in Seq(Keys)
      BY <2>1, <1>5, <1>7
    <2>3. ~Iterating'
      BY <1>6, <1>7, <1>8 DEF Iterating
    <2> QED BY <1>6, <2>1, <2>2, <2>3 DEF LoopInv
  <1>9. CASE Tail(a) # <<>>
    <2>1. held' = held /\ moved' = moved
      BY <1>1, <1>7, <1>9
    <2>2. \A i \in 1 .. Len(array') : Made(array[i])' /\ Pair(Deref(array[i]))' \in held'
      <3> SUFFICES ASSUME NEW i \in 1 .. Len(a) - 1
                   PROVE  Made(array[i])' /\ Pair(Deref(array[i]))' \in held'
        BY <1>5, <1>7
      <3>1. Made(a[i + 1]) /\ Pair(Deref(a[i + 1])) \in held
        BY <1>2, <1>5 DEF LoopInv
      <3>2. Made(a[i + 1])' /\ Pair(Deref(a[i + 1]))' \in held'
        BY <3>1, <2>1, <1>1, MapUnchanged
      <3>3. array'[i] = a[i + 1]
        BY <1>5, <1>7
      <3> QED BY <3>2, <3>3 DEF Made, Pair, Deref
    <2>3. ASSUME ~moved'
          PROVE  \A i \in 1 .. Len(array') : Kept(array[i])' /\ Deref(array[i])'.hash = keys'[i]
      <3> SUFFICES ASSUME NEW i \in 1 .. Len(a) - 1
                   PROVE  Kept(array[i])' /\ Deref(array[i])'.hash = keys'[i]
        BY <1>5, <1>7
      <3>1. Kept(a[i + 1]) /\ Deref(a[i + 1]).hash = b[i + 1]
        BY <1>2, <1>3, <1>5, <2>1, <2>3 DEF LoopInv
      <3>2. Kept(a[i + 1])' /\ Deref(a[i + 1])'.hash = b[i + 1]
        BY <3>1, <1>1, MapUnchanged
      <3>3. array'[i] = a[i + 1] /\ keys'[i] = b[i + 1]
        BY <1>5, <1>7
      <3> QED BY <3>2, <3>3 DEF Kept, Deref
    <2>4. \A p \in Pointers' : Pair(Deref(p))' \in held'
      BY <1>1, <2>1, MapUnchanged DEF LoopInv, Iterating
    <2> QED BY <1>5, <1>6, <1>7, <2>2, <2>3, <2>4 DEF LoopInv
  <1> QED BY <1>8, <1>9

\* dictionary.__setitem__ under the loop.
LEMMA SetKeeps ==
  ASSUME MapAssumption, IInv, LoopInv, NEW k \in Keys, NEW v \in Vals, __setitem__(k, v)
  PROVE  LoopInv'
  <1>1. /\ hashmap_insert_GC(k, v) /\ moved' = moved
        /\ UNCHANGED <<owner, nodes, array, keys>>
        /\ Iterating => held' = held \cup {<<k, v>>}
    BY DEF __setitem__
  <1>2. ASSUME Iterating, NEW p \in Pointers' PROVE Pair(Deref(p))' \in held'
    <2>1. Pair(Deref(p))' = <<k, v>> \/ \E q \in Pointers : Pair(Deref(p))' = Pair(Deref(q))
      BY <1>1, InsertPairs
    <2> QED BY <2>1, <1>1, <1>2 DEF LoopInv
  <1>3. ASSUME NEW p, Made(p), Pair(Deref(p)) \in held, Iterating
        PROVE  Made(p)' /\ Pair(Deref(p))' \in held'
    <2>1. Made(p)' /\ (Deref(p)' = Deref(p) \/ Pair(Deref(p))' = <<k, v>>)
      BY <1>1, <1>3, InsertMoves
    <2> QED BY <2>1, <1>1, <1>3 DEF Pair
  <1>4. ASSUME NEW p, Kept(p) PROVE Kept(p)' /\ Same(p)
    BY <1>1, <1>4, InsertMoves
  <1> QED BY <1>1, <1>2, <1>3, <1>4, UpdateKeeps

\* dictionary.__delitem__ under the loop.
LEMMA DeleteKeeps ==
  ASSUME MapAssumption, IInv, LoopInv, NEW k \in Keys, __delitem__(k)
  PROVE  LoopInv'
  <1>1. /\ hashmap_remove_GC(k) /\ held' = held
        /\ UNCHANGED <<owner, nodes, array, keys>>
        /\ moved' = (moved \/ (Iterating /\ inline_count' # inline_count))
    BY DEF __delitem__
  <1>2. ASSUME Iterating, NEW p \in Pointers' PROVE Pair(Deref(p))' \in held'
    <2>1. \E q \in Pointers : Pair(Deref(p))' = Pair(Deref(q))
      BY <1>1, RemovePairs
    <2> QED BY <2>1, <1>1, <1>2 DEF LoopInv
  <1>3. ASSUME NEW p, Made(p), Pair(Deref(p)) \in held, Iterating
        PROVE  Made(p)' /\ Pair(Deref(p))' \in held'
    <2>1. Made(p)' /\ (Deref(p)' = Deref(p) \/ \E q \in Pointers : Deref(p)' = Deref(q))
      BY <1>1, <1>3, RemoveMoves
    <2> QED BY <2>1, <1>1, <1>3 DEF Pair, LoopInv
  <1>4. ASSUME ~moved', Iterating, NEW p, Kept(p)
        PROVE  Kept(p)' /\ Same(p)
    BY <1>1, <1>4, RemoveMoves
  <1>5. ~moved' => ~moved
    BY <1>1
  <1> QED BY <1>1, <1>2, <1>3, <1>4, <1>5, UpdateKeeps

\* Every step of a dictionary or a scope keeps the invariant of the loop; EMPTY_SCOPE clears the
\* map of a scope, which no loop has pointers into.
LEMMA LoopStep ==
  ASSUME MapAssumption, IInv, LoopInv, LoadInv, [DictNext]_<<vars, iterator>>
  PROVE  LoopInv'
  <1>1. CASE EMPTY_SCOPE
    <2>1. /\ nodes = {} /\ nodes' = {} /\ array = <<>> /\ array' = array
          /\ keys' = keys /\ owner' = owner
          /\ Len(array) = 0 /\ \A i \in 1 .. Len(array) : FALSE
      BY <1>1 DEF EMPTY_SCOPE, iterator, LoopInv
    <2>2. ~Iterating'
      BY <2>1 DEF Iterating
    <2> QED BY <2>1, <2>2 DEF LoopInv
  <1>2. CASE UNCHANGED <<vars, iterator>>
    <2>1. /\ UNCHANGED vars /\ owner' = owner /\ nodes' = nodes /\ array' = array
          /\ keys' = keys /\ held' = held /\ moved' = moved
      BY <1>2 DEF iterator
    <2> QED BY <2>1, SameLoop
  <1> QED BY <1>1, <1>2, SetKeeps, DeleteKeeps, IterKeeps, SortKeeps, LoadsKeep, NextKeeps
          DEF DictNext

-------------------------------------------------------------------------------
(* The loads *)

\* An update between the loads, or with none of them done: unless slots are torn, the key that
\* the pointer leads to stays.
LEMMA UpdateLoads ==
  ASSUME LoadInv, UNCHANGED <<array, key, val>>,
         array # <<>> => held \subseteq held',
         ~torn' => ~torn,
         array # <<>> /\ BetweenLoads /\ ~torn' => Same(Head(array))
  PROVE  LoadInv'
  <1>1. PICK p : p = Head(array)
    OBVIOUS
  <1>2. CASE array = <<>>
    BY <1>2 DEF LoadInv
  <1>3. CASE array # <<>>
    <2>1. /\ array' = array /\ key' = key /\ val' = val /\ held \subseteq held'
          /\ Head(array') = p
      BY <1>1, <1>3
    <2>2. key' \subseteq {pair[1] : pair \in held'} /\ val' \subseteq {pair[2] : pair \in held'}
      BY <2>1 DEF LoadInv
    <2>3. ASSUME ~torn', val = {} PROVE key \subseteq {Deref(p)'.hash}
      BY <2>3, <1>1, <1>3 DEF LoadInv, BetweenLoads, Same
    <2>4. ASSUME ~torn', key = {} PROVE \A v \in val : <<Deref(p)'.hash, v>> \in held'
      BY <2>1, <2>4, <1>1, <1>3 DEF LoadInv, BetweenLoads, Same
    <2>5. ASSUME ~torn' PROVE key \X val \subseteq held'
      BY <2>1, <2>5 DEF LoadInv
    <2> QED BY <1>3, <2>1, <2>2, <2>3, <2>4, <2>5 DEF LoadInv, Deref
  <1> QED BY <1>2, <1>3

\* dictionary.__setitem__ between the loads: it puts an entry where the pointer leads only if
\* it fills a slot that a removal has vacated.
LEMMA SetLoads ==
  ASSUME MapAssumption, IInv, LoopInv, LoadInv,
         NEW k \in Keys, NEW v \in Vals, __setitem__(k, v)
  PROVE  LoadInv'
  <1>1. /\ hashmap_insert_GC(k, v) /\ UNCHANGED <<array, key, val>>
        /\ array # <<>> => held \subseteq held'
        /\ torn' = (torn \/ (BetweenLoads /\ moved /\ inline_count' # inline_count))
    BY DEF __setitem__, Iterating
  <1>2. ASSUME array # <<>>, BetweenLoads, ~torn' PROVE Same(Head(array))
    <2>1. ~moved \/ inline_count' = inline_count
      BY <1>1, <1>2
    <2>2. Head(array) = array[1] /\ 1 \in 1 .. Len(array)
      BY <1>2 DEF LoopInv
    <2>3. Made(array[1]) /\ (~moved => Kept(array[1]))
      BY <2>2 DEF LoopInv
    <2>4. Same(array[1])
      BY <1>1, <2>1, <2>3, InsertMoves
    <2> QED BY <2>2, <2>4 DEF Same, Deref
  <1>3. ~torn' => ~torn
    BY <1>1
  <1> QED BY <1>1, <1>2, <1>3, UpdateLoads

\* dictionary.__delitem__ between the loads: it moves what the pointer leads to only if it
\* removes an inline entry.
LEMMA DeleteLoads ==
  ASSUME MapAssumption, IInv, LoopInv, LoadInv, NEW k \in Keys, __delitem__(k)
  PROVE  LoadInv'
  <1>1. /\ hashmap_remove_GC(k) /\ UNCHANGED <<array, key, val>> /\ held' = held
        /\ torn' = (torn \/ (BetweenLoads /\ inline_count' # inline_count))
    BY DEF __delitem__
  <1>2. BetweenLoads /\ ~torn' => Same(Head(array))
    BY <1>1, RemoveMoves
  <1>3. ~torn' => ~torn
    BY <1>1
  <1> QED BY <1>1, <1>2, <1>3, UpdateLoads

\* The loads: each takes a half of the pair that the pointer leads to, which is held.
LEMMA LoadLoads ==
  ASSUME LoopInv, LoadInv, __next__key \/ __next__val
  PROVE  LoadInv'
  <1>1. PICK p : p = Head(array)
    OBVIOUS
  <1>2. /\ UNCHANGED vars /\ array' = array /\ held' = held /\ torn' = torn /\ array # <<>>
        /\ \/ key = {} /\ key' = {Deref(p).hash} /\ val' = val
           \/ val = {} /\ val' = {Deref(p).val} /\ key' = key
    BY <1>1 DEF __next__key, __next__val
  <1>3. Deref(p)' = Deref(p) /\ Head(array') = p
    BY <1>1, <1>2, MapUnchanged
  <1>4. <<Deref(p).hash, Deref(p).val>> \in held
    <2>1. Head(array) = array[1] /\ 1 \in 1 .. Len(array)
      BY <1>2 DEF LoopInv
    <2> QED BY <2>1, <1>1 DEF LoopInv, Pair
  <1>5. key' \subseteq {pair[1] : pair \in held} /\ val' \subseteq {pair[2] : pair \in held}
    <2>1. /\ Deref(p).hash \in {pair[1] : pair \in held}
          /\ Deref(p).val \in {pair[2] : pair \in held}
      BY <1>4
    <2> QED BY <2>1, <1>2 DEF LoadInv
  <1>6. ASSUME ~torn
        PROVE  /\ val' = {} => key' \subseteq {Deref(p).hash}
               /\ key' = {} => \A v \in val' : <<Deref(p).hash, v>> \in held
               /\ key' \X val' \subseteq held
    <2>1. /\ val = {} => key \subseteq {Deref(p).hash}
          /\ key = {} => \A v \in val : <<Deref(p).hash, v>> \in held
          /\ key \X val \subseteq held
      BY <1>1, <1>6 DEF LoadInv
    <2> QED BY <2>1, <1>2, <1>4
  <1> QED BY <1>2, <1>3, <1>5, <1>6 DEF LoadInv, Deref

\* Every step of a dictionary or a scope keeps what holds of the loads.
LEMMA LoadStep ==
  ASSUME MapAssumption, IInv, LoopInv, LoadInv, [DictNext]_<<vars, iterator>>
  PROVE  LoadInv'
  <1>1. CASE __iter__ \/ __iter__sort
    <2>1. array = <<>> /\ key' = key /\ val' = val
      BY <1>1 DEF __iter__, __iter__sort, Iterating, LoopInv, loads
    <2>2. key' = {} /\ val' = {}
      BY <2>1 DEF LoadInv
    <2> QED BY <2>2 DEF LoadInv
  <1>2. CASE __next__
    <2>1. key' = {} /\ val' = {}
      BY <1>2 DEF __next__
    <2> QED BY <2>1 DEF LoadInv
  <1>3. CASE EMPTY_SCOPE
    <2>1. array = <<>> /\ UNCHANGED <<array, key, val, torn>> /\ held' = held
      BY <1>3 DEF EMPTY_SCOPE, iterator, loads, LoopInv
    <2> QED BY <2>1, UpdateLoads
  <1>4. CASE UNCHANGED <<vars, iterator>>
    <2>1. /\ UNCHANGED vars /\ UNCHANGED <<array, key, val, torn>> /\ held' = held
      BY <1>4 DEF iterator, loads
    <2>2. Same(Head(array))
      BY <2>1, MapUnchanged DEF Same
    <2> QED BY <2>1, <2>2, UpdateLoads
  <1> QED BY <1>1, <1>2, <1>3, <1>4, SetLoads, DeleteLoads, LoadLoads DEF DictNext

-------------------------------------------------------------------------------
(* The invariants that TLC checks *)

\* After any steps of a dictionary, a loop over it and a scope: the invariant of the loop and
\* that of its loads.
THEOREM LoopInvariant == DictSpec => [](LoopInv /\ LoadInv)
  <1>1. DictInit => LoopInv /\ LoadInv
    <2> SUFFICES ASSUME DictInit PROVE LoopInv /\ LoadInv
      OBVIOUS
    <2>1. /\ nodes = {} /\ array = <<>> /\ keys = <<>> /\ Len(array) = 0
          /\ \A i \in 1 .. Len(array) : FALSE
      BY DEF DictInit
    <2>2. LoopInv
      BY <2>1 DEF LoopInv, Iterating
    <2>3. key = {} /\ val = {}
      BY DEF DictInit
    <2> QED BY <2>2, <2>3 DEF LoadInv
  <1>2. DictSpec => []IInv
    BY DictionaryUsesMap, MapInvariant, PTL
  <1>3. MapAssumption /\ IInv /\ LoopInv /\ LoadInv /\ [DictNext]_<<vars, iterator>>
          => LoopInv' /\ LoadInv'
    BY LoopStep, LoadStep
  <1> QED BY <1>1, <1>2, <1>3, MapAssumption, PTL DEF DictSpec

\* While the dictionary loses no inline entry, __next__ goes through the keys that the dictionary
\* had at __iter__ and yields, for those still there, the value that a lookup gives.
THEOREM LoopKeepsItsEntries == DictSpec => []IteratorKeepsItsEntries
  <1>1. ListedIsFound /\ LoopInv => IteratorKeepsItsEntries
    <2> SUFFICES ASSUME ListedIsFound, LoopInv, ~moved, NEW i \in DOMAIN array
                 PROVE  /\ Deref(array[i]).hash = keys[i]
                        /\ array[i] \in Pointers =>
                             hashmap_lookup_GC(Deref(array[i]).hash) = Deref(array[i]).val
      BY DEF IteratorKeepsItsEntries
    <2>1. i \in 1 .. Len(array)
      BY DEF LoopInv
    <2> QED BY <2>1 DEF LoopInv, ListedIsFound
  <1> QED BY <1>1, DictListedIsFound, LoopInvariant, PTL

\* Whatever other threads do between the two loads of __next__, and even when removals have moved
\* slots under the loop: key and value are each of a pair that the dictionary has held since
\* __iter__, and of the same pair unless, between the loads, an inline entry was removed or a
\* vacated slot filled.
THEOREM LoopYieldsHeldPairsBut == DictSpec => []IteratorYieldsHeldPairsBut
  <1>1. LoadInv => IteratorYieldsHeldPairsBut
    BY DEF LoadInv, IteratorYieldsHeldPairsBut
  <1> QED BY <1>1, LoopInvariant, PTL

=============================================================================
