------------------------- MODULE BytecodeCacheProofs -------------------------
(***************************************************************************)
(* Proofs about BytecodeCache, for any processes, texts, sizes of bytecode *)
(* and numbers of loads and edits.                                         *)
(***************************************************************************)
EXTENDS BytecodeCache, SequenceTheorems, TLAPS

\* Whatever a block of the file or of a reading may be.
Cells == [part : {"head", "code", "foot", "hole"}, hash : Texts \cup {"none"},
          text : Texts \cup {"none"}, n : Nat]

(***************************************************************************)
(* The types that TypeOK leaves open.                                      *)
(***************************************************************************)
Typed ==
  /\ TypeOK
  /\ file \in Seq(Cells)
  /\ size \in [Processes -> Nat] /\ out \in [Processes -> Nat]
  /\ got \in [Processes -> Seq(Cells)]
  /\ text \in [Processes -> Texts \cup {"none"}]
  /\ texts \in [Processes -> SUBSET Texts]
  /\ rewriters \in [Processes -> SUBSET Processes]
  /\ \A p \in Processes :
       /\ pc[p] # "idle" => hash[p] \in Texts
       /\ pc[p] \in {"idle", "open", "head", "source"} => got[p] = <<>>

\* A load that hashed h may have read t.
MayHaveRead(h, t) == h = t \/ <<h, t>> \in torn

(***************************************************************************)
(* A header in the file names a text that translates, which is the text of *)
(* its hash unless a load was torn.                                        *)
(***************************************************************************)
Owned(b) == b.part = "head" => b.text \in Texts \ Broken /\ MayHaveRead(b.hash, b.text)
HeadersOwned == \A i \in DOMAIN file : Owned(file[i])

(***************************************************************************)
(* What a load knows of the file while nobody has written to it.           *)
(***************************************************************************)
StartsAlike(p) ==
  /\ size[p] = Len(file) /\ Len(got[p]) <= Len(file)
  /\ \A i \in 1 .. Len(got[p]) : got[p][i] = file[i]
IsImage == \E h, t \in Texts : file = Image(h, t)
ReadsFrom(p, t) ==
  /\ file = Image(hash[p], t) /\ size[p] = Blocks[t]
  /\ Len(got[p]) < Blocks[t]
  /\ \A i \in 1 .. Len(got[p]) : got[p][i] = Bytecode(t)[i]
Runs(p, t) == got[p] = Bytecode(t) /\ (t \in texts[p] \/ <<hash[p], t>> \in torn)

Reads(p) ==
  rewriters[p] = {} =>
    /\ pc[p] = "verify" => StartsAlike(p)
    /\ pc[p] = "head" => IsImage /\ got[p] = <<>>
    /\ pc[p] = "code" => \E t \in Texts : ReadsFrom(p, t)
    /\ pc[p] = "loaded" => \E t \in Texts \ Broken : Runs(p, t)

(***************************************************************************)
(* What a load that writes has read of the source.                         *)
(***************************************************************************)
Writes(p) ==
  pc[p] \in {"create", "write"} =>
    got[p] = Bytecode(text[p]) /\ text[p] \in texts[p] /\ MayHaveRead(hash[p], text[p])

Hashed(p) == pc[p] # "idle" => hash[p] \in texts[p] /\ source \in texts[p]

IInv ==
  /\ Typed /\ HeadersOwned
  /\ \A p \in Processes : Hashed(p) /\ Writes(p) /\ Reads(p)

-------------------------------------------------------------------------------
(* Bytecode and images *)

LEMMA BytecodeShape ==
  ASSUME NEW t \in Texts
  PROVE  /\ Bytecode(t) \in Seq(Cells) /\ Len(Bytecode(t)) = Blocks[t] /\ Blocks[t] \in Nat \ {0}
         /\ \A i \in 1 .. Blocks[t] : Bytecode(t)[i] = Block("code", "none", t, i)
  <1>1. Blocks[t] \in Nat \ {0}
    BY CacheAssumption
  <1>2. \A i \in 1 .. Blocks[t] : Block("code", "none", t, i) \in Cells
    BY <1>1 DEF Block, Cells
  <1> QED
    BY <1>1, <1>2 DEF Bytecode

\* The bytecode tells its text.
LEMMA BytecodeInjective ==
  ASSUME NEW t \in Texts, NEW u \in Texts, Bytecode(t) = Bytecode(u)
  PROVE  t = u
  <1>1. Bytecode(t)[1] = Block("code", "none", t, 1) /\ Bytecode(u)[1] = Block("code", "none", u, 1)
    BY BytecodeShape
  <1> QED
    BY <1>1 DEF Block

LEMMA ImageShape ==
  ASSUME NEW h \in Texts, NEW t \in Texts
  PROVE  /\ Image(h, t) \in Seq(Cells) /\ Len(Image(h, t)) = Blocks[t] + 2
         /\ Image(h, t)[1] = Block("head", h, t, 0)
         /\ \A i \in 1 .. Blocks[t] : Image(h, t)[i + 1] = Bytecode(t)[i]
         /\ \A i \in 2 .. Blocks[t] + 2 : Image(h, t)[i].part \in {"code", "foot"}
  <1> DEFINE head == <<Block("head", h, t, 0)>>
             foot == <<Block("foot", h, t, 0)>>
             body == Bytecode(t)
             front == head \o body
             image == front \o foot
             n == Blocks[t]
  <1>1. /\ head \in Seq(Cells) /\ Len(head) = 1 /\ head[1] = Block("head", h, t, 0)
        /\ foot \in Seq(Cells) /\ Len(foot) = 1 /\ foot[1] = Block("foot", h, t, 0)
    BY DEF Block, Cells
  <1>2. /\ body \in Seq(Cells) /\ Len(body) = n /\ n \in Nat \ {0}
        /\ \A i \in 1 .. n : body[i] = Block("code", "none", t, i)
    BY BytecodeShape
  <1>3. Image(h, t) = image /\ Bytecode(t) = body /\ Blocks[t] = n
    BY DEF Image
  <1> HIDE DEF head, foot, body, n
  <1>4. /\ front \in Seq(Cells) /\ Len(front) = Len(head) + Len(body)
        /\ \A i \in 1 .. Len(head) + Len(body) :
             front[i] = IF i <= Len(head) THEN head[i] ELSE body[i - Len(head)]
    BY <1>1, <1>2, ConcatProperties, Zenon
  <1> HIDE DEF front
  <1>5. /\ image \in Seq(Cells) /\ Len(image) = Len(front) + Len(foot)
        /\ \A i \in 1 .. Len(front) + Len(foot) :
             image[i] = IF i <= Len(front) THEN front[i] ELSE foot[i - Len(front)]
    <2>1. front \in Seq(Cells) /\ foot \in Seq(Cells)
      BY <1>1, <1>4
    <2> QED
      BY <2>1, ConcatProperties, Zenon
  <1> HIDE DEF image
  <1>6. front[1] = head[1] /\ \A i \in 1 .. n : front[i + 1] = body[i]
    BY <1>1, <1>2, <1>4
  <1>7. /\ \A i \in 1 .. n + 1 : image[i] = front[i]
        /\ image[n + 2] = foot[1]
    BY <1>1, <1>2, <1>4, <1>5
  <1>8. image[1] = head[1] /\ \A i \in 1 .. n : image[i + 1] = body[i]
    <2>1. 1 \in 1 .. n + 1 /\ \A i \in 1 .. n : i + 1 \in 1 .. n + 1
      BY <1>2
    <2> QED
      BY <1>6, <1>7, <2>1
  <1>9. ASSUME NEW i \in 2 .. n + 2 PROVE image[i].part \in {"code", "foot"}
    <2>1. CASE i = n + 2
      BY <1>1, <1>7, <2>1 DEF Block
    <2>2. CASE i # n + 2
      <3>1. i - 1 \in 1 .. n /\ i = (i - 1) + 1
        BY <1>2, <2>2
      <3>2. image[i] = Block("code", "none", t, i - 1)
        BY <1>2, <1>8, <3>1
      <3> QED
        BY <3>2 DEF Block
    <2> QED
      BY <2>1, <2>2
  <1> QED
    BY <1>1, <1>2, <1>3, <1>4, <1>5, <1>8, <1>9

-------------------------------------------------------------------------------
LEMMA WithShape ==
  ASSUME Typed, NEW p \in Processes, NEW i \in Nat
  PROVE  /\ With(p, i) \in Seq(Cells)
         /\ With(p, i) = got[p] \/ Len(With(p, i)) = Len(got[p]) + 1
  <1>1. got[p] \in Seq(Cells) /\ file \in Seq(Cells)
    BY DEF Typed
  <1>2. CASE i \in DOMAIN file
    <2>1. file[i] \in Cells
      BY <1>1, <1>2
    <2> QED
      BY <1>1, <1>2, <2>1 DEF With
  <1>3. CASE i \notin DOMAIN file
    BY <1>1, <1>3 DEF With
  <1> QED
    BY <1>2, <1>3

LEMMA InitIInv == Init => IInv
  <1> SUFFICES ASSUME Init PROVE IInv
    OBVIOUS
  <1>1. TypeOK
    BY CacheAssumption DEF Init, TypeOK, PCs
  <1>2. Typed
    BY <1>1 DEF Init, Typed
  <1>3. HeadersOwned
    BY DEF Init, HeadersOwned
  <1>4. \A p \in Processes : Hashed(p) /\ Writes(p) /\ Reads(p)
    BY DEF Init, Hashed, Writes, Reads
  <1> QED
    BY <1>2, <1>3, <1>4 DEF IInv

(***************************************************************************)
(* The types are kept.                                                     *)
(***************************************************************************)
LEMMA NextTyped == Typed /\ HeadersOwned /\ [Next]_vars => Typed'
  <1> SUFFICES ASSUME Typed, HeadersOwned, [Next]_vars PROVE Typed'
    OBVIOUS
  <1> USE CacheAssumption DEF Typed, TypeOK, PCs
  <1>1. ASSUME NEW p \in Processes, HashSource(p) PROVE Typed'
    BY <1>1 DEF HashSource, At, disk
  <1>2. ASSUME NEW p \in Processes, OpenCache(p) PROVE Typed'
    <2>1. Len(file) \in Nat /\ Len(<<>>) = 0
      OBVIOUS
    <2>2. pc' = [pc EXCEPT ![p] = "source"] \/ pc' = [pc EXCEPT ![p] = "verify"]
      BY <1>2 DEF OpenCache, At
    <2> QED
      BY <1>2, <2>1, <2>2 DEF OpenCache, At, disk, bounds, history
  <1>3. ASSUME NEW p \in Processes, VerifyBlock(p) PROVE Typed'
    <2> DEFINE blocks == With(p, Len(got[p]) + 1)
    <2>1. got[p] \in Seq(Cells) /\ Len(got[p]) \in Nat /\ Len(<<>>) = 0
      OBVIOUS
    <2>2. blocks \in Seq(Cells) /\ Len(blocks) \in Nat
      BY <2>1, WithShape
    <2>3. pc[p] = "verify" /\ UNCHANGED <<disk, hash, text, out, bounds, history>>
      BY <1>3 DEF VerifyBlock
    <2>4. \/ Len(blocks) < size[p] /\ got' = [got EXCEPT ![p] = blocks] /\ UNCHANGED <<pc, size>>
          \/ /\ pc' = [pc EXCEPT ![p] = "head"] \/ pc' = [pc EXCEPT ![p] = "source"]
             /\ got' = [got EXCEPT ![p] = <<>>] /\ size' = [size EXCEPT ![p] = 0]
      BY <1>3 DEF VerifyBlock, ToSource
    <2> HIDE DEF blocks
    <2>5. CASE Len(blocks) < size[p] /\ got' = [got EXCEPT ![p] = blocks] /\ UNCHANGED <<pc, size>>
      BY <2>1, <2>2, <2>3, <2>5 DEF disk, bounds, history
    <2>6. CASE /\ pc' = [pc EXCEPT ![p] = "head"] \/ pc' = [pc EXCEPT ![p] = "source"]
               /\ got' = [got EXCEPT ![p] = <<>>] /\ size' = [size EXCEPT ![p] = 0]
      <3>1. \A q \in Processes \ {p} : pc'[q] = pc[q] /\ got'[q] = got[q] /\ size'[q] = size[q]
        BY <2>6
      <3>2. pc'[p] \in {"head", "source"} /\ got'[p] = <<>> /\ size'[p] = 0
        BY <2>6
      <3>3. pc' \in [Processes -> PCs]
        BY <2>6
      <3>4. got' \in [Processes -> Seq(Cells)]
        BY <2>6
      <3>5. size' \in [Processes -> Nat]
        BY <2>6
      <3> QED
        BY <2>1, <2>3, <3>1, <3>2, <3>3, <3>4, <3>5, SMTT(30) DEF disk, bounds, history
    <2> QED
      BY <2>4, <2>5, <2>6
  <1>4. ASSUME NEW p \in Processes, ReadHead(p) PROVE Typed'
    <2>1. CASE file # <<>> /\ file[1].part = "head" /\ file[1].hash = hash[p]
      <3>1. 1 \in DOMAIN file
        BY <2>1
      <3>2. file[1].text \in Texts
        BY <2>1, <3>1 DEF HeadersOwned, Owned
      <3>3. Blocks[file[1].text] \in Nat /\ Len(<<>>) = 0
        BY <3>2
      <3> QED
        BY <1>4, <2>1, <3>3 DEF ReadHead, At, disk, bounds, history
    <2>2. CASE ~(file # <<>> /\ file[1].part = "head" /\ file[1].hash = hash[p])
      BY <1>4, <2>2 DEF ReadHead, At, disk, bounds, history
    <2> QED
      BY <2>1, <2>2
  <1>5. ASSUME NEW p \in Processes, ReadCode(p) PROVE Typed'
    <2> DEFINE blocks == With(p, Len(got[p]) + 2)
    <2>1. got[p] \in Seq(Cells) /\ Len(got[p]) \in Nat /\ Len(<<>>) = 0
      OBVIOUS
    <2>2. blocks \in Seq(Cells) /\ Len(blocks) \in Nat
      <3>1. Len(got[p]) + 2 \in Nat
        BY <2>1
      <3>2. blocks \in Seq(Cells)
        BY <3>1, WithShape
      <3> QED
        BY <3>2
    <2>3. pc[p] = "code" /\ UNCHANGED <<disk, hash, text, out, bounds, history>>
      BY <1>5 DEF ReadCode
    <2>4. \/ pc' = [pc EXCEPT ![p] = "source"] /\ got' = [got EXCEPT ![p] = <<>>]
               /\ size' = [size EXCEPT ![p] = 0]
          \/ Len(blocks) < size[p] /\ got' = [got EXCEPT ![p] = blocks] /\ UNCHANGED <<pc, size>>
          \/ pc' = [pc EXCEPT ![p] = "loaded"] /\ got' = [got EXCEPT ![p] = blocks]
               /\ size' = [size EXCEPT ![p] = 0]
      BY <1>5 DEF ReadCode, ToSource
    <2> HIDE DEF blocks
    <2>5. CASE pc' = [pc EXCEPT ![p] = "source"] /\ got' = [got EXCEPT ![p] = <<>>]
               /\ size' = [size EXCEPT ![p] = 0]
      BY <2>1, <2>3, <2>5 DEF disk, bounds, history
    <2>6. CASE Len(blocks) < size[p] /\ got' = [got EXCEPT ![p] = blocks] /\ UNCHANGED <<pc, size>>
      BY <2>1, <2>2, <2>3, <2>6 DEF disk, bounds, history
    <2>7. CASE pc' = [pc EXCEPT ![p] = "loaded"] /\ got' = [got EXCEPT ![p] = blocks]
               /\ size' = [size EXCEPT ![p] = 0]
      BY <2>1, <2>2, <2>3, <2>7 DEF disk, bounds, history
    <2> QED
      BY <2>4, <2>5, <2>6, <2>7
  <1>6. ASSUME NEW p \in Processes, Translate(p) PROVE Typed'
    <2>1. Bytecode(source) \in Seq(Cells) /\ Len(Bytecode(source)) \in Nat
      BY BytecodeShape
    <2> QED
      BY <1>6, <2>1 DEF Translate, At, disk, bounds
  <1>7. ASSUME NEW p \in Processes, Fails(p) PROVE Typed'
    BY <1>7 DEF Fails, At, Reset, disk, bounds
  <1>8. ASSUME NEW p \in Processes, Create(p) PROVE Typed'
    <2>1. Len(Image(hash[p], text[p])) \in Nat \ {0}
      BY <1>8, ImageShape DEF Create, At
    <2>2. file' = <<>> /\ file' \in Seq(Cells)
      BY <1>8 DEF Create
    <2>3. /\ rewriters' \in [Processes -> SUBSET Processes]
          /\ \A q \in Processes : rewriters'[q] \subseteq Processes \ {q}
      BY <1>8 DEF Create, Rewrites
    <2>4. /\ pc[p] = "create" /\ pc' = [pc EXCEPT ![p] = "write"] /\ out' = [out EXCEPT ![p] = 0]
          /\ UNCHANGED <<source, hash, size, got, text, bounds, texts, torn>>
      BY <1>8 DEF Create, At
    <2>5. \A q \in Processes : pc'[q] = "write" => out'[q] < Len(Image(hash[q], text[q]))
      BY <2>1, <2>4
    <2> QED
      BY <2>2, <2>3, <2>4, <2>5 DEF bounds
  <1>9. ASSUME NEW p \in Processes, Write(p) PROVE Typed'
    <2> DEFINE image == Image(hash[p], text[p])
               i == out[p] + 1
    <2>1. pc[p] = "write" /\ hash[p] \in Texts /\ text[p] \in Texts
      BY <1>9 DEF Write
    <2>2. image \in Seq(Cells) /\ i \in 1 .. Len(image) /\ Len(image) \in Nat
      BY <2>1, ImageShape
    <2>3. /\ rewriters' \in [Processes -> SUBSET Processes]
          /\ \A q \in Processes : rewriters'[q] \subseteq Processes \ {q}
      BY <1>9 DEF Write, Rewrites
    <2>4. file' \in Seq(Cells)
      <3> DEFINE n == IF i > Len(file) THEN i ELSE Len(file)
      <3>1. n \in Nat
        BY <2>2
      <3>2. Hole \in Cells
        BY DEF Hole, Block, Cells
      <3>3. image[i] \in Cells
        BY <2>2
      <3>4. file' = [j \in 1 .. n |->
                      IF j = i THEN image[i] ELSE IF j \in DOMAIN file THEN file[j] ELSE Hole]
        BY <1>9 DEF Write
      <3> HIDE DEF n, image, i
      <3>5. \A j \in 1 .. n :
              (IF j = i THEN image[i] ELSE IF j \in DOMAIN file THEN file[j] ELSE Hole) \in Cells
        BY <3>2, <3>3
      <3> QED
        BY <3>1, <3>4, <3>5
    <2>5. UNCHANGED <<source, hash, size, got, bounds, texts, torn>>
      BY <1>9 DEF Write
    <2>6. CASE i = Len(image)
      <3>1. /\ pc' = [pc EXCEPT ![p] = "loaded"]
            /\ text' = [text EXCEPT ![p] = "none"] /\ out' = [out EXCEPT ![p] = 0]
        BY <1>9, <2>6 DEF Write, Closed
      <3>2. \A q \in Processes : pc'[q] \in {"create", "write"} =>
              q # p /\ pc[q] = pc'[q] /\ text'[q] = text[q] /\ out'[q] = out[q]
        BY <3>1
      <3>3. \A q \in Processes : pc'[q] \in {"verify", "code"} => q # p /\ pc[q] = pc'[q]
        BY <3>1
      <3>4. \A q \in Processes : pc'[q] = "write" => out'[q] < Len(Image(hash'[q], text'[q]))
        BY <2>5, <3>2
      <3>5. \A q \in Processes : pc'[q] \in {"create", "write"} =>
              hash'[q] \in Texts /\ text'[q] \in Texts \ Broken
        BY <2>5, <3>2
      <3>6. pc' \in [Processes -> PCs] /\ text' \in [Processes -> Texts \cup {"none"}]
              /\ out' \in [Processes -> Nat]
        BY <3>1
      <3>7. \A q \in Processes :
              /\ pc'[q] # "idle" => hash'[q] \in Texts
              /\ pc'[q] \in {"idle", "open", "head", "source"} => got'[q] = <<>>
        BY <2>1, <2>5, <3>1
      <3> QED
        BY <2>3, <2>4, <2>5, <3>3, <3>4, <3>5, <3>6, <3>7, SMTT(30) DEF bounds
    <2>7. CASE i # Len(image)
      <3>1. out' = [out EXCEPT ![p] = i] /\ UNCHANGED <<pc, text>>
        BY <1>9, <2>7 DEF Write
      <3> QED
        BY <2>1, <2>2, <2>3, <2>4, <2>5, <2>7, <3>1, SMTT(30) DEF bounds
    <2> QED
      BY <2>6, <2>7
  <1>10. ASSUME NEW p \in Processes, NotWritten(p) PROVE Typed'
    BY <1>10 DEF NotWritten, Closed, disk, bounds, history
  <1>11. ASSUME NEW p \in Processes, Done(p) PROVE Typed'
    BY <1>11 DEF Done, At, Reset, disk, bounds
  <1>12. ASSUME NEW p \in Processes, Crash(p) PROVE Typed'
    BY <1>12 DEF Crash, At, Reset, disk, bounds
  <1>13. ASSUME Edit PROVE Typed'
    BY <1>13 DEF Edit
  <1>14. ASSUME UNCHANGED vars PROVE Typed'
    BY <1>14 DEF vars, disk, bounds, history
  <1> QED
    BY <1>1, <1>2, <1>3, <1>4, <1>5, <1>6, <1>7, <1>8, <1>9, <1>10, <1>11, <1>12, <1>13, <1>14
    DEF Next, load_argon_file, load_cache

(***************************************************************************)
(* What is known of a load lasts through the steps of others: they leave   *)
(* the file alone, or the load is marked if it was reading.                *)
(***************************************************************************)
Reading == {"verify", "head", "code"}

Untouched(q) ==
  /\ pc'[q] = pc[q] /\ hash'[q] = hash[q] /\ size'[q] = size[q]
  /\ got'[q] = got[q] /\ text'[q] = text[q]
  /\ pc[q] # "idle" => /\ texts[q] \subseteq texts'[q]
                       /\ source' = source \/ source' \in texts'[q]

LEMMA Bystander ==
  ASSUME NEW q \in Processes, Hashed(q), Writes(q), Reads(q), Untouched(q), torn \subseteq torn',
         \/ file' = file /\ rewriters'[q] = rewriters[q]
         \/ rewriters'[q] # {}
         \/ pc[q] \notin Reading /\ rewriters'[q] = rewriters[q]
  PROVE  (Hashed(q) /\ Writes(q) /\ Reads(q))'
  <1>1. Hashed(q)'
    BY DEF Hashed, Untouched
  <1>2. Writes(q)'
    BY DEF Writes, Untouched, MayHaveRead
  <1>3. Reads(q)'
    <2>1. CASE rewriters'[q] # {}
      BY <2>1 DEF Reads
    <2>2. CASE file' = file /\ rewriters'[q] = rewriters[q]
      BY <2>2 DEF Reads, Untouched, StartsAlike, IsImage, ReadsFrom, Runs
    <2>3. CASE pc[q] \notin Reading /\ rewriters'[q] = rewriters[q]
      BY <2>3 DEF Reads, Reading, Untouched, Runs
    <2> QED
      BY <2>1, <2>2, <2>3
  <1> QED
    BY <1>1, <1>2, <1>3

\* The steps of p that leave the file alone.
LEMMA Alone ==
  ASSUME IInv, NEW p \in Processes, file' = file, torn \subseteq torn',
         \A q \in Processes \ {p} : Untouched(q) /\ rewriters'[q] = rewriters[q],
         Typed', (Hashed(p) /\ Writes(p) /\ Reads(p))'
  PROVE  IInv'
  <1>1. HeadersOwned'
    BY DEF IInv, HeadersOwned, Owned, MayHaveRead
  <1>2. ASSUME NEW q \in Processes PROVE (Hashed(q) /\ Writes(q) /\ Reads(q))'
    <2>1. CASE q = p
      BY <2>1
    <2>2. CASE q # p
      BY <2>2, Bystander DEF IInv
    <2> QED
      BY <2>1, <2>2
  <1> QED
    BY <1>1, <1>2 DEF IInv

LEMMA HashSourceIInv ==
  ASSUME IInv, Typed', NEW p \in Processes, HashSource(p) PROVE IInv'
  <1> USE DEF IInv, Typed, TypeOK
  <1>1. /\ file' = file /\ torn' = torn
        /\ \A q \in Processes \ {p} : Untouched(q) /\ rewriters'[q] = rewriters[q]
    BY DEF HashSource, At, disk, Untouched
  <1>2. pc'[p] = "open" /\ hash'[p] = source /\ texts'[p] = {source} /\ source' = source
    BY DEF HashSource, At, disk
  <1>3. (Hashed(p) /\ Writes(p) /\ Reads(p))'
    BY <1>2 DEF Hashed, Writes, Reads
  <1> QED
    BY <1>1, <1>3, Alone

LEMMA OpenCacheIInv ==
  ASSUME IInv, Typed', NEW p \in Processes, OpenCache(p) PROVE IInv'
  <1> USE DEF IInv, Typed, TypeOK
  <1>1. /\ file' = file /\ torn' = torn
        /\ \A q \in Processes \ {p} : Untouched(q) /\ rewriters'[q] = rewriters[q]
    BY DEF OpenCache, At, disk, bounds, history, Untouched
  <1>2. /\ pc[p] = "open" /\ pc'[p] \in {"source", "verify"} /\ size'[p] = Len(file)
        /\ hash'[p] = hash[p] /\ texts'[p] = texts[p] /\ got'[p] = <<>> /\ source' = source
    BY DEF OpenCache, At, disk, bounds, history
  <1>3. StartsAlike(p)'
    <2>1. Len(<<>>) = 0 /\ Len(file) \in Nat
      OBVIOUS
    <2> QED
      BY <1>1, <1>2, <2>1 DEF StartsAlike
  <1>4. (Hashed(p) /\ Writes(p) /\ Reads(p))'
    BY <1>2, <1>3 DEF Hashed, Writes, Reads
  <1> QED
    BY <1>1, <1>4, Alone

\* What With adds is the block of the file at that place.
LEMMA WithBlock ==
  ASSUME Typed, NEW p \in Processes, NEW i \in Nat \ {0}
  PROVE  \/ With(p, i) = got[p] /\ ~(i <= Len(file))
         \/ /\ i <= Len(file)
            /\ With(p, i) # got[p] /\ Len(With(p, i)) = Len(got[p]) + 1
            /\ \A j \in 1 .. Len(got[p]) : With(p, i)[j] = got[p][j]
            /\ With(p, i)[Len(got[p]) + 1] = file[i]
  <1>1. got[p] \in Seq(Cells) /\ file \in Seq(Cells)
    BY DEF Typed
  <1>2. CASE i <= Len(file)
    <2>1. i \in DOMAIN file /\ file[i] \in Cells
      BY <1>1, <1>2
    <2>2. With(p, i) = Append(got[p], file[i])
      BY <2>1 DEF With
    <2> QED
      BY <1>1, <1>2, <2>1, <2>2, AppendProperties
  <1>3. CASE ~(i <= Len(file))
    BY <1>1, <1>3 DEF With
  <1> QED
    BY <1>2, <1>3

LEMMA VerifyBlockIInv ==
  ASSUME IInv, Typed', NEW p \in Processes, VerifyBlock(p) PROVE IInv'
  <1> DEFINE blocks == With(p, Len(got[p]) + 1)
  <1>1. /\ file' = file /\ torn' = torn /\ rewriters' = rewriters
        /\ pc[p] = "verify" /\ hash'[p] = hash[p] /\ texts'[p] = texts[p] /\ source' = source
    BY DEF VerifyBlock, disk, bounds, history
  <1> DEFINE Ends(to) ==
               /\ pc' = [pc EXCEPT ![p] = to]
               /\ got' = [got EXCEPT ![p] = <<>>] /\ size' = [size EXCEPT ![p] = 0]
  <1>a. \/ blocks # got[p] /\ got' = [got EXCEPT ![p] = blocks] /\ UNCHANGED <<pc, size>>
        \/ Len(blocks) = size[p] /\ Verified(blocks) /\ Ends("head")
        \/ Ends("source")
    BY DEF VerifyBlock, ToSource
  <1>2. \A q \in Processes \ {p} : Untouched(q) /\ rewriters'[q] = rewriters[q]
    <2>1. UNCHANGED <<source, hash, text, texts, rewriters>>
      BY DEF VerifyBlock, disk, history
    <2> HIDE DEF blocks
    <2> QED
      BY <1>a, <2>1 DEF Untouched, IInv, Typed, TypeOK
  <1>3. \/ pc'[p] = "verify" /\ got'[p] = blocks /\ size'[p] = size[p] /\ blocks # got[p]
        \/ pc'[p] = "head" /\ got'[p] = <<>> /\ Len(blocks) = size[p] /\ Verified(blocks)
        \/ pc'[p] = "source"
    <2> HIDE DEF blocks
    <2> QED
      BY <1>1, <1>a DEF IInv, Typed, TypeOK
  <1>4. Hashed(p)'
    BY <1>1 DEF IInv, Hashed
  <1>5. Writes(p)'
    BY <1>3 DEF Writes
  <1>6. ASSUME rewriters[p] = {}
        PROVE  /\ Len(blocks) <= Len(file) /\ size[p] = Len(file)
               /\ \A i \in 1 .. Len(blocks) : blocks[i] = file[i]
    <2>1. StartsAlike(p)
      BY <1>1, <1>6 DEF IInv, Reads
    <2>2. Len(got[p]) \in Nat /\ Len(file) \in Nat
      BY DEF IInv, Typed
    <2>3. CASE blocks = got[p]
      BY <2>1, <2>3 DEF StartsAlike
    <2>4. CASE blocks # got[p]
      <3>1. /\ Len(got[p]) + 1 <= Len(file) /\ Len(blocks) = Len(got[p]) + 1
            /\ \A j \in 1 .. Len(got[p]) : blocks[j] = got[p][j]
            /\ blocks[Len(got[p]) + 1] = file[Len(got[p]) + 1]
        BY <2>2, <2>4, WithBlock DEF IInv
      <3> QED
        BY <2>1, <2>2, <3>1 DEF StartsAlike
    <2> QED
      BY <2>3, <2>4
  <1>7. ASSUME pc'[p] = "verify" /\ got'[p] = blocks /\ size'[p] = size[p] PROVE Reads(p)'
    BY <1>1, <1>6, <1>7 DEF Reads, StartsAlike
  <1>8. ASSUME pc'[p] = "head" /\ got'[p] = <<>> /\ Len(blocks) = size[p] /\ Verified(blocks) PROVE Reads(p)'
    <2>1. ASSUME rewriters[p] = {} PROVE blocks = file
      <3>1. blocks \in Seq(Cells) /\ file \in Seq(Cells) /\ Len(blocks) = Len(file)
        <4>1. Len(got[p]) + 1 \in Nat
          BY DEF IInv, Typed
        <4> QED
          BY <1>6, <1>8, <2>1, <4>1, WithShape DEF IInv, Typed
      <3> QED
        BY <1>6, <2>1, <3>1, SeqEqual
    <2>2. rewriters[p] = {} => IsImage'
      BY <1>1, <1>8, <2>1 DEF Verified, IsImage
    <2> QED
      BY <1>1, <1>8, <2>2 DEF Reads
  <1>9. ASSUME pc'[p] = "source" PROVE Reads(p)'
    BY <1>9 DEF Reads
  <1> QED
    BY <1>1, <1>2, <1>3, <1>4, <1>5, <1>7, <1>8, <1>9, Alone

LEMMA ReadHeadIInv ==
  ASSUME IInv, Typed', NEW p \in Processes, ReadHead(p) PROVE IInv'
  <1> DEFINE fits == file # <<>> /\ file[1].part = "head" /\ file[1].hash = hash[p]
  <1>1. /\ file' = file /\ torn' = torn /\ rewriters' = rewriters /\ got' = got
        /\ pc[p] = "head" /\ hash' = hash /\ texts' = texts /\ source' = source
    BY DEF ReadHead, At, disk, bounds, history
  <1>2. \A q \in Processes \ {p} : Untouched(q) /\ rewriters'[q] = rewriters[q]
    BY DEF ReadHead, At, disk, bounds, history, Untouched, IInv, Typed, TypeOK
  <1>3. \/ fits /\ pc'[p] = "code" /\ size'[p] = Blocks[file[1].text]
        \/ pc'[p] = "source"
    BY DEF ReadHead, At, IInv, Typed, TypeOK
  <1>4. Hashed(p)' /\ Writes(p)'
    BY <1>1, <1>3 DEF IInv, Hashed, Writes
  <1>5. ASSUME fits /\ pc'[p] = "code" /\ size'[p] = Blocks[file[1].text] PROVE Reads(p)'
    <2>1. ASSUME rewriters[p] = {} PROVE \E t \in Texts : ReadsFrom(p, t)'
      <3>1. PICK h \in Texts, t \in Texts : file = Image(h, t)
        BY <1>1, <2>1 DEF IInv, Reads, IsImage
      <3>a. file[1] = Block("head", h, t, 0)
        BY <3>1, ImageShape
      <3>2. h = hash[p] /\ Blocks[file[1].text] = Blocks[t]
        BY <1>5, <3>a DEF Block
      <3>3. got[p] = <<>> /\ Len(<<>>) = 0 /\ Blocks[t] \in Nat \ {0}
        BY <1>1, BytecodeShape DEF IInv, Typed
      <3> QED
        BY <1>1, <1>5, <3>1, <3>2, <3>3 DEF ReadsFrom
    <2> QED
      BY <1>1, <1>5, <2>1 DEF Reads
  <1>6. ASSUME pc'[p] = "source" PROVE Reads(p)'
    BY <1>6 DEF Reads
  <1> QED
    BY <1>1, <1>2, <1>3, <1>4, <1>5, <1>6, Alone

LEMMA ReadCodeIInv ==
  ASSUME IInv, Typed', NEW p \in Processes, ReadCode(p) PROVE IInv'
  <1> DEFINE n == Len(got[p])
             blocks == With(p, n + 2)
  <1>1. /\ file' = file /\ torn' = torn /\ rewriters' = rewriters
        /\ pc[p] = "code" /\ hash' = hash /\ texts' = texts /\ source' = source
    BY DEF ReadCode, disk, bounds, history
  <1>a. \/ /\ pc' = [pc EXCEPT ![p] = "source"]
           /\ got' = [got EXCEPT ![p] = <<>>] /\ size' = [size EXCEPT ![p] = 0]
        \/ /\ blocks # got[p] /\ got' = [got EXCEPT ![p] = blocks]
           /\ Len(blocks) < size[p] /\ UNCHANGED <<pc, size>>
        \/ /\ blocks # got[p] /\ got' = [got EXCEPT ![p] = blocks]
           /\ ~(Len(blocks) < size[p])
           /\ pc' = [pc EXCEPT ![p] = "loaded"] /\ size' = [size EXCEPT ![p] = 0]
    BY DEF ReadCode, ToSource
  <1>2. \A q \in Processes \ {p} : Untouched(q) /\ rewriters'[q] = rewriters[q]
    <2>1. UNCHANGED <<source, hash, text, texts, rewriters>>
      BY DEF ReadCode, disk, history
    <2> HIDE DEF blocks
    <2> QED
      BY <1>a, <2>1 DEF Untouched, IInv, Typed, TypeOK
  <1>3. \/ pc'[p] = "source"
        \/ /\ blocks # got[p] /\ got'[p] = blocks
           /\ \/ Len(blocks) < size[p] /\ pc'[p] = "code" /\ size'[p] = size[p]
              \/ ~(Len(blocks) < size[p]) /\ pc'[p] = "loaded"
    <2> HIDE DEF blocks
    <2> QED
      BY <1>1, <1>a DEF IInv, Typed, TypeOK
  <1>4. Hashed(p)' /\ Writes(p)'
    BY <1>1, <1>3 DEF IInv, Hashed, Writes
  <1>5. ASSUME pc'[p] = "source" PROVE Reads(p)'
    BY <1>5 DEF Reads
  <1>6. ASSUME blocks # got[p], rewriters[p] = {}
        PROVE  \E t \in Texts :
                 /\ file = Image(hash[p], t) /\ size[p] = Blocks[t]
                 /\ blocks \in Seq(Cells) /\ Len(blocks) = n + 1 /\ Len(blocks) <= Blocks[t]
                 /\ \A i \in 1 .. Len(blocks) : blocks[i] = Bytecode(t)[i]
    <2>1. PICK t \in Texts : ReadsFrom(p, t)
      BY <1>1, <1>6 DEF IInv, Reads
    <2>2. n \in Nat /\ n < Blocks[t] /\ Blocks[t] \in Nat \ {0}
      BY <2>1, BytecodeShape DEF IInv, Typed, ReadsFrom
    <2>3. /\ Len(blocks) = n + 1 /\ blocks[n + 1] = file[n + 2]
          /\ \A j \in 1 .. n : blocks[j] = got[p][j]
      <3>1. n + 2 \in Nat \ {0}
        BY <2>2
      <3> QED
        BY <1>6, <3>1, WithBlock DEF IInv
    <2>4. file[n + 2] = Bytecode(t)[n + 1]
      <3>1. hash[p] \in Texts
        BY <1>1 DEF IInv, Typed
      <3>2. n + 1 \in 1 .. Blocks[t] /\ (n + 1) + 1 = n + 2
        BY <2>2
      <3> QED
        BY <2>1, <3>1, <3>2, ImageShape DEF ReadsFrom
    <2>5. \A i \in 1 .. n + 1 : blocks[i] = Bytecode(t)[i]
      BY <2>1, <2>2, <2>3, <2>4 DEF ReadsFrom
    <2>6. blocks \in Seq(Cells)
      <3>1. n + 2 \in Nat
        BY <2>2
      <3> QED
        BY <3>1, WithShape DEF IInv
    <2> HIDE DEF blocks
    <2> QED
      BY <2>1, <2>2, <2>3, <2>5, <2>6 DEF ReadsFrom
  <1>7. ASSUME blocks # got[p], got'[p] = blocks,
               Len(blocks) < size[p], pc'[p] = "code", size'[p] = size[p]
        PROVE  Reads(p)'
    <2>1. ASSUME rewriters[p] = {} PROVE \E t \in Texts : ReadsFrom(p, t)'
      BY <1>1, <1>6, <1>7, <2>1 DEF ReadsFrom
    <2> QED
      BY <1>1, <1>7, <2>1 DEF Reads
  <1>8. ASSUME blocks # got[p], got'[p] = blocks, ~(Len(blocks) < size[p]), pc'[p] = "loaded"
        PROVE  Reads(p)'
    <2>1. ASSUME rewriters[p] = {} PROVE \E t \in Texts \ Broken : Runs(p, t)'
      <3>1. PICK t \in Texts :
              /\ file = Image(hash[p], t) /\ size[p] = Blocks[t]
              /\ blocks \in Seq(Cells) /\ Len(blocks) <= Blocks[t]
              /\ \A i \in 1 .. Len(blocks) : blocks[i] = Bytecode(t)[i]
        BY <1>6, <1>8, <2>1
      <3>2. Len(blocks) = Blocks[t]
        BY <1>8, <3>1, BytecodeShape
      <3>3. blocks = Bytecode(t)
        BY <3>1, <3>2, BytecodeShape, SeqEqual
      <3>4. hash[p] \in texts[p] /\ hash[p] \in Texts
        BY <1>1 DEF IInv, Typed, Hashed
      <3>5. t \notin Broken /\ MayHaveRead(hash[p], t)
        <4>1. file[1] = Block("head", hash[p], t, 0) /\ 1 \in DOMAIN file
          BY <3>1, <3>4, ImageShape, BytecodeShape
        <4>2. Owned(file[1])
          BY <4>1 DEF IInv, HeadersOwned
        <4> QED
          BY <4>1, <4>2 DEF Owned, Block
      <3> QED
        BY <1>1, <1>8, <3>3, <3>4, <3>5 DEF Runs, MayHaveRead
    <2> QED
      BY <1>1, <1>8, <2>1 DEF Reads
  <1> QED
    BY <1>1, <1>2, <1>3, <1>4, <1>5, <1>7, <1>8, Alone

LEMMA TranslateIInv ==
  ASSUME IInv, Typed', NEW p \in Processes, Translate(p) PROVE IInv'
  <1>1. /\ file' = file /\ torn \subseteq torn'
        /\ UNCHANGED <<source, hash, size, texts, rewriters>>
        /\ pc[p] = "source" /\ pc' = [pc EXCEPT ![p] = "create"]
        /\ text' = [text EXCEPT ![p] = source] /\ got' = [got EXCEPT ![p] = Bytecode(source)]
        /\ MayHaveRead(hash[p], source)'
    BY DEF Translate, At, disk, bounds, MayHaveRead
  <1>2. \A q \in Processes \ {p} : Untouched(q) /\ rewriters'[q] = rewriters[q]
    BY <1>1 DEF Untouched, IInv, Typed, TypeOK
  <1>3. pc'[p] = "create" /\ text'[p] = source /\ got'[p] = Bytecode(source)
    BY <1>1 DEF IInv, Typed, TypeOK
  <1>4. hash[p] \in texts[p] /\ source \in texts[p]
    BY <1>1 DEF IInv, Hashed
  <1>5. Hashed(p)' /\ Reads(p)'
    BY <1>1, <1>3, <1>4 DEF Hashed, Reads
  <1>6. Writes(p)'
    BY <1>1, <1>3, <1>4 DEF Writes, MayHaveRead
  <1> QED
    BY <1>1, <1>2, <1>5, <1>6, Alone

\* Fails, Done and Crash: the load is over.
LEMMA OverIInv ==
  ASSUME IInv, Typed', NEW p \in Processes, Fails(p) \/ Done(p) \/ Crash(p) PROVE IInv'
  <1>1. /\ pc' = [pc EXCEPT ![p] = "idle"] /\ Reset(p)
        /\ hash' = [hash EXCEPT ![p] = "none"] /\ texts' = [texts EXCEPT ![p] = {}]
        /\ UNCHANGED <<disk, bounds, torn>>
    BY DEF Fails, Done, Crash, At
  <1>2. \A q \in Processes \ {p} : Untouched(q) /\ rewriters'[q] = rewriters[q]
    BY <1>1 DEF Untouched, Reset, disk, IInv, Typed, TypeOK
  <1>3. pc'[p] = "idle"
    BY <1>1 DEF IInv, Typed, TypeOK
  <1>4. (Hashed(p) /\ Writes(p) /\ Reads(p))'
    BY <1>3 DEF Hashed, Writes, Reads
  <1> QED
    BY <1>1, <1>2, <1>4, Alone DEF disk

\* What a load runs that wrote, or failed to write, the cache.
LEMMA ClosedRuns ==
  ASSUME IInv, Typed', NEW p \in Processes, pc[p] \in {"create", "write"}, Closed(p),
         UNCHANGED <<source, hash, got, texts, torn>>
  PROVE  (Hashed(p) /\ Writes(p) /\ Reads(p))'
  <1>1. pc'[p] = "loaded"
    BY DEF Closed, IInv, Typed, TypeOK
  <1>2. Hashed(p)'
    BY DEF IInv, Hashed
  <1>3. Writes(p)'
    BY <1>1 DEF Writes
  <1>4. Reads(p)'
    <2>1. PICK t \in Texts \ Broken : got[p] = Bytecode(t) /\ t \in texts[p]
      BY DEF IInv, Writes, Typed, TypeOK
    <2>2. Runs(p, t)'
      BY <2>1 DEF Runs
    <2> QED
      BY <1>1, <2>2 DEF Reads
  <1> QED
    BY <1>2, <1>3, <1>4

LEMMA NotWrittenIInv ==
  ASSUME IInv, Typed', NEW p \in Processes, NotWritten(p) PROVE IInv'
  <1>1. /\ file' = file /\ torn' = torn /\ Closed(p) /\ pc[p] \in {"create", "write"}
        /\ UNCHANGED <<source, hash, size, got, texts, rewriters>>
    BY DEF NotWritten, disk, history
  <1>2. \A q \in Processes \ {p} : Untouched(q) /\ rewriters'[q] = rewriters[q]
    BY <1>1 DEF Untouched, Closed, IInv, Typed, TypeOK
  <1>3. (Hashed(p) /\ Writes(p) /\ Reads(p))'
    BY <1>1, ClosedRuns
  <1> QED
    BY <1>1, <1>2, <1>3, Alone

\* The steps of p that change the file.
LEMMA Rewriting ==
  ASSUME IInv, NEW p \in Processes, Rewrites(p), torn' = torn,
         \A q \in Processes \ {p} : Untouched(q)
  PROVE  \A q \in Processes \ {p} : (Hashed(q) /\ Writes(q) /\ Reads(q))'
  <1> SUFFICES ASSUME NEW q \in Processes \ {p} PROVE (Hashed(q) /\ Writes(q) /\ Reads(q))'
    OBVIOUS
  <1>1. rewriters'[q] = IF pc[q] \in Reading THEN rewriters[q] \cup {p} ELSE rewriters[q]
    BY DEF Rewrites, Reading
  <1>2. rewriters'[q] # {} \/ (pc[q] \notin Reading /\ rewriters'[q] = rewriters[q])
    BY <1>1
  <1> QED
    BY <1>2, Bystander DEF IInv

LEMMA CreateIInv ==
  ASSUME IInv, Typed', NEW p \in Processes, Create(p) PROVE IInv'
  <1>1. /\ pc[p] = "create" /\ pc' = [pc EXCEPT ![p] = "write"] /\ file' = <<>> /\ Rewrites(p)
        /\ UNCHANGED <<source, hash, size, got, text, texts, torn>>
    BY DEF Create, At
  <1>2. \A q \in Processes \ {p} : Untouched(q)
    BY <1>1 DEF Untouched, IInv, Typed, TypeOK
  <1>3. pc'[p] = "write"
    BY <1>1 DEF IInv, Typed, TypeOK
  <1>4. (Hashed(p) /\ Writes(p) /\ Reads(p))'
    BY <1>1, <1>3 DEF IInv, Hashed, Writes, Reads, MayHaveRead
  <1>5. HeadersOwned'
    BY <1>1 DEF HeadersOwned
  <1> QED
    BY <1>1, <1>2, <1>4, <1>5, Rewriting DEF IInv

LEMMA WriteIInv ==
  ASSUME IInv, Typed', NEW p \in Processes, Write(p) PROVE IInv'
  <1> DEFINE image == Image(hash[p], text[p])
             i == out[p] + 1
             n == IF i > Len(file) THEN i ELSE Len(file)
  <1>1. /\ pc[p] = "write" /\ Rewrites(p)
        /\ UNCHANGED <<source, hash, size, got, texts, torn>>
        /\ file' = [j \in 1 .. n |->
                      IF j = i THEN image[i] ELSE IF j \in DOMAIN file THEN file[j] ELSE Hole]
        /\ \/ i = Len(image) /\ Closed(p)
           \/ UNCHANGED <<pc, text>>
    BY DEF Write
  <1>2. \A q \in Processes \ {p} : Untouched(q)
    BY <1>1 DEF Untouched, Closed, IInv, Typed, TypeOK
  <1>3. (Hashed(p) /\ Writes(p) /\ Reads(p))'
    <2>1. CASE Closed(p)
      BY <1>1, <2>1, ClosedRuns
    <2>2. CASE UNCHANGED <<pc, text>>
      BY <1>1, <2>2 DEF IInv, Hashed, Writes, Reads, MayHaveRead
    <2> QED
      BY <1>1, <2>1, <2>2
  <1>4. HeadersOwned'
    <2>1. /\ hash[p] \in Texts /\ text[p] \in Texts \ Broken /\ MayHaveRead(hash[p], text[p])
          /\ i \in 1 .. Len(image)
      BY <1>1 DEF IInv, Typed, TypeOK, Writes
    <2>2. Owned(image[i])
      <3>1. CASE i = 1
        <4>1. image[1] = Block("head", hash[p], text[p], 0)
          BY <2>1, ImageShape
        <4> QED
          BY <2>1, <3>1, <4>1 DEF Owned, Block
      <3>2. CASE i # 1
        <4>1. i \in 2 .. Blocks[text[p]] + 2
          BY <2>1, <3>2, ImageShape, BytecodeShape
        <4>2. image[i].part \in {"code", "foot"}
          BY <2>1, <4>1, ImageShape
        <4> QED
          BY <4>2 DEF Owned
      <3> QED
        BY <3>1, <3>2
    <2>3. Owned(Hole)
      BY DEF Owned, Hole, Block
    <2>4. \A j \in DOMAIN file : Owned(file[j])
      BY DEF IInv, HeadersOwned
    <2> HIDE DEF image, i, n
    <2>5. \A j \in DOMAIN file' :
            file'[j] = image[i] \/ (j \in DOMAIN file /\ file'[j] = file[j]) \/ file'[j] = Hole
      BY <1>1
    <2>6. \A j \in DOMAIN file' : Owned(file'[j])
      BY <2>2, <2>3, <2>4, <2>5
    <2> QED
      BY <1>1, <2>6 DEF HeadersOwned, Owned, MayHaveRead
  <1> QED
    BY <1>1, <1>2, <1>3, <1>4, Rewriting DEF IInv

LEMMA EditIInv ==
  ASSUME IInv, Typed', Edit PROVE IInv'
  <1>1. UNCHANGED <<file, pc, hash, size, got, text, rewriters, torn>>
    BY DEF Edit
  <1>2. \A q \in Processes : Untouched(q)
    BY <1>1 DEF Edit, Untouched
  <1>3. \A q \in Processes : (Hashed(q) /\ Writes(q) /\ Reads(q))'
    BY <1>1, <1>2, Bystander DEF IInv
  <1>4. HeadersOwned'
    BY <1>1 DEF IInv, HeadersOwned, Owned, MayHaveRead
  <1> QED
    BY <1>3, <1>4 DEF IInv

(***************************************************************************)
(* One step per action.                                                    *)
(***************************************************************************)
LEMMA NextIInv == IInv /\ [Next]_vars => IInv'
  <1> SUFFICES ASSUME IInv, [Next]_vars PROVE IInv'
    OBVIOUS
  <1>1. Typed'
    BY NextTyped DEF IInv
  <1>2. CASE UNCHANGED vars
    <2>1. UNCHANGED <<disk, pc, hash, size, got, text, history>>
      BY <1>2 DEF vars
    <2>2. \A q \in Processes : (Hashed(q) /\ Writes(q) /\ Reads(q))'
      BY <2>1, Bystander DEF IInv, Untouched, disk, history
    <2>3. HeadersOwned'
      BY <2>1 DEF IInv, HeadersOwned, Owned, MayHaveRead, disk, history
    <2> QED
      BY <1>1, <2>2, <2>3 DEF IInv
  <1>3. ASSUME NEW p \in Processes, load_argon_file(p) \/ Done(p) \/ Crash(p) PROVE IInv'
    BY <1>1, <1>3, HashSourceIInv, OpenCacheIInv, VerifyBlockIInv, ReadHeadIInv, ReadCodeIInv,
       TranslateIInv, OverIInv, CreateIInv, WriteIInv, NotWrittenIInv
    DEF load_argon_file, load_cache
  <1>4. CASE Edit
    BY <1>1, <1>4, EditIInv
  <1> QED
    BY <1>2, <1>3, <1>4 DEF Next

THEOREM Invariant == Spec => []IInv
  BY InitIInv, NextIInv, PTL DEF Spec

-------------------------------------------------------------------------------
(***************************************************************************)
(* The variables keep their types, a load never holds more blocks than it  *)
(* expects, and one that writes has blocks left to write.                  *)
(***************************************************************************)
THEOREM TypeCorrect == Spec => []TypeOK
  <1>1. IInv => TypeOK
    BY DEF IInv, Typed
  <1> QED
    BY Invariant, <1>1, PTL

(***************************************************************************)
(* What load_argon_file runs is the whole bytecode of one text, whatever   *)
(* processes crashed while they wrote the cache, unless the file was       *)
(* written while the load read it.                                         *)
(***************************************************************************)
THEOREM RunsWhole == Spec => []WholeUnlessRewritten
  <1>1. IInv => WholeUnlessRewritten
    BY DEF IInv, Reads, Runs, WholeUnlessRewritten, Loaded
  <1> QED
    BY Invariant, <1>1, PTL

(***************************************************************************)
(* load_cache never lets a load run a text that the source has not had     *)
(* since the load began, unless some load had hashed one text and read     *)
(* another, or the file was written while it was read.                     *)
(***************************************************************************)
THEOREM RunsFresh == Spec => []FreshUnlessTorn
  <1>1. ASSUME IInv, NEW p \in Processes, NEW t \in Texts, Loaded(p), got[p] = Bytecode(t)
        PROVE  t \in texts[p] \/ <<hash[p], t>> \in torn \/ rewriters[p] # {}
    <2>1. CASE rewriters[p] = {}
      <3>1. PICK u \in Texts \ Broken : Runs(p, u)
        BY <1>1, <2>1 DEF IInv, Reads, Loaded
      <3>2. u = t
        BY <1>1, <3>1, BytecodeInjective DEF Runs
      <3> QED
        BY <3>1, <3>2 DEF Runs
    <2> QED
      BY <2>1
  <1>2. IInv => FreshUnlessTorn
    BY <1>1 DEF FreshUnlessTorn
  <1> QED
    BY Invariant, <1>2, PTL

-------------------------------------------------------------------------------
(***************************************************************************)
(* A source that nobody edits.  Every cache is then an image of it, whole  *)
(* or with holes, and the question is whether a hole can come to lie where *)
(* a load has verified the file.                                           *)
(***************************************************************************)
Steady == Image(source, source)
Fits(b, i) == b = Hole \/ b = Steady[i]
FileFits == \A i \in DOMAIN file : i <= Blocks[source] + 2 /\ Fits(file[i], i)

\* The only process that has changed the file since p opened it began it anew.
OneRewriter(p) == \A q, r \in rewriters[p] : q = r
Anew(p) ==
  /\ rewriters[p] # {}
  /\ \A i \in DOMAIN file : file[i] # Hole
  /\ \A q \in rewriters[p] : pc[q] = "write" => out[q] = Len(file)

\* It has not: what p has read without a hole is there without one.
KeptSoFar(p) ==
  /\ Len(got[p]) <= Len(file) /\ size[p] <= Len(file)
  /\ \A i \in 1 .. Len(got[p]) : got[p][i] # Hole => file[i] # Hole
Kept == Blocks[source] + 2 <= Len(file) /\ \A i \in 1 .. Blocks[source] + 2 : file[i] # Hole

ReadsSteadily(p) ==
  OneRewriter(p) =>
    /\ pc[p] = "verify" => /\ \A i \in 1 .. Len(got[p]) : Fits(got[p][i], i)
                           /\ KeptSoFar(p) \/ Anew(p)
    /\ pc[p] = "head" => got[p] = <<>> /\ (Kept \/ Anew(p))
    /\ pc[p] = "code" => /\ size[p] = Blocks[source] /\ Len(got[p]) < size[p]
                         /\ \A i \in 1 .. Len(got[p]) : got[p][i] = Bytecode(source)[i]
                         /\ Kept \/ Anew(p)
    /\ pc[p] = "loaded" => got[p] = Bytecode(source)

OfSource(p) ==
  /\ pc[p] # "idle" => hash[p] = source
  /\ pc[p] \in {"create", "write"} => text[p] = source

AllSteady ==
  /\ source \in Texts \ Broken /\ FileFits
  /\ \A p \in Processes : OfSource(p) /\ ReadsSteadily(p)

SteadyInv == edits \in Nat /\ (edits = 0 => AllSteady)

LEMMA NoHoleInImage ==
  ASSUME NEW h \in Texts, NEW t \in Texts, NEW i \in 1 .. Blocks[t] + 2
  PROVE  Image(h, t)[i] # Hole
  <1>1. Hole.part = "hole"
    BY DEF Hole, Block
  <1>2. CASE i = 1
    <2>1. Image(h, t)[1].part = "head"
      <3>1. Image(h, t)[1] = Block("head", h, t, 0)
        BY ImageShape
      <3> QED
        BY <3>1 DEF Block
    <2> QED
      BY <1>1, <1>2, <2>1
  <1>3. CASE i # 1
    <2>1. i \in 2 .. Blocks[t] + 2
      BY <1>3, BytecodeShape
    <2>2. Image(h, t)[i].part \in {"code", "foot"}
      BY <2>1, ImageShape
    <2> QED
      BY <1>1, <2>2
  <1> QED
    BY <1>2, <1>3

LEMMA SteadyShape ==
  ASSUME source \in Texts
  PROVE  /\ Blocks[source] \in Nat \ {0}
         /\ Steady \in Seq(Cells) /\ Len(Steady) = Blocks[source] + 2
         /\ Steady[1] = Block("head", source, source, 0)
         /\ \A i \in 1 .. Blocks[source] : Steady[i + 1] = Bytecode(source)[i]
         /\ \A i \in 1 .. Blocks[source] + 2 : Steady[i] # Hole
  BY BytecodeShape, ImageShape, NoHoleInImage DEF Steady

(***************************************************************************)
(* The steps that leave the file alone.                                    *)
(***************************************************************************)
WritersStay == \A a \in Processes : pc'[a] = "write" => pc[a] = "write" /\ out'[a] = out[a]

LEMMA FileLasts ==
  ASSUME Typed, NEW q \in Processes, file' = file, source' = source, WritersStay,
         rewriters'[q] = rewriters[q]
  PROVE  /\ OneRewriter(q)' => OneRewriter(q)
         /\ Kept => Kept'
         /\ Anew(q) => Anew(q)'
  <1>1. rewriters[q] \subseteq Processes
    BY DEF Typed
  <1>2. Anew(q) => Anew(q)'
    BY <1>1 DEF Anew, WritersStay
  <1> QED
    BY <1>2 DEF OneRewriter, Kept

LEMMA SteadyBystander ==
  ASSUME Typed, NEW q \in Processes, ReadsSteadily(q), file' = file, source' = source, WritersStay,
         rewriters'[q] = rewriters[q], Untouched(q)
  PROVE  ReadsSteadily(q)'
  <1>1. /\ OneRewriter(q)' => OneRewriter(q)
        /\ Kept => Kept'
        /\ Anew(q) => Anew(q)'
    BY FileLasts
  <1>2. KeptSoFar(q) => KeptSoFar(q)'
    BY DEF KeptSoFar, Untouched
  <1>3. \A i : Fits(got[q][i], i) => Fits(got[q][i], i)'
    BY DEF Fits, Steady, Untouched
  <1> QED
    BY <1>1, <1>2, <1>3 DEF ReadsSteadily, Untouched

LEMMA SteadyAlone ==
  ASSUME Typed, AllSteady, NEW p \in Processes, file' = file, source' = source, WritersStay,
         \A q \in Processes \ {p} : Untouched(q) /\ rewriters'[q] = rewriters[q],
         OfSource(p)', ReadsSteadily(p)'
  PROVE  AllSteady'
  <1>1. FileFits'
    BY DEF AllSteady, FileFits, Fits, Steady
  <1>2. ASSUME NEW q \in Processes \ {p} PROVE OfSource(q)' /\ ReadsSteadily(q)'
    <2>1. OfSource(q)'
      BY DEF AllSteady, OfSource, Untouched
    <2> QED
      BY <2>1, SteadyBystander DEF AllSteady
  <1> QED
    BY <1>1, <1>2 DEF AllSteady

LEMMA OpenCacheSteady ==
  ASSUME Typed, Typed', AllSteady, NEW p \in Processes, OpenCache(p) PROVE AllSteady'
  <1> USE DEF Typed, TypeOK
  <1>1. /\ file' = file /\ source' = source /\ WritersStay
        /\ \A q \in Processes \ {p} : Untouched(q) /\ rewriters'[q] = rewriters[q]
    BY DEF OpenCache, At, disk, bounds, history, Untouched, WritersStay
  <1>2. /\ pc[p] = "open" /\ pc'[p] \in {"source", "verify"} /\ size'[p] = Len(file)
        /\ hash'[p] = hash[p] /\ got'[p] = <<>>
    BY DEF OpenCache, At, disk, bounds, history
  <1>3. OfSource(p)'
    BY <1>1, <1>2 DEF AllSteady, OfSource
  <1>4. Len(<<>>) = 0 /\ Len(file) \in Nat
    OBVIOUS
  <1>5. KeptSoFar(p)'
    BY <1>1, <1>2, <1>4 DEF KeptSoFar
  <1>6. ReadsSteadily(p)'
    BY <1>2, <1>4, <1>5 DEF ReadsSteadily
  <1> QED
    BY <1>1, <1>3, <1>6, SteadyAlone

LEMMA VerifyBlockSteady ==
  ASSUME Typed, Typed', AllSteady, NEW p \in Processes, VerifyBlock(p) PROVE AllSteady'
  <1> DEFINE n == Len(got[p])
             blocks == With(p, n + 1)
             Ends(to) ==
               /\ pc' = [pc EXCEPT ![p] = to]
               /\ got' = [got EXCEPT ![p] = <<>>] /\ size' = [size EXCEPT ![p] = 0]
  <1>1. /\ file' = file /\ pc[p] = "verify"
        /\ UNCHANGED <<source, hash, text, out, texts, rewriters>>
    BY DEF VerifyBlock, disk, history
  <1>2. \/ got' = [got EXCEPT ![p] = blocks] /\ UNCHANGED <<pc, size>>
        \/ Len(blocks) = size[p] /\ Verified(blocks) /\ Ends("head")
        \/ Ends("source")
    BY DEF VerifyBlock, ToSource
  <1>3. blocks \in Seq(Cells) /\ n \in Nat /\ Len(blocks) \in Nat
    <2>1. n \in Nat
      BY DEF Typed
    <2>2. blocks \in Seq(Cells)
      BY <2>1, WithShape
    <2> QED
      BY <2>1, <2>2
  <1>4. \/ blocks = got[p]
        \/ /\ n + 1 <= Len(file) /\ Len(blocks) = n + 1
           /\ \A j \in 1 .. n : blocks[j] = got[p][j]
           /\ blocks[n + 1] = file[n + 1]
    BY <1>3, WithBlock
  <1> HIDE DEF blocks
  <1>5. /\ WritersStay
        /\ \A q \in Processes \ {p} : Untouched(q) /\ rewriters'[q] = rewriters[q]
    BY <1>1, <1>2 DEF Untouched, WritersStay, Typed, TypeOK
  <1>6. \/ pc'[p] = "verify" /\ got'[p] = blocks /\ size'[p] = size[p]
        \/ pc'[p] = "head" /\ got'[p] = <<>> /\ Len(blocks) = size[p] /\ Verified(blocks)
        \/ pc'[p] = "source"
    BY <1>1, <1>2 DEF Typed, TypeOK
  <1>7. OfSource(p)'
    BY <1>1, <1>6 DEF AllSteady, OfSource
  <1>8. ASSUME OneRewriter(p) PROVE \A i \in 1 .. Len(blocks) : Fits(blocks[i], i)
    <2>1. \A i \in 1 .. n : Fits(got[p][i], i)
      BY <1>1, <1>8 DEF AllSteady, ReadsSteadily
    <2>2. CASE blocks = got[p]
      BY <2>1, <2>2
    <2>3. CASE blocks # got[p]
      <3>1. n + 1 \in DOMAIN file
        BY <1>3, <1>4, <2>3 DEF Typed
      <3>2. Fits(file[n + 1], n + 1)
        BY <3>1 DEF AllSteady, FileFits
      <3>3. \A i \in 1 .. n + 1 : i \in 1 .. n \/ i = n + 1
        BY <1>3
      <3> QED
        BY <1>4, <2>1, <2>3, <3>2, <3>3
    <2> QED
      BY <2>2, <2>3
  <1>9. ASSUME KeptSoFar(p)
        PROVE  /\ Len(blocks) <= Len(file) /\ size[p] <= Len(file)
               /\ \A i \in 1 .. Len(blocks) : blocks[i] # Hole => file[i] # Hole
    <2>1. CASE blocks = got[p]
      BY <1>9, <2>1 DEF KeptSoFar
    <2>2. CASE blocks # got[p]
      <3>1. \A i \in 1 .. n + 1 : i \in 1 .. n \/ i = n + 1
        BY <1>3
      <3> QED
        BY <1>4, <1>9, <2>2, <3>1 DEF KeptSoFar
    <2> QED
      BY <2>1, <2>2
  <1>10. OneRewriter(p)' => OneRewriter(p) /\ (KeptSoFar(p) \/ Anew(p))
    BY <1>1 DEF OneRewriter, AllSteady, ReadsSteadily
  <1>11. Anew(p) => Anew(p)'
    BY <1>1, <1>5, FileLasts
  <1>12. ASSUME pc'[p] = "verify" /\ got'[p] = blocks /\ size'[p] = size[p]
         PROVE  ReadsSteadily(p)'
    <2>1. KeptSoFar(p) => KeptSoFar(p)'
      BY <1>1, <1>9, <1>12 DEF KeptSoFar
    <2>2. \A i : Fits(blocks[i], i) => Fits(got[p][i], i)'
      BY <1>1, <1>12 DEF Fits, Steady
    <2> QED
      BY <1>8, <1>10, <1>11, <1>12, <2>1, <2>2 DEF ReadsSteadily
  <1>13. ASSUME pc'[p] = "head" /\ got'[p] = <<>> /\ Len(blocks) = size[p] /\ Verified(blocks)
         PROVE  ReadsSteadily(p)'
    <2>1. ASSUME KeptSoFar(p), OneRewriter(p) PROVE Kept'
      <3>1. PICK h \in Texts, t \in Texts : blocks = Image(h, t)
        BY <1>13 DEF Verified
      <3>2. /\ Len(blocks) = Blocks[t] + 2 /\ blocks[1] = Block("head", h, t, 0)
            /\ Blocks[t] \in Nat \ {0}
        BY <3>1, ImageShape, BytecodeShape
      <3>3. \A i \in 1 .. Blocks[t] + 2 : blocks[i] # Hole
        BY <3>1, NoHoleInImage
      <3>4. t = source
        <4>1. Fits(blocks[1], 1) /\ blocks[1] # Hole
          BY <1>8, <2>1, <3>2, <3>3
        <4>2. blocks[1] = Block("head", source, source, 0)
          BY <4>1, SteadyShape DEF Fits, AllSteady
        <4> QED
          BY <3>2, <4>2 DEF Block
      <3>5. Kept
        BY <1>9, <2>1, <3>2, <3>3, <3>4 DEF Kept
      <3> QED
        BY <1>1, <3>5 DEF Kept
    <2> QED
      BY <1>10, <1>11, <1>13, <2>1 DEF ReadsSteadily
  <1>14. ASSUME pc'[p] = "source" PROVE ReadsSteadily(p)'
    BY <1>14 DEF ReadsSteadily
  <1> QED
    BY <1>1, <1>5, <1>6, <1>7, <1>12, <1>13, <1>14, SteadyAlone

LEMMA ReadHeadSteady ==
  ASSUME Typed, Typed', AllSteady, NEW p \in Processes, ReadHead(p) PROVE AllSteady'
  <1> DEFINE fits == file # <<>> /\ file[1].part = "head" /\ file[1].hash = hash[p]
  <1>1. /\ file' = file /\ pc[p] = "head"
        /\ UNCHANGED <<source, hash, got, text, out, texts, rewriters>>
    BY DEF ReadHead, At, disk, history
  <1>2. /\ WritersStay
        /\ \A q \in Processes \ {p} : Untouched(q) /\ rewriters'[q] = rewriters[q]
    BY DEF ReadHead, At, disk, history, Untouched, WritersStay, Typed, TypeOK
  <1>3. \/ fits /\ pc'[p] = "code" /\ size'[p] = Blocks[file[1].text]
        \/ pc'[p] = "source"
    BY DEF ReadHead, At, Typed, TypeOK
  <1>4. OfSource(p)'
    BY <1>1, <1>3 DEF AllSteady, OfSource
  <1>5. ASSUME fits /\ pc'[p] = "code" /\ size'[p] = Blocks[file[1].text]
        PROVE  ReadsSteadily(p)'
    <2>1. 1 \in DOMAIN file /\ file[1].part = "head"
      BY <1>5 DEF Typed
    <2>2. file[1] = Hole \/ file[1] = Steady[1]
      BY <2>1 DEF AllSteady, FileFits, Fits
    <2>3. file[1].text = source
      BY <2>1, <2>2, SteadyShape DEF Hole, Block, AllSteady
    <2>4. got[p] = <<>> /\ Len(<<>>) = 0 /\ Blocks[source] \in Nat \ {0}
      BY <1>1, SteadyShape DEF Typed, AllSteady
    <2>5. OneRewriter(p)' => (Kept \/ Anew(p))'
      BY <1>1, <1>2, FileLasts DEF AllSteady, ReadsSteadily
    <2> QED
      BY <1>1, <1>5, <2>3, <2>4, <2>5 DEF ReadsSteadily
  <1>6. ASSUME pc'[p] = "source" PROVE ReadsSteadily(p)'
    BY <1>6 DEF ReadsSteadily
  <1> QED
    BY <1>1, <1>2, <1>3, <1>4, <1>5, <1>6, SteadyAlone

LEMMA ReadCodeSteady ==
  ASSUME Typed, Typed', AllSteady, NEW p \in Processes, ReadCode(p) PROVE AllSteady'
  <1> DEFINE n == Len(got[p])
             blocks == With(p, n + 2)
  <1>1. /\ file' = file /\ pc[p] = "code"
        /\ UNCHANGED <<source, hash, text, out, texts, rewriters>>
    BY DEF ReadCode, disk, history
  <1>2. \/ /\ pc' = [pc EXCEPT ![p] = "source"]
           /\ got' = [got EXCEPT ![p] = <<>>] /\ size' = [size EXCEPT ![p] = 0]
        \/ /\ blocks # got[p] /\ got' = [got EXCEPT ![p] = blocks]
           /\ Len(blocks) < size[p] /\ UNCHANGED <<pc, size>>
        \/ /\ blocks # got[p] /\ got' = [got EXCEPT ![p] = blocks]
           /\ ~(Len(blocks) < size[p])
           /\ pc' = [pc EXCEPT ![p] = "loaded"] /\ size' = [size EXCEPT ![p] = 0]
    BY DEF ReadCode, ToSource
  <1>3. n \in Nat /\ n + 2 \in Nat \ {0} /\ blocks \in Seq(Cells) /\ Len(blocks) \in Nat
    <2>1. n \in Nat /\ n + 2 \in Nat \ {0} /\ n + 2 \in Nat
      BY DEF Typed
    <2>2. blocks \in Seq(Cells)
      BY <2>1, WithShape
    <2> QED
      BY <2>1, <2>2
  <1>4. blocks # got[p] =>
          /\ n + 2 <= Len(file) /\ Len(blocks) = n + 1
          /\ \A j \in 1 .. n : blocks[j] = got[p][j]
          /\ blocks[n + 1] = file[n + 2]
    BY <1>3, WithBlock
  <1> HIDE DEF blocks
  <1>5. /\ WritersStay
        /\ \A q \in Processes \ {p} : Untouched(q) /\ rewriters'[q] = rewriters[q]
    BY <1>1, <1>2 DEF Untouched, WritersStay, Typed, TypeOK
  <1>6. \/ pc'[p] = "source"
        \/ /\ blocks # got[p] /\ got'[p] = blocks
           /\ \/ Len(blocks) < size[p] /\ pc'[p] = "code" /\ size'[p] = size[p]
              \/ ~(Len(blocks) < size[p]) /\ pc'[p] = "loaded"
    BY <1>1, <1>2 DEF Typed, TypeOK
  <1>7. OfSource(p)'
    BY <1>1, <1>6 DEF AllSteady, OfSource
  <1>8. ASSUME pc'[p] = "source" PROVE ReadsSteadily(p)'
    BY <1>8 DEF ReadsSteadily
  <1>9. ASSUME OneRewriter(p)'
        PROVE  /\ size[p] = Blocks[source] /\ n < size[p]
               /\ \A i \in 1 .. n : got[p][i] = Bytecode(source)[i]
               /\ Kept \/ Anew(p)
               /\ (Kept \/ Anew(p))'
    <2>1. OneRewriter(p) /\ (Kept => Kept') /\ (Anew(p) => Anew(p)')
      BY <1>1, <1>5, <1>9, FileLasts
    <2> QED
      BY <1>1, <2>1 DEF AllSteady, ReadsSteadily
  <1>10. ASSUME OneRewriter(p)', blocks # got[p]
         PROVE  /\ Len(blocks) = n + 1
                /\ \A i \in 1 .. n + 1 : blocks[i] = Bytecode(source)[i]
    <2>1. Blocks[source] \in Nat \ {0}
      BY SteadyShape DEF AllSteady
    <2>2. n + 2 \in DOMAIN file /\ n + 1 \in 1 .. Blocks[source] /\ n + 2 \in 1 .. Blocks[source] + 2
      BY <1>3, <1>4, <1>9, <1>10, <2>1 DEF Typed
    <2>3. file[n + 2] # Hole
      BY <1>9, <1>10, <2>2 DEF Kept, Anew
    <2>4. file[n + 2] = Steady[n + 2]
      BY <2>2, <2>3 DEF AllSteady, FileFits, Fits
    <2>5. (n + 1) + 1 = n + 2
      BY <1>3
    <2>6. Steady[n + 2] = Bytecode(source)[n + 1]
      BY <2>2, <2>5, SteadyShape DEF AllSteady
    <2>7. \A i \in 1 .. n + 1 : i \in 1 .. n \/ i = n + 1
      BY <1>3
    <2> QED
      BY <1>4, <1>9, <1>10, <2>4, <2>6, <2>7
  <1>11. ASSUME blocks # got[p], got'[p] = blocks, Len(blocks) < size[p], pc'[p] = "code",
                size'[p] = size[p]
         PROVE  ReadsSteadily(p)'
    BY <1>1, <1>9, <1>10, <1>11 DEF ReadsSteadily
  <1>12. ASSUME blocks # got[p], got'[p] = blocks, ~(Len(blocks) < size[p]), pc'[p] = "loaded"
         PROVE  ReadsSteadily(p)'
    <2>1. ASSUME OneRewriter(p)' PROVE blocks = Bytecode(source)
      <3>1. source \in Texts
        BY DEF AllSteady
      <3>2. Len(blocks) = Blocks[source] /\ Blocks[source] \in Nat
        BY <1>3, <1>9, <1>10, <1>12, <2>1, <3>1, BytecodeShape
      <3>3. /\ Bytecode(source) \in Seq(Cells) /\ Len(blocks) = Len(Bytecode(source))
            /\ \A i \in 1 .. Len(blocks) : blocks[i] = Bytecode(source)[i]
        BY <1>10, <1>12, <2>1, <3>1, <3>2, BytecodeShape
      <3> QED
        BY <1>3, <3>3, SeqEqual
    <2> QED
      BY <1>1, <1>12, <2>1 DEF ReadsSteadily
  <1> QED
    BY <1>1, <1>5, <1>6, <1>7, <1>8, <1>11, <1>12, SteadyAlone

(***************************************************************************)
(* The steps that begin and end a load, and those that read the source.    *)
(***************************************************************************)
LEMMA HashSourceSteady ==
  ASSUME Typed, Typed', AllSteady, NEW p \in Processes, HashSource(p) PROVE AllSteady'
  <1>1. /\ file' = file /\ source' = source /\ WritersStay
        /\ \A q \in Processes \ {p} : Untouched(q) /\ rewriters'[q] = rewriters[q]
    BY DEF HashSource, At, disk, Untouched, WritersStay, Typed, TypeOK
  <1>2. pc'[p] = "open" /\ hash'[p] = source
    BY DEF HashSource, At, Typed, TypeOK
  <1>3. OfSource(p)' /\ ReadsSteadily(p)'
    BY <1>1, <1>2 DEF OfSource, ReadsSteadily
  <1> QED
    BY <1>1, <1>3, SteadyAlone

LEMMA TranslateSteady ==
  ASSUME Typed, Typed', AllSteady, NEW p \in Processes, Translate(p) PROVE AllSteady'
  <1>1. /\ file' = file /\ source' = source /\ WritersStay
        /\ \A q \in Processes \ {p} : Untouched(q) /\ rewriters'[q] = rewriters[q]
    BY DEF Translate, At, disk, Untouched, WritersStay, Typed, TypeOK
  <1>2. pc[p] = "source" /\ pc'[p] = "create" /\ hash'[p] = hash[p] /\ text'[p] = source
    BY DEF Translate, At, Typed, TypeOK
  <1>3. OfSource(p)' /\ ReadsSteadily(p)'
    BY <1>1, <1>2 DEF AllSteady, OfSource, ReadsSteadily
  <1> QED
    BY <1>1, <1>3, SteadyAlone

LEMMA OverSteady ==
  ASSUME Typed, Typed', AllSteady, NEW p \in Processes, Fails(p) \/ Done(p) \/ Crash(p)
  PROVE  AllSteady'
  <1>1. /\ pc' = [pc EXCEPT ![p] = "idle"] /\ Reset(p)
        /\ hash' = [hash EXCEPT ![p] = "none"] /\ texts' = [texts EXCEPT ![p] = {}]
        /\ UNCHANGED <<disk, bounds, torn>>
    BY DEF Fails, Done, Crash, At
  <1>2. /\ file' = file /\ source' = source /\ WritersStay
        /\ \A q \in Processes \ {p} : Untouched(q) /\ rewriters'[q] = rewriters[q]
    BY <1>1 DEF Untouched, Reset, disk, WritersStay, Typed, TypeOK
  <1>3. pc'[p] = "idle"
    BY <1>1 DEF Typed, TypeOK
  <1>4. OfSource(p)' /\ ReadsSteadily(p)'
    BY <1>3 DEF OfSource, ReadsSteadily
  <1> QED
    BY <1>2, <1>4, SteadyAlone

\* A load that has written, or failed to write, what it read of the source.
LEMMA ClosedSteady ==
  ASSUME Typed, AllSteady, NEW p \in Processes, Writes(p), pc[p] \in {"create", "write"}, Closed(p),
         UNCHANGED <<source, hash, got>>
  PROVE  OfSource(p)' /\ ReadsSteadily(p)'
  <1>1. pc'[p] = "loaded"
    BY DEF Closed, Typed, TypeOK
  <1>2. got'[p] = Bytecode(source')
    BY DEF AllSteady, OfSource, Writes
  <1> QED
    BY <1>1, <1>2 DEF AllSteady, OfSource, ReadsSteadily

LEMMA NotWrittenSteady ==
  ASSUME Typed, Typed', AllSteady, NEW p \in Processes, Writes(p), NotWritten(p) PROVE AllSteady'
  <1>1. /\ file' = file /\ Closed(p) /\ pc[p] \in {"create", "write"}
        /\ UNCHANGED <<source, hash, size, got, texts, rewriters>>
    BY DEF NotWritten, disk, history
  <1>2. /\ WritersStay
        /\ \A q \in Processes \ {p} : Untouched(q) /\ rewriters'[q] = rewriters[q]
    BY <1>1 DEF Untouched, Closed, WritersStay, Typed, TypeOK
  <1>3. OfSource(p)' /\ ReadsSteadily(p)'
    BY <1>1, ClosedSteady
  <1> QED
    BY <1>1, <1>2, <1>3, SteadyAlone

(***************************************************************************)
(* The steps that change the file.                                         *)
(***************************************************************************)
LEMMA RewritersGrow ==
  ASSUME Typed, NEW p \in Processes, Rewrites(p), NEW q \in Processes \ {p}, OneRewriter(q)'
  PROVE  /\ OneRewriter(q)
         /\ pc[q] \in Reading => rewriters'[q] = rewriters[q] \cup {p} /\ rewriters'[q] = {p}
  <1>1. rewriters'[q] = IF pc[q] \in Reading THEN rewriters[q] \cup {p} ELSE rewriters[q]
    BY DEF Rewrites, Reading
  <1>2. OneRewriter(q)
    BY <1>1 DEF OneRewriter
  <1>3. ASSUME pc[q] \in Reading PROVE rewriters'[q] = {p}
    <2>1. p \in rewriters'[q]
      BY <1>1, <1>3
    <2> QED
      BY <2>1 DEF OneRewriter
  <1> QED
    BY <1>1, <1>2, <1>3

LEMMA CreateSteady ==
  ASSUME Typed, Typed', AllSteady, NEW p \in Processes, Create(p) PROVE AllSteady'
  <1>1. /\ pc[p] = "create" /\ pc' = [pc EXCEPT ![p] = "write"] /\ file' = <<>> /\ Rewrites(p)
        /\ out' = [out EXCEPT ![p] = 0]
        /\ UNCHANGED <<source, hash, size, got, text, texts, torn>>
    BY DEF Create, At
  <1>2. \A q \in Processes \ {p} : Untouched(q)
    BY <1>1 DEF Untouched, Typed, TypeOK
  <1>3. FileFits' /\ Len(file') = 0
    BY <1>1 DEF FileFits
  <1>4. pc'[p] = "write" /\ out'[p] = 0
    BY <1>1 DEF Typed, TypeOK
  <1>5. OfSource(p)' /\ ReadsSteadily(p)'
    BY <1>1, <1>4 DEF AllSteady, OfSource, ReadsSteadily
  <1>6. ASSUME NEW q \in Processes \ {p} PROVE OfSource(q)' /\ ReadsSteadily(q)'
    <2>1. OfSource(q)'
      BY <1>1, <1>2 DEF AllSteady, OfSource, Untouched
    <2>2. ASSUME OneRewriter(q)', pc[q] \in Reading PROVE Anew(q)'
      <3>1. rewriters'[q] = {p}
        BY <1>1, <2>2, RewritersGrow
      <3> QED
        BY <1>1, <1>3, <1>4, <3>1 DEF Anew
    <2>3. OneRewriter(q)' => OneRewriter(q)
      BY <1>1, RewritersGrow
    <2>4. \A i : Fits(got[q][i], i) => Fits(got[q][i], i)'
      BY <1>1, <1>2 DEF Fits, Steady, Untouched
    <2> QED
      BY <1>1, <1>2, <2>1, <2>2, <2>3, <2>4 DEF AllSteady, ReadsSteadily, Untouched, Reading
  <1>7. source' = source
    BY <1>1
  <1> QED
    BY <1>3, <1>5, <1>6, <1>7 DEF AllSteady

LEMMA WriteSteady ==
  ASSUME Typed, Typed', AllSteady, NEW p \in Processes, Writes(p), Write(p) PROVE AllSteady'
  <1> DEFINE i == out[p] + 1
             n == IF i > Len(file) THEN i ELSE Len(file)
  <1>1. /\ pc[p] = "write" /\ Rewrites(p)
        /\ UNCHANGED <<source, hash, size, got, texts, torn>>
        /\ hash[p] = source /\ text[p] = source
    BY DEF Write, AllSteady, OfSource
  <1>2. i \in 1 .. Blocks[source] + 2 /\ Blocks[source] \in Nat \ {0} /\ Len(file) \in Nat
    BY <1>1, SteadyShape DEF Typed, TypeOK, AllSteady, Steady
  <1>3. file' = [j \in 1 .. n |->
                   IF j = i THEN Steady[i] ELSE IF j \in DOMAIN file THEN file[j] ELSE Hole]
    BY <1>1 DEF Write, Steady
  <1>4. /\ \/ Closed(p)
           \/ out' = [out EXCEPT ![p] = i] /\ UNCHANGED <<pc, text>>
        /\ \A q \in Processes \ {p} : Untouched(q)
    <2>1. \/ Closed(p)
          \/ out' = [out EXCEPT ![p] = i] /\ UNCHANGED <<pc, text>>
      BY DEF Write
    <2> QED
      BY <1>1, <2>1 DEF Untouched, Closed, Typed, TypeOK
  <1>5. pc'[p] = "write" => out'[p] = i
    BY <1>4 DEF Closed, Typed, TypeOK
  <1>6. DOMAIN file = 1 .. Len(file) /\ Len(file) <= Blocks[source] + 2
    <2>1. DOMAIN file = 1 .. Len(file)
      BY DEF Typed
    <2>2. CASE Len(file) = 0
      BY <1>2, <2>1, <2>2
    <2>3. CASE Len(file) # 0
      <3>1. Len(file) \in DOMAIN file
        BY <1>2, <2>1, <2>3
      <3> QED
        BY <2>1, <3>1 DEF AllSteady, FileFits
    <2> QED
      BY <2>2, <2>3
  <1>7. n \in Nat /\ Len(file) <= n /\ n <= Blocks[source] + 2 /\ i <= n /\ (n = i \/ n = Len(file))
    BY <1>2, <1>6
  <1>8. Len(file') = n /\ DOMAIN file' = 1 .. n
    BY <1>3, <1>7
  <1>9. /\ file'[i] = Steady[i] /\ Steady[i] # Hole
        /\ \A j \in 1 .. Len(file) : file[j] # Hole => file'[j] # Hole
    <2>1. Steady[i] # Hole
      BY <1>2, SteadyShape DEF AllSteady
    <2>2. i \in 1 .. n /\ \A j \in 1 .. Len(file) : j \in 1 .. n
      BY <1>2, <1>7
    <2> HIDE DEF i, n
    <2> QED
      BY <1>3, <1>6, <2>1, <2>2
  <1> HIDE DEF i, n
  <1>10. FileFits'
    <2>1. ASSUME NEW j \in 1 .. n PROVE file'[j] = Hole \/ file'[j] = Steady[j]
      BY <1>3, <2>1 DEF AllSteady, FileFits, Fits
    <2>2. Steady' = Steady /\ source' = source
      BY <1>1 DEF Steady
    <2>3. \A j \in 1 .. n : j <= Blocks[source] + 2
      BY <1>2, <1>7
    <2> QED
      BY <1>8, <2>1, <2>2, <2>3 DEF FileFits, Fits
  <1>11. OfSource(p)' /\ ReadsSteadily(p)'
    <2>1. CASE Closed(p)
      BY <1>1, <2>1, ClosedSteady
    <2>2. CASE UNCHANGED <<pc, text>>
      BY <1>1, <2>2 DEF AllSteady, OfSource, ReadsSteadily
    <2> QED
      BY <1>4, <2>1, <2>2
  <1>12. ASSUME NEW q \in Processes \ {p} PROVE OfSource(q)' /\ ReadsSteadily(q)'
    <2>1. OfSource(q)'
      BY <1>1, <1>4 DEF AllSteady, OfSource, Untouched
    <2>2. OneRewriter(q)' => OneRewriter(q)
      BY <1>1, RewritersGrow
    <2>3. \A j : Fits(got[q][j], j) => Fits(got[q][j], j)'
      BY <1>1, <1>4 DEF Fits, Steady, Untouched
    <2>4. KeptSoFar(q) => KeptSoFar(q)'
      <3>1. Len(got[q]) \in Nat /\ size[q] \in Nat
        BY DEF Typed
      <3>2. \A j \in 1 .. Len(got[q]) : Len(got[q]) <= Len(file) => j \in 1 .. Len(file)
        BY <1>2, <3>1
      <3>3. got'[q] = got[q] /\ size'[q] = size[q]
        BY <1>4 DEF Untouched
      <3>4. \A m \in Nat : m <= Len(file) => m <= Len(file')
        BY <1>2, <1>7, <1>8
      <3> QED
        BY <1>9, <3>1, <3>2, <3>3, <3>4 DEF KeptSoFar
    <2>5. Kept => Kept'
      <3>1. \A j \in 1 .. Blocks[source] + 2 : Blocks[source] + 2 <= Len(file) => j \in 1 .. Len(file)
        BY <1>2
      <3>2. \A m \in Nat : m <= Len(file) => m <= Len(file')
        BY <1>2, <1>7, <1>8
      <3>3. Blocks[source] + 2 \in Nat /\ source' = source
        BY <1>1, <1>2
      <3> QED
        BY <1>9, <3>1, <3>2, <3>3 DEF Kept
    <2>6. ASSUME OneRewriter(q)', pc[q] \in Reading, Anew(q) PROVE Anew(q)'
      <3>1. rewriters'[q] = {p} /\ p \in rewriters[q]
        BY <1>1, <2>6, RewritersGrow DEF Anew
      <3>2. out[p] = Len(file)
        BY <1>1, <2>6, <3>1 DEF Anew
      <3>3. i = Len(file) + 1 /\ n = i
        BY <1>2, <1>7, <3>2 DEF i
      <3>4. \A j \in 1 .. n : j \in 1 .. Len(file) \/ j = i
        BY <1>2, <3>3
      <3>5. \A j \in DOMAIN file' : file'[j] # Hole
        BY <1>6, <1>8, <1>9, <2>6, <3>4 DEF Anew
      <3> QED
        BY <1>5, <1>8, <3>1, <3>3, <3>5 DEF Anew
    <2>7. /\ pc'[q] = pc[q] /\ got'[q] = got[q] /\ size'[q] = size[q] /\ source' = source
      BY <1>1, <1>4 DEF Untouched
    <2>8. ReadsSteadily(q)
      BY DEF AllSteady
    <2> QED
      BY <2>1, <2>2, <2>3, <2>4, <2>5, <2>6, <2>7, <2>8 DEF ReadsSteadily, Reading
  <1>13. source' = source
    BY <1>1
  <1> QED
    BY <1>10, <1>11, <1>12, <1>13 DEF AllSteady

LEMMA InitSteady == Init => SteadyInv
  <1>1. Init => \A p \in Processes : OfSource(p) /\ ReadsSteadily(p)
    BY DEF Init, OfSource, ReadsSteadily
  <1>2. Init => FileFits
    BY DEF Init, FileFits
  <1> QED
    BY <1>1, <1>2 DEF Init, SteadyInv, AllSteady

LEMMA NextSteady == IInv /\ IInv' /\ SteadyInv /\ [Next]_vars => SteadyInv'
  <1> SUFFICES ASSUME IInv, IInv', SteadyInv, [Next]_vars PROVE SteadyInv'
    OBVIOUS
  <1>1. Typed /\ Typed' /\ \A p \in Processes : Writes(p)
    BY DEF IInv
  <1>2. CASE UNCHANGED vars
    <2>1. /\ file' = file /\ source' = source /\ WritersStay /\ edits' = edits
          /\ \A q \in Processes : Untouched(q) /\ rewriters'[q] = rewriters[q]
      BY <1>2 DEF vars, disk, bounds, history, WritersStay, Untouched
    <2>2. ASSUME AllSteady PROVE AllSteady'
      <3>1. ASSUME NEW q \in Processes PROVE OfSource(q)' /\ ReadsSteadily(q)'
        BY <1>1, <2>1, <2>2, SteadyBystander DEF AllSteady, OfSource, Untouched
      <3>2. FileFits'
        BY <2>1, <2>2 DEF AllSteady, FileFits, Fits, Steady
      <3> QED
        BY <2>1, <2>2, <3>1, <3>2 DEF AllSteady
    <2> QED
      BY <2>1, <2>2 DEF SteadyInv
  <1>3. ASSUME NEW p \in Processes, load_argon_file(p) \/ Done(p) \/ Crash(p) PROVE SteadyInv'
    <2>1. edits' = edits
      BY <1>3 DEF load_argon_file, load_cache, HashSource, OpenCache, VerifyBlock, ReadHead,
        ReadCode, Translate, Fails, Create, Write, NotWritten, Done, Crash, bounds
    <2>2. ASSUME AllSteady PROVE AllSteady'
      BY <1>1, <1>3, <2>2, HashSourceSteady, OpenCacheSteady, VerifyBlockSteady, ReadHeadSteady,
         ReadCodeSteady, TranslateSteady, OverSteady, CreateSteady, WriteSteady, NotWrittenSteady
      DEF load_argon_file, load_cache
    <2> QED
      BY <2>1, <2>2 DEF SteadyInv
  <1>4. CASE Edit
    BY <1>4 DEF Edit, SteadyInv
  <1> QED
    BY <1>2, <1>3, <1>4 DEF Next

(***************************************************************************)
(* While nobody edits the source, every load of load_argon_file runs it,   *)
(* though any number of processes crash, fail to write, or truncate and    *)
(* write the cache meanwhile, unless two of them wrote to it while one     *)
(* load was reading it.                                                    *)
(***************************************************************************)
THEOREM RunsSteadily == Spec => []SteadySourceRuns
  <1>1. SteadyInv => SteadySourceRuns
    BY DEF SteadyInv, AllSteady, ReadsSteadily, OneRewriter, SteadySourceRuns, Loaded
  <1> QED
    BY Invariant, InitSteady, NextSteady, <1>1, PTL DEF Spec

=============================================================================
