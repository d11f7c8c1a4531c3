---------------------------- MODULE BytecodeCache ----------------------------
(***************************************************************************)
(* load_argon_file and load_cache of src/src/import.c: several processes   *)
(* load one module through one cache file, which each of them may rewrite  *)
(* in place, while an editor saves the source and processes crash.  The    *)
(* cache is a sequence of blocks: a header with the hash of a source and   *)
(* the sizes, the bytecode, and a footer with the hash of all before it.   *)
(* Hashes are taken to be free of collisions, so a hash is what it is of.  *)
(***************************************************************************)
EXTENDS Naturals, Sequences, SequencesExt

CONSTANTS
  Processes,
  Texts,      \* what the source file may hold
  Broken,     \* the texts that do not lex, parse or translate
  Blocks,     \* Blocks[t]: how many blocks the bytecode of t takes
  MaxLoads, MaxEdits  \* how often each is considered

ASSUME CacheAssumption ==
  /\ Broken \subseteq Texts
  /\ Blocks \in [Texts -> Nat \ {0}]

VARIABLES
  source,  \* the text in the source file
  file,    \* the blocks of the cache file, none if it does not exist
  pc,      \* where each load is
  hash,    \* the text each load has hashed
  size,    \* how many blocks it expects to read
  got,     \* what it has read of the cache, then the bytecode that it runs
  text,    \* the text it has read and translated
  out,     \* how many blocks it has written
  loads, edits,
  \* History, for the properties:
  texts,     \* the texts the source has had since the load began
  rewriters, \* who changed the cache file while the load was reading it
  torn       \* the pairs of a text hashed and the other one read in the same load

disk    == <<source, file>>
bounds  == <<loads, edits>>
history == <<texts, rewriters, torn>>
vars    == <<disk, pc, hash, size, got, text, out, bounds, history>>

Block(part, h, t, n) == [part |-> part, hash |-> h, text |-> t, n |-> n]
Hole == Block("hole", "none", "none", 0)

Bytecode(t) == [i \in 1 .. Blocks[t] |-> Block("code", "none", t, i)]

\* The cache of a load that hashed h and read t.
Image(h, t) ==
  <<Block("head", h, t, 0)>> \o Bytecode(t) \o <<Block("foot", h, t, 0)>>

PCs == {"idle", "open", "verify", "head", "code", "source", "create", "write", "loaded"}

Init ==
  /\ source \in Texts \ Broken
  /\ file = <<>>
  /\ pc = [p \in Processes |-> "idle"]
  /\ hash = [p \in Processes |-> "none"] /\ text = [p \in Processes |-> "none"]
  /\ size = [p \in Processes |-> 0] /\ out = [p \in Processes |-> 0]
  /\ got = [p \in Processes |-> <<>>]
  /\ loads = 0 /\ edits = 0
  /\ texts = [p \in Processes |-> {}] /\ rewriters = [p \in Processes |-> {}]
  /\ torn = {}

At(p, from, to) == pc[p] = from /\ pc' = [pc EXCEPT ![p] = to]

\* The locals of a load that begins or ends.
Reset(p) ==
  /\ size' = [size EXCEPT ![p] = 0] /\ got' = [got EXCEPT ![p] = <<>>]
  /\ text' = [text EXCEPT ![p] = "none"] /\ out' = [out EXCEPT ![p] = 0]
  /\ rewriters' = [rewriters EXCEPT ![p] = {}]

-------------------------------------------------------------------------------
(* The source is hashed, and the cache tried *)

HashSource(p) ==
  /\ loads < MaxLoads /\ loads' = loads + 1
  /\ At(p, "idle", "open")
  /\ hash' = [hash EXCEPT ![p] = source]
  /\ texts' = [texts EXCEPT ![p] = {source}]
  /\ UNCHANGED <<disk, size, got, text, out, edits, rewriters, torn>>

\* fopen, and ftell at the end of the file.
OpenCache(p) ==
  /\ At(p, "open", IF file = <<>> THEN "source" ELSE "verify")
  /\ size' = [size EXCEPT ![p] = Len(file)]
  /\ UNCHANGED <<disk, hash, got, text, out, bounds, history>>

\* The load gives the cache up.
ToSource(p) ==
  /\ pc' = [pc EXCEPT ![p] = "source"]
  /\ got' = [got EXCEPT ![p] = <<>>] /\ size' = [size EXCEPT ![p] = 0]

\* What VerifyBlock and ReadCode have read with the file's block i.
With(p, i) == IF i \in DOMAIN file THEN Append(got[p], file[i]) ELSE got[p]

\* Mutant: the footer's hash covers the header only.
Mut_Verified_headerOnly(blocks) ==
  \E h, t \in Texts :
    Len(blocks) = Blocks[t] + 2 /\ Head(blocks) = Head(Image(h, t)) /\ Last(blocks) = Last(Image(h, t))

\* The footer is that of the blocks before it.
Verified(blocks) == \E h, t \in Texts : blocks = Image(h, t)

\* The pass that hashes the file as far as it was long; a short read fails.
VerifyBlock(p) ==
  LET blocks == With(p, Len(got[p]) + 1)
  IN /\ pc[p] = "verify"
     /\ CASE blocks # got[p] /\ Len(blocks) < size[p] ->
               got' = [got EXCEPT ![p] = blocks] /\ UNCHANGED <<pc, size>>
          [] Len(blocks) = size[p] /\ Verified(blocks) ->
               /\ pc' = [pc EXCEPT ![p] = "head"]
               /\ got' = [got EXCEPT ![p] = <<>>] /\ size' = [size EXCEPT ![p] = 0]
          [] OTHER -> ToSource(p)
     /\ UNCHANGED <<disk, hash, text, out, bounds, history>>

\* Mutant: a cache of any source will do.
Mut_ReadHead_anySource(p) ==
  LET fits == file # <<>> /\ file[1].part = "head"
  IN /\ At(p, "head", IF fits THEN "code" ELSE "source")
     /\ size' = [size EXCEPT ![p] = IF fits THEN Blocks[file[1].text] ELSE 0]
     /\ UNCHANGED <<disk, hash, got, text, out, bounds, history>>

\* From the start again: identifier, version, the hash of the source, the sizes.
ReadHead(p) ==
  LET fits == file # <<>> /\ file[1].part = "head" /\ file[1].hash = hash[p]
  IN /\ At(p, "head", IF fits THEN "code" ELSE "source")
     /\ size' = [size EXCEPT ![p] = IF fits THEN Blocks[file[1].text] ELSE 0]
     /\ UNCHANGED <<disk, hash, got, text, out, bounds, history>>

\* Mutant: a short read is not noticed.
Mut_ReadCode_short(p) ==
  LET blocks == With(p, Len(got[p]) + 2)
  IN /\ pc[p] = "code"
     /\ got' = [got EXCEPT ![p] = blocks]
     /\ pc' = [pc EXCEPT ![p] = IF blocks = got[p] \/ Len(blocks) = size[p] THEN "loaded" ELSE @]
     /\ UNCHANGED <<disk, hash, size, text, out, bounds, history>>

\* The pass that reads what it will run, as long as the header says.
ReadCode(p) ==
  LET blocks == With(p, Len(got[p]) + 2)
  IN /\ pc[p] = "code"
     /\ IF blocks = got[p] THEN ToSource(p)
        ELSE /\ got' = [got EXCEPT ![p] = blocks]
             /\ IF Len(blocks) < size[p] THEN UNCHANGED <<pc, size>>
                ELSE /\ pc' = [pc EXCEPT ![p] = "loaded"]
                     /\ size' = [size EXCEPT ![p] = 0]
     /\ UNCHANGED <<disk, hash, text, out, bounds, history>>

-------------------------------------------------------------------------------
(* The source is read, translated and the cache written *)

\* rewind, fread, lexer, parser, translate; an error ends the load.
Translate(p) ==
  /\ source \notin Broken
  /\ At(p, "source", "create")
  /\ text' = [text EXCEPT ![p] = source]
  /\ got' = [got EXCEPT ![p] = Bytecode(source)]
  /\ torn' = IF source = hash[p] THEN torn ELSE torn \cup {<<hash[p], source>>}
  /\ UNCHANGED <<disk, hash, size, out, bounds, texts, rewriters>>

Fails(p) ==
  /\ source \in Broken
  /\ At(p, "source", "idle")
  /\ Reset(p)
  /\ hash' = [hash EXCEPT ![p] = "none"] /\ texts' = [texts EXCEPT ![p] = {}]
  /\ UNCHANGED <<disk, bounds, torn>>

\* p changes the file under the loads that read it.
Rewrites(p) ==
  rewriters' = [q \in Processes |->
    IF q # p /\ pc[q] \in {"verify", "head", "code"} THEN rewriters[q] \cup {p} ELSE rewriters[q]]

\* fopen "wb" makes the file empty.
Create(p) ==
  /\ At(p, "create", "write")
  /\ file' = <<>>
  /\ out' = [out EXCEPT ![p] = 0]
  /\ Rewrites(p)
  /\ UNCHANGED <<source, hash, size, got, text, bounds, texts, torn>>

\* What is left of the load is the bytecode that it runs.
Closed(p) ==
  /\ pc' = [pc EXCEPT ![p] = "loaded"]
  /\ text' = [text EXCEPT ![p] = "none"] /\ out' = [out EXCEPT ![p] = 0]

\* A block reaches the disk, at the process's own position in the file.
Write(p) ==
  LET image == Image(hash[p], text[p])
      i == out[p] + 1
  IN /\ pc[p] = "write"
     /\ file' = [j \in 1 .. (IF i > Len(file) THEN i ELSE Len(file)) |->
                   IF j = i THEN image[i] ELSE IF j \in DOMAIN file THEN file[j] ELSE Hole]
     /\ IF i = Len(image) THEN Closed(p)
        ELSE out' = [out EXCEPT ![p] = i] /\ UNCHANGED <<pc, text>>
     /\ Rewrites(p)
     /\ UNCHANGED <<source, hash, size, got, bounds, texts, torn>>

\* The directory or the file cannot be made, or the disk is full: nobody looks.
NotWritten(p) ==
  /\ pc[p] \in {"create", "write"}
  /\ Closed(p)
  /\ UNCHANGED <<disk, hash, size, got, bounds, history>>

-------------------------------------------------------------------------------

\* The module has been run; the process may load it again.
Done(p) ==
  /\ At(p, "loaded", "idle")
  /\ Reset(p)
  /\ hash' = [hash EXCEPT ![p] = "none"] /\ texts' = [texts EXCEPT ![p] = {}]
  /\ UNCHANGED <<disk, bounds, torn>>

\* The process dies, the file stays as it is, and another process takes its name.  Where it
\* has no part of the file written, dying is the same as going no further.
Crash(p) ==
  /\ At(p, "write", "idle")
  /\ Reset(p)
  /\ hash' = [hash EXCEPT ![p] = "none"] /\ texts' = [texts EXCEPT ![p] = {}]
  /\ UNCHANGED <<disk, bounds, torn>>

\* Somebody saves another text under the same name.
Edit ==
  /\ edits < MaxEdits /\ edits' = edits + 1
  /\ source' \in Texts \ {source}
  /\ texts' = [p \in Processes |->
                 IF pc[p] = "idle" THEN {} ELSE texts[p] \cup {source'}]
  /\ UNCHANGED <<file, pc, hash, size, got, text, out, loads, rewriters, torn>>

load_cache(p) ==
  OpenCache(p) \/ VerifyBlock(p) \/ ReadHead(p) \/ ReadCode(p)

load_argon_file(p) ==
  HashSource(p) \/ load_cache(p) \/ Translate(p) \/ Fails(p)
    \/ Create(p) \/ Write(p) \/ NotWritten(p)

Next ==
  \/ \E p \in Processes : load_argon_file(p) \/ Done(p) \/ Crash(p)
  \/ Edit

Spec == Init /\ [][Next]_vars

-------------------------------------------------------------------------------
(* Properties *)

Loaded(p) == pc[p] = "loaded"

\* The types; a load that writes has blocks left to write.
TypeOK ==
  /\ source \in Texts
  /\ pc \in [Processes -> PCs]
  /\ hash \in [Processes -> Texts \cup {"none"}]
  /\ \A p \in Processes :
       /\ Len(got[p]) \in 0 .. (IF pc[p] \in {"verify", "code"} THEN size[p] ELSE Len(got[p]))
       /\ pc[p] \in {"create", "write"} => hash[p] \in Texts /\ text[p] \in Texts \ Broken
       /\ pc[p] = "write" => out[p] < Len(Image(hash[p], text[p]))
       /\ texts[p] \subseteq Texts /\ rewriters[p] \subseteq Processes \ {p}

\* What runs is the bytecode of one text, complete, whatever crashed while it wrote the cache
\* and however many processes did so at once, unless the file was written while it was read.
WholeUnlessRewritten ==
  \A p \in Processes :
    Loaded(p) /\ rewriters[p] = {} => \E t \in Texts \ Broken : got[p] = Bytecode(t)

\* A load that runs a text the source has not had meanwhile took it from a cache under a wrong
\* hash: the source was edited between the two times some load read it, or the file was
\* written while it was read.  No other edit is ever missed.
FreshUnlessTorn ==
  \A p \in Processes, t \in Texts :
    Loaded(p) /\ got[p] = Bytecode(t) =>
      t \in texts[p] \/ <<hash[p], t>> \in torn \/ rewriters[p] # {}

\* While the source stays as it is every load runs it, though others truncate and write the
\* file at the same time; it takes two of them, one of which writes behind the end that the
\* other has cut off, to slip a hole past a load that has verified the file.
SteadySourceRuns ==
  \A p \in Processes :
    Loaded(p) /\ edits = 0 /\ (\A q, r \in rewriters[p] : q = r) => got[p] = Bytecode(source)
=============================================================================
