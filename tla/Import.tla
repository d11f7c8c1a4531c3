-------------------------------- MODULE Import --------------------------------
(***************************************************************************)
(* The import statement: where ar_import looks for a module, and the two   *)
(* tables of src/src/import.c, of the modules imported and of those being  *)
(* imported.  Each table has a lock of its own, so that every lookup and   *)
(* every insertion is a step, and the threads of a program take turns      *)
(* between any two.  What a module does besides importing is not modelled: *)
(* it may import anything it knows a name for, catch what an import        *)
(* raises, fail, and end, at any time.                                     *)
(*                                                                         *)
(* A path is the sequence of its names; the extension of the last one is a *)
(* name of its own, and "/" begins the ones that are rooted.               *)
(***************************************************************************)
EXTENDS Naturals, Sequences, SequencesExt

CONSTANTS
  Threads, Main,
  Files,     \* the paths of the regular files
  Names,     \* the paths that import statements give
  CWD, EXC_DIR,
  MaxRuns    \* how many modules are run, each time counted

ASSUME ImportAssumption == Main \in Threads /\ MaxRuns \in Nat

VARIABLES
  imported,   \* the scope of each module imported, 0 for none
  importing,  \* the modules marked as being imported
  ran,        \* the modules loaded so far; the position of one is its scope
  chain,      \* the scopes of the modules each thread is in, the innermost last
  stage,      \* where each thread is in the import it makes
  target,     \* the file this import has found
  failed,     \* whether an error is on its way through the thread
  \* History, for the properties:
  got,        \* the scopes that imports have given
  raced       \* the modules two threads have imported at once

tables == <<imported, importing>>
locals == <<chain, target, failed>>
vars   == <<tables, ran, locals, stage, got, raced>>

Stages == {"none", "run", "found", "missed", "new", "marked", "dropped",
           "publish", "unmark", "over"}

-------------------------------------------------------------------------------
(* The search *)

\* cwk_path_get_absolute: the path from base, its ".." folded.
Absolute(base, path) ==
  LET step(p, n) == IF n # ".." THEN Append(p, n) ELSE IF p = <<>> THEN p ELSE Front(p)
  IN FoldLeft(step, <<>>, IF path # <<>> /\ Head(path) = "/" THEN Tail(path) ELSE base \o path)

Endings == << <<>>, <<".ar">>, <<"init", ".ar">> >>

\* The candidates below base, with each of the prefixes in turn.
Patterns(base, prefixes, name) ==
  FlattenSeq([i \in 1 .. Len(prefixes) |->
    [j \in 1 .. Len(Endings) |->
      Absolute(Absolute(base, prefixes[i]), name) \o Endings[j]]])

\* Next to the file, in argon_modules there and in every directory above, beside
\* the interpreter.
Candidates(dir, name) ==
  Patterns(dir, << <<>> >>, name)
    \o FlattenSeq([i \in 1 .. Len(dir) + 1 |->
         Patterns(SubSeq(dir, 1, Len(dir) + 1 - i), << <<"argon_modules">> >>, name)])
    \o Patterns(EXC_DIR, << <<"..", "stdlib">>, <<"..", "argon_modules">> >>, name)

\* cwk_path_get_dirname of a file.
Directory(file) == IF Last(file) = ".ar" THEN Front(Front(file)) ELSE Front(file)

\* The first candidate that is a regular file, <<>> if none is.
Located ==
  [dir \in {CWD} \cup {Directory(f) : f \in Files} |-> [name \in Names |->
     LET found == SelectSeq(Candidates(dir, name), LAMBDA c : c \in Files)
     IN IF found = <<>> THEN <<>> ELSE Head(found)]]

-------------------------------------------------------------------------------
Init ==
  /\ imported = [f \in Files |-> 0] /\ importing = {}
  /\ ran = <<>>
  /\ chain = [t \in Threads |-> <<>>]
  /\ stage = [t \in Threads |-> IF t = Main THEN "run" ELSE "none"]
  /\ target = [t \in Threads |-> <<>>]
  /\ failed = [t \in Threads |-> FALSE]
  /\ got = {} /\ raced = {}

\* The modules t is in.
Chain(t) == {ran[chain[t][i]] : i \in DOMAIN chain[t]}

\* The modules t is in the import of, from where it found them not imported.
In(t) ==
  Chain(t) \cup (IF stage[t] \in {"missed", "new", "marked", "dropped"} THEN {target[t]} ELSE {})

\* A step of t, unless the program has ended.
Step(t, from, to) ==
  /\ stage[Main] # "over"
  /\ stage[t] = from /\ stage' = [stage EXCEPT ![t] = to]

\* A new thread is given a function of a module that was loaded.
Start(t) ==
  /\ ran # <<>>
  /\ Step(t, "none", "run")
  /\ UNCHANGED <<tables, ran, locals, got, raced>>

\* The directories of the import statements t may reach: main begins with the
\* script, then any function of any module may be called.
From(t) ==
  IF t = Main /\ chain[t] = <<>> THEN {CWD} ELSE {Directory(f) : f \in Range(ran)}

\* An import statement, or main with its argument: the search.
Find(t) ==
  /\ ~failed[t]
  /\ t = Main => chain[t] # <<>> \/ ran = <<>>
  /\ Step(t, "run", "found")
  /\ \E dir \in From(t), name \in Names :
       /\ Located[dir][name] \in Files
       /\ target' = [target EXCEPT ![t] = Located[dir][name]]
  /\ UNCHANGED <<tables, ran, chain, failed, got, raced>>

\* FileError: nothing of that name.
FindNothing(t) ==
  /\ ~failed[t]
  /\ Step(t, "run", "run")
  /\ \E dir \in From(t), name \in Names : Located[dir][name] \notin Files
  /\ failed' = [failed EXCEPT ![t] = TRUE]
  /\ UNCHANGED <<tables, ran, chain, target, got, raced>>

\* The table of the modules imported has it.
LookupHit(t) ==
  /\ Step(t, "found", "run")
  /\ imported[target[t]] # 0
  /\ got' = got \cup {imported[target[t]]}
  /\ target' = [target EXCEPT ![t] = <<>>]
  /\ UNCHANGED <<tables, ran, chain, failed, raced>>

LookupMiss(t) ==
  /\ Step(t, "found", "missed")
  /\ imported[target[t]] = 0
  /\ raced' = raced \cup ({target[t]} \cap UNION {In(u) : u \in Threads \ {t}})
  /\ UNCHANGED <<tables, ran, locals, got>>

\* ImportError: the table of the modules being imported has it.
Refuse(t) ==
  /\ Step(t, "missed", "run")
  /\ target[t] \in importing
  /\ target' = [target EXCEPT ![t] = <<>>]
  /\ failed' = [failed EXCEPT ![t] = TRUE]
  /\ UNCHANGED <<tables, ran, chain, got, raced>>

Accept(t) ==
  /\ Step(t, "missed", "new")
  /\ target[t] \notin importing
  /\ UNCHANGED <<tables, ran, locals, got, raced>>

Mark(t) ==
  /\ Step(t, "new", "marked")
  /\ importing' = importing \cup {target[t]}
  /\ UNCHANGED <<imported, ran, locals, got, raced>>

\* load_argon_file translates the module, which then runs in a scope of its own.
Load(t) ==
  /\ Len(ran) < MaxRuns
  /\ Step(t, "marked", "run")
  /\ ran' = Append(ran, target[t])
  /\ chain' = [chain EXCEPT ![t] = Append(@, Len(ran) + 1)]
  /\ target' = [target EXCEPT ![t] = <<>>]
  /\ UNCHANGED <<tables, failed, got, raced>>

\* It does not: the file is gone, or its text has an error.
LoadFails(t) ==
  /\ Step(t, "marked", "dropped")
  /\ failed' = [failed EXCEPT ![t] = TRUE]
  /\ UNCHANGED <<tables, ran, chain, target, got, raced>>

Drop(t) ==
  /\ Step(t, "dropped", "run")
  /\ importing' = importing \ {target[t]}
  /\ target' = [target EXCEPT ![t] = <<>>]
  /\ UNCHANGED <<imported, ran, chain, failed, got, raced>>

\* The program catches what an import raised.
Catch(t) ==
  /\ failed[t] /\ (t = Main => chain[t] # <<>>)
  /\ Step(t, "run", "run")
  /\ failed' = [failed EXCEPT ![t] = FALSE]
  /\ UNCHANGED <<tables, ran, chain, target, got, raced>>

\* runtime returns: the innermost module has ended, with an error of its own or
\* of an import, or without one.
ModuleEnds(t) ==
  /\ chain[t] # <<>>
  /\ \E fails \in {TRUE, failed[t]} :
       /\ Step(t, "run", IF fails THEN "unmark" ELSE "publish")
       /\ failed' = [failed EXCEPT ![t] = fails]
  /\ UNCHANGED <<tables, ran, chain, target, got, raced>>

\* Mutant: the module is not entered in the table.
Mut_Publish_skipped(t) ==
  /\ Step(t, "publish", "unmark")
  /\ UNCHANGED <<tables, ran, locals, got, raced>>

Publish(t) ==
  /\ Step(t, "publish", "unmark")
  /\ imported' = [imported EXCEPT ![ran[Last(chain[t])]] = Last(chain[t])]
  /\ UNCHANGED <<importing, ran, locals, got, raced>>

\* Mutant: a module that failed stays marked.
Mut_Unmark_onlySuccess(t) ==
  /\ Step(t, "unmark", IF Len(chain[t]) = 1 /\ t = Main THEN "over" ELSE "run")
  /\ importing' = IF failed[t] THEN importing ELSE importing \ {ran[Last(chain[t])]}
  /\ chain' = [chain EXCEPT ![t] = Front(@)]
  /\ got' = IF failed[t] THEN got ELSE got \cup {Last(chain[t])}
  /\ UNCHANGED <<imported, ran, target, failed, raced>>

\* NULL is inserted, and the import returns, the first one to main, which ends.
Unmark(t) ==
  /\ Step(t, "unmark", IF Len(chain[t]) = 1 /\ t = Main THEN "over" ELSE "run")
  /\ importing' = importing \ {ran[Last(chain[t])]}
  /\ chain' = [chain EXCEPT ![t] = Front(@)]
  /\ got' = IF failed[t] THEN got ELSE got \cup {Last(chain[t])}
  /\ UNCHANGED <<imported, ran, target, failed, raced>>

\* main's own import found nothing or did not load, or an error ends a thread's function.
Give_up(t) ==
  /\ failed[t] /\ chain[t] = <<>>
  /\ Step(t, "run", IF t = Main THEN "over" ELSE "none")
  /\ failed' = [failed EXCEPT ![t] = FALSE]
  /\ UNCHANGED <<tables, ran, chain, target, got, raced>>

Import(t) ==
  \/ Start(t) \/ Find(t) \/ FindNothing(t) \/ LookupHit(t) \/ LookupMiss(t)
  \/ Refuse(t) \/ Accept(t) \/ Mark(t) \/ Load(t) \/ LoadFails(t)
  \/ Drop(t) \/ Catch(t) \/ ModuleEnds(t) \/ Publish(t) \/ Unmark(t) \/ Give_up(t)

Next == \E t \in Threads : Import(t)

Spec == Init /\ [][Next]_vars

-------------------------------------------------------------------------------
TypeOK ==
  /\ imported \in [Files -> 0 .. MaxRuns] /\ importing \in SUBSET Files
  /\ ran \in Seq(Files) /\ Len(ran) <= MaxRuns
  /\ chain \in [Threads -> Seq(1 .. MaxRuns)]
  /\ stage \in [Threads -> Stages]
  /\ target \in [Threads -> Files \cup {<<>>}]
  /\ failed \in [Threads -> BOOLEAN]
  /\ got \in SUBSET (1 .. MaxRuns) /\ raced \in SUBSET Files

(***************************************************************************)
(* "Circular import detected" (import.c:660) is said exactly of a module   *)
(* the importing thread is itself in, however many imports failed and were *)
(* caught before, but for a module that two threads have imported at once: *)
(* the table tells the second thread the same, and a mark that the other   *)
(* thread takes away lets a real circle through.                           *)
(***************************************************************************)
CircularBut ==
  [][\A t \in Threads :
       stage[t] = "missed" /\ stage'[t] # "missed" =>
         (stage'[t] = "run" <=> target[t] \in Chain(t)) \/ target[t] \in raced]_vars

(***************************************************************************)
(* Every import of a module gives the one scope in which it ran, whatever  *)
(* name it was imported by and after however many failures, but for a      *)
(* module that two threads have imported at once, which may run twice.     *)
(***************************************************************************)
OneModuleBut ==
  \A s, r \in got : ran[s] = ran[r] => s = r \/ ran[s] \in raced

===============================================================================
