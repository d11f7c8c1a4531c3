-------------------------------- MODULE Control --------------------------------
(***************************************************************************)
(* The translator and the interpreter together: programs are translated    *)
(* and run, and compared with what they mean.                              *)
(***************************************************************************)
EXTENDS VMTypes, Translator, Structured, FiniteSets, TLC

(* The type of a program's bytecode, found by following its edges.  The first way that    *)
(* reaches a position gives it its type, and what is known of the registers there is what *)
(* all ways agree on.  If a typing exists, this is one.                                   *)

RECURSIVE Follow(_, _, _, _, _), Mark(_, _, _, _)

\* T types the positions seen so far; todo holds edges still to follow.
Follow(c, T, todo, n, m) ==
  IF todo = {} THEN T
  ELSE LET e == CHOOSE d \in todo : TRUE
           ip == e[1]
           rest == todo \ {e}
       IN IF ip \in DOMAIN T \/ ip \notin DOMAIN c THEN Follow(c, T, rest, n, m)
          ELSE Follow(c, T @@ (ip :> e[2]),
                      IF Safe(c[ip], e[2], n, m) THEN rest \cup Edges(c[ip], ip, e[2]) ELSE rest,
                      n, m)

\* M marks the positions typed by T as far as they have been seen.
Mark(c, T, M, todo) ==
  IF todo = {} THEN M
  ELSE LET e == CHOOSE d \in todo : TRUE
           ip == e[1]
           seen == ip \in DOMAIN M
           m == IF seen THEN M[ip] \cap e[2] ELSE e[2]
           rest == todo \ {e}
       IN IF ip \notin DOMAIN T \/ (seen /\ m = M[ip]) THEN Mark(c, T, M, rest)
          ELSE Mark(c, T, (ip :> m) @@ M, rest \cup Goes(c, ip, T[ip], m))

\* A program with its types and marks.
Typed(p) ==
  LET type == [fn \in DOMAIN p.code |->
                 Follow(p.code[fn], <<>>, {<<1, Start>>}, p.regs[fn], Len(p.code))]
  IN [code |-> p.code, regs |-> p.regs, type |-> type,
      marks |-> [fn \in DOMAIN p.code |-> Mark(p.code[fn], type[fn], <<>>, {<<1, {}>>})]]

-------------------------------------------------------------------------------
(* The programs that jump in a way the translator keeps no account of. *)

\* Nothing after a statement of this kind in its block is reached.
Jumps(s) == s.k \in {"break", "continue", "return"}

Reached(list) == {i \in DOMAIN list : \A j \in 1..(i - 1) : ~Jumps(list[j])}

RECURSIVE Leaves(_, _, _)

\* The jumps that leave s, and "bad" for one inside s that
\*   - leaves a for loop, whose catcher it does not pop, when the frame goes on
\*     running (a return that ends the function is no harm), or
\*   - is a continue that leaves the argument of a call or a function.
\* ret: a block around s takes its returns; tail: s is the last thing in its function.
Leaves(s, ret, tail) ==
  CASE Jumps(s) -> {s.k}
    [] s.k = "do" ->
         LET L == UNION {Leaves(s.body[i], TRUE, FALSE) : i \in Reached(s.body)}
         IN IF ret THEN L
            ELSE (L \ {"return", "return from for"})
                   \cup (IF "return from for" \in L /\ ~tail THEN {"bad"} ELSE {})
    [] s.k = "while" -> Leaves(s.body, ret, FALSE) \ {"break", "continue"}
    [] s.k = "for" ->
         LET L == Leaves(s.body, ret, FALSE)
         IN (L \ {"break", "continue", "return"})
              \cup (IF "break" \in L THEN {"bad"} ELSE {})
              \cup (IF "return" \in L THEN {"return from for"} ELSE {})
    [] s.k = "try" -> Leaves(s.body, ret, FALSE) \cup Leaves(s.handler, ret, FALSE)
    [] s.k = "if"  -> Leaves(s.then, ret, FALSE) \cup Leaves(s.else, ret, FALSE)
    [] s.k = "call" ->
         LET L == Leaves(s.arg, FALSE, FALSE) \cup Leaves(s.body, FALSE, TRUE)
         IN IF L \cap {"bad", "continue"} # {} THEN {"bad"} ELSE {}
    [] OTHER -> {}

Accounted(list) ==
  \A i \in DOMAIN list : "bad" \notin Leaves(list[i], FALSE, i = Len(list))

\* The translated program, its text kept beside it.
Translate(list) == Typed(Bytecode(translate_module(list))) @@ [text |-> list]

Accepted(list) == translate_module(list).err = "none"

RECURSIVE Bodies(_)

\* The bodies of the function literals in s.
Bodies(s) ==
  CASE s.k = "do"                -> UNION {Bodies(s.body[i]) : i \in DOMAIN s.body}
    [] s.k \in {"while", "for"} -> Bodies(s.body)
    [] s.k = "try"               -> Bodies(s.body) \cup Bodies(s.handler)
    [] s.k = "if"                -> Bodies(s.then) \cup Bodies(s.else)
    [] s.k = "call"              -> {s.body} \cup Bodies(s.arg) \cup Bodies(s.body)
    [] OTHER                     -> {}

-------------------------------------------------------------------------------
(* Properties *)

\* A nested function is compiled in total isolation from the code around it: a body
\* the translator accepts there it accepts on its own, so that none of its jumps
\* goes by what the enclosing function keeps.
CompiledInIsolation ==
  \A i \in DOMAIN program.text : \A body \in Bodies(program.text[i]) :
    translate_parsed(init_translator, body).err = "none"


\* The bytecode of a program without unaccounted jumps is well typed: loops, blocks
\* and try statements open and close scopes and catchers in step on every path.
TranslationIsTyped == created = 1 /\ choices = <<>> => WellTyped(program)

\* When a program ends it has had the effects, in the order, and the outcome that
\* its text means (no statement ran twice, none was skipped, no error was caught by
\* the wrong handler).
RunsAsWritten ==
  frames = <<>> =>
    LET m == Meaning(program.text, choices)
    IN /\ trace = m.trace
       /\ err = IF m.out = "normal" THEN "none" ELSE m.out

\* Every program ends: conditions and iterators run out, and no jump of the
\* translation goes round without asking them.
Terminates == <>(frames = <<>>)

\* No handler takes Ctrl-C for something else: once raised it ends the program.
InterruptEndsProgram ==
  (err = "KeyboardInterrupt") ~> (frames = <<>> /\ err = "KeyboardInterrupt")
=============================================================================
