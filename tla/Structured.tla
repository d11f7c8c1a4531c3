------------------------------ MODULE Structured ------------------------------
(***************************************************************************)
(* What a program means, read off its text with no bytecode in sight: the  *)
(* definition the translator and the interpreter together are held to.     *)
(* A run consumes the same choices as the interpreter's run does.          *)
(*                                                                         *)
(* st.env holds the names declared in each open scope, innermost last;     *)
(* st.out is "normal", the jump under way, or the error under way.         *)
(***************************************************************************)
EXTENDS Naturals, Sequences, SequencesExt

Begin(choices) == [ch |-> choices, trace |-> <<>>, env |-> <<{}>>, out |-> "normal"]

\* The next choice, the last resort when none is left.
Choice(st, resort) == IF st.ch = <<>> THEN resort ELSE Head(st.ch)
Chosen(st)         == [st EXCEPT !.ch = IF @ = <<>> THEN @ ELSE Tail(@)]

Out(st, o)       == [st EXCEPT !.out = o]
Enter(st, names) == [st EXCEPT !.env = Append(@, names)]

\* Whatever ran in the scopes of `inner`, the scopes of st are open again.
Leave(inner, st) == [inner EXCEPT !.env = st.env]

DoEffect(st, v) ==
  LET o == Choice(st, "ok")
  IN IF o = "ok" THEN [Chosen(st) EXCEPT !.trace = Append(@, v)]
     ELSE Out(Chosen(st), o)

DoLet(st) ==
  IF "x" \in st.env[Len(st.env)] THEN Out(st, "E")
  ELSE [st EXCEPT !.env[Len(st.env)] = @ \cup {"x"}]

RECURSIVE Run(_, _, _), While(_, _, _), Iterate(_, _, _)

RunList(list, st, ret) ==
  FoldLeft(LAMBDA u, s : IF u.out = "normal" THEN Run(s, u, ret) ELSE u, st, list)

\* st is the state in the loop's own scope.
While(s, st, ret) ==
  LET test == Chosen(st)
      body == Run(s.body, test, ret)
  IN IF Choice(st, "false") = "false" THEN test
     ELSE CASE body.out \in {"normal", "continue"} ->
                 While(s, Out(Leave(body, st), "normal"), ret)
            [] body.out = "break" -> Out(body, "normal")
            [] OTHER -> body

\* StopIteration ends the loop, whoever raised it: __next__ or the body.
Iterate(s, st, ret) ==
  LET next == Choice(st, "StopIteration")
      body == Run(s.body, Enter(Chosen(st), {"x"}), ret)
  IN CASE next = "StopIteration" -> Chosen(st)
       [] next = "E" -> Out(Chosen(st), "E")
       [] OTHER ->
            CASE body.out \in {"normal", "continue"} ->
                   Iterate(s, Out(Leave(body, st), "normal"), ret)
              [] body.out \in {"break", "StopIteration"} -> Out(body, "normal")
              [] OTHER -> body

For(s, st, ret) ==
  IF Choice(st, "iter") = "E" THEN Out(Chosen(st), "E")
  ELSE Iterate(s, Chosen(st), ret)

Caught(class) == IF class = "Exception" THEN "E" ELSE class

Try(s, st, ret) ==
  LET body == Run(s.body, Enter(st, {}), ret)
  IN IF body.out = Caught(s.class)
       THEN Run(s.handler, Enter(Out(Leave(body, st), "normal"), {"x"}), ret)
       ELSE body

\* The argument, then the function's body in scopes of its own.
Invoke(s, st) ==
  LET arg == Run(s.arg, Enter(st, {}), FALSE)
  IN IF arg.out # "normal" THEN arg
     ELSE Run(s.body, [arg EXCEPT !.env = <<{}>>], FALSE)

\* ret: a do block around s takes its returns.
Run(s, st, ret) ==
  CASE s.k = "effect"   -> DoEffect(st, s.v)
    [] s.k = "let"      -> DoLet(st)
    [] s.k = "throw"    -> Out(st, IF s.v = "null" THEN "E" ELSE s.v)
    [] s.k \in {"break", "continue"} -> Out(st, s.k)
    [] s.k = "return"   ->
         LET u == Run(s.value, st, ret) IN IF u.out = "normal" THEN Out(u, "return") ELSE u
    [] s.k = "do"       ->
         LET u == Leave(RunList(s.body, Enter(st, {}), TRUE), st)
         IN IF u.out = "return" /\ ~ret THEN Out(u, "normal") ELSE u
    [] s.k = "while"    -> Leave(While(s, Enter(st, {}), ret), st)
    [] s.k = "for"      -> Leave(For(s, st, ret), st)
    [] s.k = "try"      -> Leave(Try(s, st, ret), st)
    [] s.k = "if"       ->
         LET branch == IF Choice(st, "false") = "true" THEN s.then ELSE s.else
         IN Leave(Run(branch, Enter(Chosen(st), {}), ret), st)
    [] s.k = "call"     -> Leave(Invoke(s, st), st)

Meaning(list, choices) == RunList(list, Begin(choices), FALSE)
=============================================================================
