------------------------------ MODULE Translator ------------------------------
(***************************************************************************)
(* The translation of control flow to bytecode, src/src/translator: loops, *)
(* try, if, do blocks, functions, calls and the jumps that leave them.     *)
(* A program is a tree of records whose field k names the construct; simple*)
(* expressions are "effect"s.  A Translated is a record with the fields of *)
(* the C struct; positions count instructions from 1, not bytes from 0.    *)
(***************************************************************************)
EXTENDS Integers, Sequences, SequencesExt

\* An instruction: x and y are registers, to a position or function, v the rest.
I(op)          == [op |-> op, x |-> 0, y |-> 0, to |-> 0, v |-> "-"]
IV(op, v)      == [I(op) EXCEPT !.v = v]
ITo(op, to)    == [I(op) EXCEPT !.to = to]
Copy(x, y)     == [I("COPY_TO_REGISTER") EXCEPT !.x = x, !.y = y]

\* break_jump or return_jump without, and with, a list of positions to fill in.
NoJump == [on |-> FALSE, positions |-> {}, exc |-> 0, scope |-> 0]

init_translator ==
  [bytecode |-> <<>>, functions |-> <<>>, registerCount |-> 1, registerAssignment |-> 1,
   scope_depth |-> 0, exception_handler_depth |-> 0,
   continue_jump |-> [pos |-> -1, exc |-> 0, scope |-> 0],
   break_jump |-> NoJump, return_jump |-> NoJump, err |-> "none"]

Here(t)          == Len(t.bytecode) + 1
Push(t, ins)     == [t EXCEPT !.bytecode = @ \o ins]
OpenScope(t)     == [Push(t, <<I("NEW_SCOPE")>>) EXCEPT !.scope_depth = @ + 1]
CloseScope(t)    == [Push(t, <<I("POP_SCOPE")>>) EXCEPT !.scope_depth = @ - 1]
OwnJump(t)       == [on |-> TRUE, positions |-> {}, exc |-> t.exception_handler_depth,
                     scope |-> t.scope_depth]

set_registers(t, n) == [t EXCEPT !.registerCount = IF n > @ THEN n ELSE @]

\* set_instruction_code: the instructions at these positions jump to `to`.
Patch(t, positions, to) ==
  [t EXCEPT !.bytecode = [i \in DOMAIN @ |->
     IF i \in positions THEN [@[i] EXCEPT !.to = to] ELSE @[i]]]

\* The pops a jump out of n scopes and m handlers needs.  The counts are unsigned:
\* below zero they wrap to nearly 2^64 instructions, which no memory holds.
Pops(t, n, m) ==
  IF n < 0 \/ m < 0 THEN [t EXCEPT !.err = "endless"]
  ELSE Push(t, [i \in 1..n |-> I("POP_SCOPE")]
               \o [i \in 1..m |-> I("EXCEPTION_CATCHER_POP")])

\* Pops down to the depths in jump.
PopsTo(t, jump) ==
  Pops(t, t.scope_depth - jump.scope, t.exception_handler_depth - jump.exc)

SyntaxError(t) == [t EXCEPT !.err = "SyntaxError"]

RECURSIVE translate_parsed(_, _)

\* translate(): a list of statements, up to the first error.
translate(t, list) ==
  FoldLeft(LAMBDA u, s : IF u.err = "none" THEN translate_parsed(u, s) ELSE u, t, list)

\* Mutant: break leaves the catchers of the try blocks it jumps out of.
Mut_break_keepsCatchers(t) ==
  IF ~t.break_jump.on THEN SyntaxError(t)
  ELSE LET u == PopsTo(t, [t.break_jump EXCEPT !.exc = t.exception_handler_depth])
       IN [Push(u, <<I("JUMP")>>) EXCEPT !.break_jump.positions = @ \cup {Here(u)}]

translate_parsed_break(t) ==
  IF ~t.break_jump.on THEN SyntaxError(t)
  ELSE LET u == PopsTo(t, t.break_jump)
       IN [Push(u, <<I("JUMP")>>) EXCEPT !.break_jump.positions = @ \cup {Here(u)}]

translate_parsed_continue(t) ==
  IF t.continue_jump.pos = -1 THEN SyntaxError(t)
  ELSE Push(PopsTo(t, t.continue_jump), <<ITo("JUMP", t.continue_jump.pos)>>)

translate_parsed_return(t, s) ==
  IF ~t.return_jump.on THEN SyntaxError(t)
  ELSE LET u == translate_parsed(t, s.value)
           w == PopsTo(u, u.return_jump)
       IN [Push(w, <<I("JUMP")>>) EXCEPT !.return_jump.positions = @ \cup {Here(w)}]

\* A do block: its returns jump behind it unless a block around it takes them.
translate_parsed_dowrap(t, s) ==
  IF s.body = <<>> THEN Push(set_registers(t, 1), <<IV("LOAD", "null")>>)
  ELSE
    LET owns == ~t.return_jump.on
        t1 == IF owns THEN [t EXCEPT !.return_jump = OwnJump(t)] ELSE t
        t2 == translate(OpenScope(set_registers(t1, 1)), s.body)
        t3 == CloseScope(Push(t2, <<IV("LOAD", "null")>>))
    IN IF t2.err # "none" THEN t2
       ELSE IF owns
         THEN [Patch(t3, t3.return_jump.positions, Here(t3))
                 EXCEPT !.return_jump = t.return_jump]
         ELSE t3

translate_parsed_while(t, s) ==
  LET t1 == OpenScope([set_registers(t, 1) EXCEPT !.break_jump = OwnJump(t)])
      start == Here(t1)
      t2 == [Push(t1, <<I("BOOL"), I("JUMP_IF_FALSE")>>)
               EXCEPT !.continue_jump = [pos   |-> start,
                                         exc   |-> t1.exception_handler_depth,
                                         scope |-> t1.scope_depth]]
      t3 == translate_parsed(t2, s.body)
      t4 == Push(t3, <<I("EMPTY_SCOPE"), ITo("JUMP", start)>>)
      t5 == CloseScope(Patch(t4, {start + 1}, Here(t4)))
      t6 == Push(Patch(t5, t5.break_jump.positions, Here(t5)), <<IV("LOAD", "null")>>)
  IN IF t3.err # "none" THEN t3
     ELSE [t6 EXCEPT !.break_jump = t.break_jump, !.continue_jump = t.continue_jump]

\* Both the copy to the error's register and the test of a handler for one class;
\* an error of another class is thrown on.
Rethrow(t, reg, class) ==
  LET t1 == Push(t, <<Copy(0, reg), [IV("IS_INSTANCE", class) EXCEPT !.x = reg],
                      I("NOT"), I("JUMP_IF_FALSE"), Copy(reg, 0), I("QUIET_THROW")>>)
  IN Patch(t1, {Here(t) + 3}, Here(t1))

\* Mutant: the scope of the loop is not emptied between two iterations.
Mut_for_noEmpty(t, s) ==
  LET reg == t.registerAssignment
      t1 == set_registers([t EXCEPT !.registerAssignment = reg + 2], reg + 2)
      t2 == OpenScope(Push([t1 EXCEPT !.break_jump = OwnJump(t)],
                           <<I("EXCEPTION_CATCHER_PUSH")>>))
      t3 == Push(t2, <<I("LOAD_ITER"), Copy(0, reg), IV("LOAD", "next"), Copy(0, reg + 1)>>)
      start == Here(t3)
      t4 == [Push(t3, <<[I("FOR_LOOP_JUMP") EXCEPT !.x = reg, !.y = reg + 1],
                        IV("DECLARE", "x")>>)
               EXCEPT !.continue_jump = [pos   |-> start,
                                         exc   |-> t3.exception_handler_depth,
                                         scope |-> t3.scope_depth]]
      t5 == Push(translate_parsed(t4, s.body), <<ITo("JUMP", start)>>)
      t6 == Push(Patch(t5, t5.break_jump.positions, Here(t5)), <<I("JUMP")>>)
      t7 == Rethrow(Patch(t6, {Here(t)}, Here(t6)), reg, "StopIteration")
      t8 == Push(Patch(t7, {Here(t5)}, Here(t7)), <<IV("LOAD", "null")>>)
  IN IF t5.err # "none" THEN t5
     ELSE [t8 EXCEPT !.break_jump = t.break_jump, !.continue_jump = t.continue_jump,
                     !.scope_depth = t.scope_depth,
                     !.registerAssignment = t.registerAssignment]

\* A for loop: a catcher around it, not counted in exception_handler_depth, turns
\* the StopIteration of __next__ into its end, and gives the loop's scope back.
translate_parsed_for(t, s) ==
  LET reg == t.registerAssignment  \* the iterator's register, then the error's
      t1 == set_registers([t EXCEPT !.registerAssignment = reg + 2], reg + 2)
      t2 == OpenScope(Push([t1 EXCEPT !.break_jump = OwnJump(t)],
                           <<I("EXCEPTION_CATCHER_PUSH")>>))
      t3 == Push(t2, <<I("LOAD_ITER"), Copy(0, reg), IV("LOAD", "next"), Copy(0, reg + 1)>>)
      start == Here(t3)
      t4 == [Push(t3, <<I("EMPTY_SCOPE"),
                        [I("FOR_LOOP_JUMP") EXCEPT !.x = reg, !.y = reg + 1],
                        IV("DECLARE", "x")>>)
               EXCEPT !.continue_jump = [pos   |-> start,
                                         exc   |-> t3.exception_handler_depth,
                                         scope |-> t3.scope_depth]]
      t5 == Push(translate_parsed(t4, s.body), <<ITo("JUMP", start)>>)
      t6 == Push(Patch(t5, t5.break_jump.positions, Here(t5)), <<I("JUMP")>>)
      t7 == Rethrow(Patch(t6, {Here(t)}, Here(t6)), reg, "StopIteration")
      t8 == Push(Patch(t7, {Here(t5)}, Here(t7)), <<IV("LOAD", "null")>>)
  IN IF t5.err # "none" THEN t5
     ELSE [t8 EXCEPT !.break_jump = t.break_jump, !.continue_jump = t.continue_jump,
                     !.scope_depth = t.scope_depth,
                     !.registerAssignment = t.registerAssignment]

\* Mutant: the handler is given no register of its own.
Mut_try_noRegister(t, s) ==
  LET reg == t.registerAssignment - 1
      t1 == set_registers([t EXCEPT !.registerAssignment = @,
                                    !.exception_handler_depth = @ + 1], reg + 1)
      t2 == translate_parsed(OpenScope(Push(t1, <<I("EXCEPTION_CATCHER_PUSH")>>)), s.body)
      t3 == [Push(CloseScope(t2), <<I("EXCEPTION_CATCHER_POP"), I("JUMP")>>)
               EXCEPT !.exception_handler_depth = @ - 1]
      t4 == Rethrow(OpenScope(Patch(t3, {Here(t)}, Here(t3))), reg, s.class)
      t5 == translate_parsed(Push(t4, <<Copy(reg, 0), IV("DECLARE", "x")>>), s.handler)
      t6 == CloseScope(t5)
  IN IF t2.err # "none" THEN t2 ELSE IF t5.err # "none" THEN t5
     ELSE [Patch(t6, {Here(t3) - 1}, Here(t6))
             EXCEPT !.registerAssignment = t.registerAssignment]

translate_parsed_try(t, s) ==
  LET reg == t.registerAssignment
      t1 == set_registers([t EXCEPT !.registerAssignment = reg + 1,
                                    !.exception_handler_depth = @ + 1], reg + 1)
      t2 == translate_parsed(OpenScope(Push(t1, <<I("EXCEPTION_CATCHER_PUSH")>>)), s.body)
      t3 == [Push(CloseScope(t2), <<I("EXCEPTION_CATCHER_POP"), I("JUMP")>>)
               EXCEPT !.exception_handler_depth = @ - 1]
      t4 == Rethrow(OpenScope(Patch(t3, {Here(t)}, Here(t3))), reg, s.class)
      t5 == translate_parsed(Push(t4, <<Copy(reg, 0), IV("DECLARE", "x")>>), s.handler)
      t6 == CloseScope(t5)
  IN IF t2.err # "none" THEN t2 ELSE IF t5.err # "none" THEN t5
     ELSE [Patch(t6, {Here(t3) - 1}, Here(t6))
             EXCEPT !.registerAssignment = t.registerAssignment]

\* if and else, each branch in a scope of its own.
translate_parsed_if(t, s) ==
  LET t1 == Push(OpenScope(set_registers(t, 1)), <<I("BOOL"), I("JUMP_IF_FALSE")>>)
      t2 == translate_parsed(t1, s.then)
      t3 == Push(CloseScope(t2), <<I("JUMP")>>)
      t4 == Push(Patch(t3, {Here(t1) - 1}, Here(t3)), <<I("POP_SCOPE")>>)
      t5 == translate_parsed(OpenScope(t4), s.else)
      t6 == Push(CloseScope(t5), <<I("JUMP")>>)
      t7 == Patch(t6, {Here(t3) - 1, Here(t6) - 1}, Here(t6))
  IN IF t2.err # "none" THEN t2 ELSE IF t5.err # "none" THEN t5
     ELSE Push(t7, <<IV("LOAD", "null")>>)

\* A function body is compiled to bytecode of its own.  What the enclosing code
\* keeps for return, break and the depths is set aside, continue_jump is not.
translate_parsed_function(t, body) ==
  LET t1 == [t EXCEPT !.return_jump = NoJump, !.break_jump = NoJump,
                      !.scope_depth = 0, !.exception_handler_depth = 0,
                      !.registerAssignment = 1, !.bytecode = <<>>]
      t2 == translate_parsed(t1, body)
      t3 == [t EXCEPT !.functions = Append(t2.functions, t2.bytecode),
                      !.registerCount = t2.registerCount, !.err = t2.err]
  IN Push(t3, <<IV("LOAD", "function")>>)

\* A call of a function literal with one argument, which sees no break_jump and
\* no return_jump, but does see continue_jump.
translate_parsed_call(t, s) ==
  LET t1 == translate_parsed_function(set_registers(t, 1), s.body)
      fn == Len(t1.functions) + 1
      t2 == [OpenScope(Push(t1, <<ITo("INIT_CALL", fn)>>))
               EXCEPT !.break_jump = NoJump, !.return_jump = NoJump]
      t3 == translate_parsed(t2, s.arg)
      t4 == Push(CloseScope(t3), <<I("CALL")>>)
  IN IF t1.err # "none" THEN t1 ELSE IF t3.err # "none" THEN t3
     ELSE [t4 EXCEPT !.break_jump = t.break_jump, !.return_jump = t.return_jump]

translate_parsed(t, s) ==
  CASE s.k = "effect"   -> Push(t, <<IV("EFFECT", s.v)>>)
    [] s.k = "let"      -> Push(t, <<IV("LOAD", "null"), IV("DECLARE", "x")>>)
    [] s.k = "throw"    -> Push(t, <<IV("LOAD", s.v), I("THROW")>>)
    [] s.k = "break"    -> translate_parsed_break(t)
    [] s.k = "continue" -> translate_parsed_continue(t)
    [] s.k = "return"   -> translate_parsed_return(t, s)
    [] s.k = "do"       -> translate_parsed_dowrap(t, s)
    [] s.k = "while"    -> translate_parsed_while(t, s)
    [] s.k = "for"      -> translate_parsed_for(t, s)
    [] s.k = "try"      -> translate_parsed_try(t, s)
    [] s.k = "if"       -> translate_parsed_if(t, s)
    [] s.k = "call"     -> translate_parsed_call(t, s)

\* A module: the program's list of statements; function 1 is its own bytecode.
translate_module(list) == translate(init_translator, list)

Bytecode(t) ==
  LET n == Len(t.functions) + 1
  IN [code |-> <<t.bytecode>> \o t.functions, regs |-> [i \in 1..n |-> t.registerCount]]
=============================================================================
