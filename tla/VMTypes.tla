------------------------------- MODULE VMTypes -------------------------------
(***************************************************************************)
(* What the translator's bytecode promises the interpreter: a program has  *)
(* a type when at every position that can be reached it is known how many  *)
(* scopes the frame has open, which EXCEPTION_CATCHER_PUSH instructions    *)
(* are active, which calls are pending and what can be relied on in the    *)
(* registers, whatever path led there.                                     *)
(***************************************************************************)
EXTENDS VM

\* At the start of a function: its own scope and nothing else.
Start == [stack |-> 1, catch |-> <<>>, calls |-> <<>>]

\* The instruction finds the scope, catcher or call instance and the registers it
\* uses, n of which the frame has, and the function it names among the program's m.
Safe(i, ty, n, m) ==
  /\ i.op \in {"EMPTY_SCOPE", "POP_SCOPE", "DECLARE"} => ty.stack > 0
  /\ i.op = "EXCEPTION_CATCHER_POP" => ty.catch # <<>>
  /\ i.op = "CALL" => ty.calls # <<>>
  /\ i.op = "INIT_CALL" => i.to \in 1..m
  /\ i.op = "LOAD" => i.v \in Values
  /\ i.x \in 0..(n - 1) /\ i.y \in 0..(n - 1)

\* The type behind instruction i, when control goes on to the next one.
After(i, ip, ty) ==
  CASE i.op = "NEW_SCOPE"             -> [ty EXCEPT !.stack = @ + 1]
    [] i.op = "POP_SCOPE"             -> [ty EXCEPT !.stack = @ - 1]
    [] i.op = "INIT_CALL"             -> [ty EXCEPT !.calls = Append(@, i.to)]
    [] i.op = "CALL"                  -> [ty EXCEPT !.calls = Front(@)]
    [] i.op = "EXCEPTION_CATCHER_PUSH" -> [ty EXCEPT !.catch = Append(@, ip)]
    [] i.op = "EXCEPTION_CATCHER_POP" -> [ty EXCEPT !.catch = Front(@)]
    [] OTHER                          -> ty

\* Where control can go from instruction i at ip, and with which type.  The jump
\* of a catcher is taken once the catcher itself is gone.
Edges(i, ip, ty) ==
  (IF i.op = "JUMP" THEN {} ELSE {<<ip + 1, After(i, ip, ty)>>})
    \cup (IF i.op \in {"JUMP", "JUMP_IF_FALSE", "EXCEPTION_CATCHER_PUSH"}
          THEN {<<i.to, ty>>} ELSE {})

Types == [stack : Nat, catch : Seq(Nat), calls : Seq(Nat)]

\* The innermost catcher was pushed where all the others were already active.
Chained(c, T, catch) ==
  catch # <<>> =>
    LET p == Last(catch)
    IN /\ p \in DOMAIN T \cap DOMAIN c
       /\ c[p].op = "EXCEPTION_CATCHER_PUSH"
       /\ T[p].catch = Front(catch)

\* A scope is opened only above those that an active catcher will restore.
OpensAbove(i, T, ty) ==
  i.op = "NEW_SCOPE" => \A j \in DOMAIN ty.catch : T[ty.catch[j]].stack <= ty.stack

\* At the end no scope is open but the function's own and no call is pending.
\* Catchers may be left over: they go with the frame.
Ended(ty) == ty.stack = 1 /\ ty.calls = <<>>

\* T types the bytecode c: every edge keeps it, or reaches the end in order.
IsTyping(c, T, n, m) ==
  /\ DOMAIN T \subseteq DOMAIN c
  /\ IF c = <<>> THEN TRUE ELSE 1 \in DOMAIN T /\ T[1] = Start
  /\ \A ip \in DOMAIN T :
       /\ T[ip] \in Types
       /\ Chained(c, T, T[ip].catch)
       /\ Safe(c[ip], T[ip], n, m)
       /\ OpensAbove(c[ip], T, T[ip])
       /\ \A e \in Edges(c[ip], ip, T[ip]) :
            /\ e[1] \in DOMAIN T => T[e[1]] = e[2]
            /\ e[1] \notin DOMAIN T => e[1] = Len(c) + 1 /\ Ended(e[2])

-------------------------------------------------------------------------------
(* Registers *)

\* What is known at a position is a set of pairs, of a register and what it holds: the
\* iterator of a for loop, its __next__, an exception, if one at all, that was made after
\* the last raise, or the exception that was caught last.
Lasting == {"iter", "next"}
Marks   == Lasting \cup {"fresh", "caught"}

\* What is still known when something may have been raised since.
Outlives(m)   == {k \in m : k[2] \in Lasting}
Without(m, x) == {k \in m : k[1] # x}
Holding(m, x, marks) == Without(m, x) \cup {<<x, k>> : k \in marks}

\* What is known in a catcher, and behind instruction i when it does not raise.
Thrown(m) == Holding(Outlives(m), 0, {"caught"})

Behind(i, m) ==
  CASE i.op = "LOAD" ->
         Holding(Outlives(m), 0, {IF i.v = "next" THEN "next" ELSE "fresh"})
    [] i.op = "LOAD_ITER" -> Holding(m, 0, {"iter"})
    [] i.op = "COPY_TO_REGISTER" -> Holding(m, i.y, {k \in Marks : <<i.x, k>> \in m})
    [] i.op = "CALL" -> Without(Outlives(m), 0)
    [] i.op \in {"IS_INSTANCE", "NOT", "EFFECT", "BOOL", "FOR_LOOP_JUMP"} -> Without(m, 0)
    [] OTHER -> m

\* A loop needs its own iterator, a throw a new exception, a rethrow the one it caught.
Needs(i, m) ==
  /\ i.op = "FOR_LOOP_JUMP" => <<i.x, "iter">> \in m /\ <<i.y, "next">> \in m
  /\ i.op = "THROW"         => <<0, "fresh">> \in m
  /\ i.op = "QUIET_THROW"   => <<0, "caught">> \in m

\* Where control goes from the instruction at ip without a raise, and where any of the
\* catchers that are active behind it may take it, with what is known there.
Nexts(i, ip) ==
  (IF i.op = "JUMP" THEN {} ELSE {ip + 1})
    \cup (IF i.op \in {"JUMP", "JUMP_IF_FALSE"} THEN {i.to} ELSE {})

Goes(c, ip, ty, m) ==
  LET n == Behind(c[ip], m)
  IN {<<t, n>> : t \in Nexts(c[ip], ip)}
       \cup {<<c[q].to, Thrown(n)>> : q \in Range(After(c[ip], ip, ty).catch)}

\* M says what is known of the n registers at every position typed by T, whatever path led
\* there, and it is what the instructions need.
IsMarking(c, T, M, n) ==
  /\ DOMAIN M = DOMAIN T
  /\ 1 \in DOMAIN M => M[1] = {}
  /\ \A ip \in DOMAIN M :
       /\ M[ip] \subseteq (0..(n - 1)) \X Marks
       /\ Needs(c[ip], M[ip])
       /\ \A e \in Goes(c, ip, T[ip], M[ip]) : e[1] \in DOMAIN M => M[e[1]] \subseteq e[2]

WellTyped(p) ==
  \A fn \in DOMAIN p.code :
    /\ IsTyping(p.code[fn], p.type[fn], p.regs[fn], Len(p.code))
    /\ IsMarking(p.code[fn], p.type[fn], p.marks[fn], p.regs[fn])

TypedSpec == Init /\ WellTyped(program) /\ [][Next]_vars

-------------------------------------------------------------------------------
(* What a well-typed program keeps *)

Catcher == [jump_to : Nat, stack : Seq(Nat), calls : Seq(Nat), at : Nat]

FrameTypeOK(p, f) ==
  /\ f.fn \in DOMAIN p.code
  /\ f.ip \in Nat
  /\ f.stack \in Seq(Nat) /\ f.calls \in Seq(Nat) /\ f.catch \in Seq(Catcher)
  /\ f.r \in [0..(p.regs[f.fn] - 1) -> Values]

\* The type invariant: registers hold values, never "none" or a foreign mark.
TypeOK ==
  /\ \A i \in DOMAIN frames : FrameTypeOK(program, frames[i])
  /\ err \in Errors \cup {"none"}
  /\ quiet_throw \in BOOLEAN /\ KeyboardInterrupted \in BOOLEAN
  /\ created \in Nat /\ interrupts \in Nat
  /\ stack_trace \in Seq(Nat)

\* Where the active catchers of f were pushed.
Active(f) == [i \in DOMAIN f.catch |-> f.catch[i].at]

\* What catcher e will restore is the frame as it was where the catcher was pushed;
\* c and T are the bytecode and the typing of its function.
Restores(c, T, e) ==
  /\ e.jump_to = c[e.at].to
  /\ Len(e.stack) = T[e.at].stack
  /\ e.calls = T[e.at].calls

\* f is as the type of its position says; or it has run off the end of its bytecode
\* with its scopes closed and its calls made, whatever catchers it still has.
FrameOK(p, f) ==
  LET T == p.type[f.fn]
      c == p.code[f.fn]
  IN /\ f.ip \in DOMAIN T =>
          Len(f.stack) = T[f.ip].stack /\ f.calls = T[f.ip].calls /\ Active(f) = T[f.ip].catch
     /\ f.ip \notin DOMAIN T =>
          f.ip = Len(c) + 1 /\ Len(f.stack) = 1 /\ f.calls = <<>>
     /\ Chained(c, T, Active(f))
     /\ \A i \in DOMAIN f.catch : Restores(c, T, f.catch[i])

\* Whatever was thrown, caught or interrupted on the way, every frame has exactly the
\* scopes, catchers and pending calls that belong to the place where it is.
NestingAsTyped == \A i \in DOMAIN frames : FrameOK(program, frames[i])

\* An error's stack trace goes up the frames one by one: rethrowing an error in a
\* handler that does not apply never lists a frame twice, and what leaves the
\* program lists it up to the module's frame.
TraceGoesUp ==
  err = "E" =>
    /\ \A i \in 1..(Len(stack_trace) - 1) : stack_trace[i + 1] = stack_trace[i] - 1
    /\ frames = <<>> => stack_trace # <<>> /\ Last(stack_trace) = 1
    /\ frames # <<>> /\ stack_trace # <<>> => Last(stack_trace) \in {Depth, Depth + 1}

\* The loop instruction of a for statement finds the loop's own iterator in its
\* register, not the error a handler or another loop put there.
IteratorInPlace ==
  Fetch("FOR_LOOP_JUMP") =>
    Top.r[Instr.x] = "iter" /\ Top.r[Instr.y] = "next"

\* The scopes a catcher will restore are those the frame has open now, or the frame
\* is on its way out of them: never a chain that has been left for another.
SavedScopesAreOpen ==
  \A i \in DOMAIN frames : \A j \in DOMAIN frames[i].catch :
    LET saved == frames[i].catch[j].stack
    IN IsPrefix(saved, frames[i].stack) \/ IsPrefix(frames[i].stack, saved)
=============================================================================
