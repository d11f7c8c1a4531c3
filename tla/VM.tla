---------------------------------- MODULE VM ----------------------------------
(***************************************************************************)
(* The bytecode interpreter, runtime() of src/src/runtime/runtime.c: stack *)
(* frames, each with its position, its chain of scopes, its exception      *)
(* catchers, its pending call instances and its registers.  A program is   *)
(* the bytecode of its functions; every instruction is an action.  Values  *)
(* are abstracted to the classes the instructions tell apart, and what an  *)
(* expression, a condition or an iterator does is a choice.                *)
(***************************************************************************)
EXTENDS Naturals, Sequences, SequencesExt

CONSTANTS
  Programs,      \* [code, regs]: each function's instructions and registerCount
  MaxChoices,    \* how many outcomes are chosen before the quiet ones follow
  MaxInterrupts  \* how many times the user presses Ctrl-C

Instruction == [op : STRING, x : Nat, y : Nat, to : Nat, v : STRING]

\* A program has a module, function 1, and every frame a register 0.
ASSUME ProgramsAssumption ==
  \A p \in Programs :
    /\ p.code \in Seq(Seq(Instruction)) /\ p.code # <<>>
    /\ p.regs \in [1..Len(p.code) -> Nat \ {0}]

VARIABLES
  program,              \* the program that runs
  frames,               \* currentStackFrame (the last) and those it returns to
  err, quiet_throw,     \* the error being raised, if any
  KeyboardInterrupted,  \* what sigint_handler sets
  created,              \* how many scopes create_scope has made
  declared,             \* the <<scope, name>> pairs that are declared
  stack_trace,          \* the depths of the frames listed in the error's trace
  interrupts, choices, trace  \* what the environment did, the effects it saw

vars == <<program, frames, err, quiet_throw, KeyboardInterrupted, created,
          declared, stack_trace, interrupts, choices, trace>>

\* Exceptions: "E" derives from Exception, the two signals from BaseException.
Errors == {"E", "StopIteration", "KeyboardInterrupt"}
Values == Errors \cup {"nil", "null", "true", "false", "iter", "next", "function"}

\* Mutant: the signals derive from Exception.
Mut_is_instance_signals(v, class) ==
  CASE class = "StopIteration" -> v = "StopIteration"
    [] OTHER                   -> v \in Errors

is_instance(v, class) ==
  CASE class = "Exception"     -> v = "E"
    [] class = "StopIteration" -> v = "StopIteration"
    [] OTHER                   -> v \in Errors

Depth == Len(frames)
Top   == frames[Depth]
Code  == program.code[Top.fn]

NewFrame(fn, scope) ==
  [fn |-> fn, ip |-> 1, stack |-> <<scope>>, catch |-> <<>>, calls |-> <<>>,
   r |-> [i \in 0..(program.regs[fn] - 1) |-> "nil"]]

Init ==
  /\ program \in Programs
  /\ frames = <<NewFrame(1, 1)>>
  /\ err = "none" /\ quiet_throw = FALSE
  /\ KeyboardInterrupted = FALSE
  /\ created = 1 /\ declared = {}
  /\ stack_trace = <<>>
  /\ interrupts = 0 /\ choices = <<>> /\ trace = <<>>

Running == frames # <<>> /\ err = "none"

\* The interpreter is about to execute instruction op.
Fetch(op) ==
  /\ Running /\ ~KeyboardInterrupted
  /\ Top.ip \in DOMAIN Code
  /\ Code[Top.ip].op = op

Instr == Code[Top.ip]

SetTop(f) == frames' = [frames EXCEPT ![Depth] = f]

\* The top frame at its next instruction; and with v in register i.
Stepped      == [Top EXCEPT !.ip = @ + 1]
Loaded(i, v) == [Stepped EXCEPT !.r[i] = v]

\* The environment picks o among outs, or the last resort once it has chosen enough.
Choose(outs, resort, o) ==
  \/ /\ Len(choices) < MaxChoices /\ o \in outs
     /\ choices' = Append(choices, o)
  \/ /\ Len(choices) >= MaxChoices /\ o = resort
     /\ UNCHANGED choices

\* An error object e is raised; create_err gives a new one an empty trace.
Raise(e) ==
  /\ err' = e /\ stack_trace' = <<>>

raising == <<err, quiet_throw, stack_trace>>
scopes  == <<created, declared>>
signals == <<KeyboardInterrupted, interrupts>>
outside == <<choices, trace>>

-------------------------------------------------------------------------------
(* Registers and jumps *)

\* LOAD_NULL, LOAD_FUNCTION, ...: register 0 gets a value; an exception is new.
Load ==
  /\ Fetch("LOAD")
  /\ SetTop(Loaded(0, Instr.v))
  /\ stack_trace' = IF Instr.v = "E" THEN <<>> ELSE stack_trace
  /\ UNCHANGED <<program, err, quiet_throw, scopes, signals, outside>>

CopyToRegister ==
  /\ Fetch("COPY_TO_REGISTER")
  /\ SetTop(Loaded(Instr.y, Top.r[Instr.x]))
  /\ UNCHANGED <<program, raising, scopes, signals, outside>>

\* LOAD_IS_INSTANCE_FUNCTION ... CALL on register x and a class.
IsInstance ==
  /\ Fetch("IS_INSTANCE")
  /\ SetTop(Loaded(0, IF is_instance(Top.r[Instr.x], Instr.v) THEN "true" ELSE "false"))
  /\ UNCHANGED <<program, raising, scopes, signals, outside>>

Not ==
  /\ Fetch("NOT")
  /\ SetTop(Loaded(0, IF Top.r[0] = "false" THEN "true" ELSE "false"))
  /\ UNCHANGED <<program, raising, scopes, signals, outside>>

Jump ==
  /\ Fetch("JUMP")
  /\ SetTop([Top EXCEPT !.ip = Instr.to])
  /\ UNCHANGED <<program, raising, scopes, signals, outside>>

JumpIfFalse ==
  /\ Fetch("JUMP_IF_FALSE")
  /\ SetTop([Top EXCEPT !.ip = IF Top.r[Instr.x] = "false" THEN Instr.to ELSE @ + 1])
  /\ UNCHANGED <<program, raising, scopes, signals, outside>>

-------------------------------------------------------------------------------
(* What the environment decides *)

\* The instructions of a simple expression, the native functions it calls
\* included: it has its effect or raises.  A signal that arrives during a native
\* call replaces what the call raised.
Effect ==
  /\ Fetch("EFFECT")
  /\ \E o \in {"ok", "E", "StopIteration"}, signal \in BOOLEAN :
       /\ Choose({"ok", "E", "StopIteration"}, "ok", o)
       /\ signal => interrupts < MaxInterrupts
       /\ interrupts' = IF signal THEN interrupts + 1 ELSE interrupts
       /\ trace' = IF o = "ok" THEN Append(trace, Instr.v) ELSE trace
       /\ IF o = "ok" /\ ~signal
            THEN SetTop(Loaded(0, "null")) /\ UNCHANGED <<err, stack_trace>>
            ELSE SetTop(Stepped) /\ Raise(IF signal THEN "KeyboardInterrupt" ELSE o)
  /\ UNCHANGED <<program, quiet_throw, scopes, KeyboardInterrupted>>

\* A condition is evaluated and converted to a boolean in register 0.
Bool ==
  /\ Fetch("BOOL")
  /\ \E o \in {"true", "false"} :
       /\ Choose({"true", "false"}, "false", o)
       /\ SetTop(Loaded(0, o))
  /\ UNCHANGED <<program, raising, scopes, signals, trace>>

\* The iterated expression and its __iter__.
LoadIter ==
  /\ Fetch("LOAD_ITER")
  /\ \E o \in {"iter", "E"} :
       /\ Choose({"iter", "E"}, "iter", o)
       /\ IF o = "iter"
            THEN SetTop(Loaded(0, "iter")) /\ UNCHANGED <<err, stack_trace>>
            ELSE SetTop(Stepped) /\ Raise("E")
  /\ UNCHANGED <<program, quiet_throw, scopes, signals, trace>>

\* __next__ of the iterator in register x.
ForLoopJump ==
  /\ Fetch("FOR_LOOP_JUMP")
  /\ \E o \in {"item", "StopIteration", "E"} :
       /\ Choose({"item", "StopIteration", "E"}, "StopIteration", o)
       /\ IF o = "item"
            THEN SetTop(Loaded(0, "null")) /\ UNCHANGED <<err, stack_trace>>
            ELSE SetTop(Stepped) /\ Raise(o)
  /\ UNCHANGED <<program, quiet_throw, scopes, signals, trace>>

-------------------------------------------------------------------------------
(* Scopes *)

NewScope ==
  /\ Fetch("NEW_SCOPE")
  /\ created' = created + 1
  /\ SetTop([Stepped EXCEPT !.stack = Append(@, created')])
  /\ UNCHANGED <<program, raising, declared, signals, outside>>

EmptyScope ==
  /\ Fetch("EMPTY_SCOPE")
  /\ Top.stack # <<>>
  /\ declared' = {d \in declared : d[1] # Last(Top.stack)}
  /\ SetTop(Stepped)
  /\ UNCHANGED <<program, raising, created, signals, outside>>

\* Popping a scope the frame did not open is outside the model: the frame stops.
PopScope ==
  /\ Fetch("POP_SCOPE")
  /\ Top.stack # <<>>
  /\ SetTop([Stepped EXCEPT !.stack = Front(@)])
  /\ UNCHANGED <<program, raising, scopes, signals, outside>>

\* A second declaration in one scope raises, though it does store the value.
Declare ==
  /\ Fetch("DECLARE")
  /\ Top.stack # <<>>
  /\ SetTop(Stepped)
  /\ LET d == <<Last(Top.stack), Instr.v>>
     IN /\ declared' = declared \cup {d}
        /\ IF d \in declared THEN Raise("E") ELSE UNCHANGED <<err, stack_trace>>
  /\ UNCHANGED <<program, quiet_throw, created, signals, outside>>

-------------------------------------------------------------------------------
(* Calls *)

\* The function in register 0, named by the instruction, waits for its arguments.
InitCall ==
  /\ Fetch("INIT_CALL")
  /\ SetTop([Stepped EXCEPT !.calls = Append(@, Instr.to)])
  /\ UNCHANGED <<program, raising, scopes, signals, outside>>

\* run_call pushes a frame in a new scope for the pending call instance, which is
\* dropped at once: the new frame returns to the next instruction.
Call ==
  /\ Fetch("CALL")
  /\ Top.calls # <<>>
  /\ Last(Top.calls) \in DOMAIN program.code
  /\ created' = created + 1
  /\ frames' = Append([frames EXCEPT ![Depth] = [Stepped EXCEPT !.calls = Front(@)]],
                      NewFrame(Last(Top.calls), created'))
  /\ UNCHANGED <<program, raising, declared, signals, outside>>

\* The end of a frame's bytecode: register 0 is the caller's result.
Return ==
  /\ Running /\ Top.ip > Len(Code)
  /\ frames' = IF Depth = 1 THEN <<>>
               ELSE [Front(frames) EXCEPT ![Depth - 1].r[0] = Top.r[0]]
  /\ UNCHANGED <<program, raising, scopes, signals, outside>>

-------------------------------------------------------------------------------
(* Exceptions *)

\* Throwing what is no exception raises a TypeError instead, and never quietly.
Throw ==
  /\ Fetch("THROW")
  /\ SetTop(Stepped)
  /\ IF Top.r[0] \in Errors
       THEN err' = Top.r[0] /\ UNCHANGED stack_trace
       ELSE Raise("E")
  /\ UNCHANGED <<program, quiet_throw, scopes, signals, outside>>

\* Mutant: the rethrow of a handler that does not apply is not quiet.
Mut_QuietThrow_loud ==
  /\ Fetch("QUIET_THROW")
  /\ SetTop(Stepped)
  /\ err' = Top.r[0]
  /\ UNCHANGED <<program, quiet_throw, stack_trace, scopes, signals, outside>>

QuietThrow ==
  /\ Fetch("QUIET_THROW")
  /\ SetTop(Stepped)
  /\ IF Top.r[0] \in Errors
       THEN err' = Top.r[0] /\ quiet_throw' = TRUE /\ UNCHANGED stack_trace
       ELSE Raise("E") /\ UNCHANGED quiet_throw
  /\ UNCHANGED <<program, scopes, signals, outside>>

\* A catcher is named by the instruction that pushed it (at).
ExceptionCatcherPush ==
  /\ Fetch("EXCEPTION_CATCHER_PUSH")
  /\ SetTop([Stepped EXCEPT !.catch =
        Append(@, [jump_to |-> Instr.to, stack |-> Top.stack, calls |-> Top.calls,
                   at |-> Top.ip])])
  /\ UNCHANGED <<program, raising, scopes, signals, outside>>

\* Popping the catcher of a frame that has none does nothing.
ExceptionCatcherPop ==
  /\ Fetch("EXCEPTION_CATCHER_POP")
  /\ SetTop([Stepped EXCEPT !.catch = IF @ = <<>> THEN @ ELSE Front(@)])
  /\ UNCHANGED <<program, raising, scopes, signals, outside>>

\* The error leaves the instruction loop: it notes the frame it passes through.
NoteFrame ==
  stack_trace' = IF err = "E" /\ ~quiet_throw THEN Append(stack_trace, Depth)
                                              ELSE stack_trace

\* Mutant: the pending call instances of the interrupted expression stay.
Mut_Catch_keepsCalls ==
  /\ frames # <<>> /\ err # "none" /\ Top.catch # <<>>
  /\ NoteFrame
  /\ LET c == Last(Top.catch)
     IN SetTop([Top EXCEPT !.ip = c.jump_to, !.stack = c.stack,
                           !.catch = Front(@), !.r[0] = err])
  /\ err' = "none" /\ quiet_throw' = FALSE
  /\ UNCHANGED <<program, scopes, signals, outside>>

\* The innermost catcher takes the error: its scope and call instances are back.
Catch ==
  /\ frames # <<>> /\ err # "none" /\ Top.catch # <<>>
  /\ NoteFrame
  /\ LET c == Last(Top.catch)
     IN SetTop([Top EXCEPT !.ip = c.jump_to, !.stack = c.stack, !.calls = c.calls,
                           !.catch = Front(@), !.r[0] = err])
  /\ err' = "none" /\ quiet_throw' = FALSE
  /\ UNCHANGED <<program, scopes, signals, outside>>

\* Mutant: only a frame with a caller is left.
Mut_Unwind_needsCaller ==
  /\ Depth > 1 /\ err # "none" /\ Top.catch = <<>>
  /\ NoteFrame
  /\ frames' = [Front(frames) EXCEPT ![Depth - 1].r[0] = Top.r[0]]
  /\ quiet_throw' = FALSE
  /\ UNCHANGED <<program, err, scopes, signals, outside>>

\* No catcher in the frame: the error goes to the caller.
Unwind ==
  /\ frames # <<>> /\ err # "none" /\ Top.catch = <<>>
  /\ NoteFrame
  /\ frames' = IF Depth = 1 THEN <<>>
               ELSE [Front(frames) EXCEPT ![Depth - 1].r[0] = Top.r[0]]
  /\ quiet_throw' = FALSE
  /\ UNCHANGED <<program, err, scopes, signals, outside>>

-------------------------------------------------------------------------------
(* Signals *)

sigint_handler ==
  /\ frames # <<>> /\ interrupts < MaxInterrupts
  /\ KeyboardInterrupted' = TRUE
  /\ interrupts' = interrupts + 1
  /\ UNCHANGED <<program, frames, raising, scopes, outside>>

\* Before each instruction the interpreter looks whether a signal has arrived.
TakeInterrupt ==
  /\ Running /\ KeyboardInterrupted /\ Top.ip \in DOMAIN Code
  /\ err' = "KeyboardInterrupt"
  /\ KeyboardInterrupted' = FALSE
  /\ UNCHANGED <<program, frames, quiet_throw, stack_trace, scopes, interrupts, outside>>

Step ==
  \/ Load \/ CopyToRegister \/ IsInstance \/ Not \/ Jump \/ JumpIfFalse
  \/ Effect \/ Bool \/ LoadIter \/ ForLoopJump
  \/ NewScope \/ EmptyScope \/ PopScope \/ Declare
  \/ InitCall \/ Call \/ Return
  \/ Throw \/ QuietThrow \/ ExceptionCatcherPush \/ ExceptionCatcherPop
  \/ Catch \/ Unwind \/ TakeInterrupt

Next == Step \/ sigint_handler

Spec     == Init /\ [][Next]_vars
FairSpec == Spec /\ WF_vars(Step)

=============================================================================
