------------------------------- MODULE VMProofs -------------------------------
(***************************************************************************)
(* What holds of the interpreter on every well-typed program, whatever the *)
(* program, the choices and the interrupts.  The argument: every action    *)
(* moves the top frame along an edge of the typing (Move), and a frame     *)
(* moved along an edge is again as its type says.                          *)
(***************************************************************************)
EXTENDS VMTypes, SequenceTheorems, TLAPS

Registers == UNION {[0..n -> Values] : n \in Nat}

Frame == [fn : Nat, ip : Nat, stack : Seq(Nat), catch : Seq(Catcher),
          calls : Seq(Nat), r : Registers]

Good(p, f) == f \in Frame /\ FrameTypeOK(p, f) /\ FrameOK(p, f)

\* A program of the set, with a typing.
Fine(p) == p \in Programs /\ WellTyped(p)

-------------------------------------------------------------------------------
(* Programs *)

\* The parts of a program, for a function fn of it.
LEMMA Parts ==
  ASSUME NEW p, Fine(p), NEW fn \in DOMAIN p.code
  PROVE  /\ p.code[fn] \in Seq(Instruction)
         /\ p.regs[fn] \in Nat \ {0}
         /\ Len(p.code) \in Nat
         /\ fn \in 1..Len(p.code)
         /\ DOMAIN p.code = 1..Len(p.code)
         /\ IsTyping(p.code[fn], p.type[fn], p.regs[fn], Len(p.code))
<1>1. /\ p.code \in Seq(Seq(Instruction))
      /\ p.regs \in [1..Len(p.code) -> Nat \ {0}]
  BY ProgramsAssumption DEF Fine
<1>2. Len(p.code) \in Nat /\ DOMAIN p.code = 1..Len(p.code)
  BY <1>1, LenProperties
<1>3. p.code[fn] \in Seq(Instruction)
  BY <1>1, <1>2, ElementOfSeq
<1> QED BY <1>1, <1>2, <1>3 DEF Fine, WellTyped

LEMMA TypeFields ==
  ASSUME NEW ty \in Types
  PROVE  /\ ty.stack \in Nat /\ ty.catch \in Seq(Nat) /\ ty.calls \in Seq(Nat)
         /\ \A n \in Nat : LET u == [ty EXCEPT !.stack = n]
              IN u \in Types /\ u.stack = n /\ u.catch = ty.catch /\ u.calls = ty.calls
         /\ \A s \in Seq(Nat) : LET u == [ty EXCEPT !.catch = s]
              IN u \in Types /\ u.stack = ty.stack /\ u.catch = s /\ u.calls = ty.calls
         /\ \A s \in Seq(Nat) : LET u == [ty EXCEPT !.calls = s]
              IN u \in Types /\ u.stack = ty.stack /\ u.catch = ty.catch /\ u.calls = s
BY DEF Types

\* Every type an edge leads to has its catchers in order.
LEMMA EdgeChained ==
  ASSUME NEW c \in Seq(Instruction), NEW T, NEW n, NEW m, IsTyping(c, T, n, m),
         NEW q \in DOMAIN T, NEW e \in Edges(c[q], q, T[q])
  PROVE  Chained(c, T, e[2].catch) /\ e[2] \in Types
<1> DEFINE i == c[q]
           ty == T[q]
<1>1. ty \in Types /\ Chained(c, T, ty.catch) /\ Safe(i, ty, n, m) /\ q \in DOMAIN c
  BY DEF IsTyping
<1>2. q \in 1..Len(c) /\ Len(c) \in Nat
  BY <1>1, LenProperties
<1>a. i \in Instruction
  BY <1>2, ElementOfSeq
<1>b. q \in Nat /\ i.to \in Nat
  BY <1>2, <1>a DEF Instruction
<1>3. e[2] = ty \/ e[2] = After(i, q, ty)
  BY DEF Edges
<1>4. CASE e[2] = ty
  BY <1>1, <1>4
<1>5. CASE e[2] = After(i, q, ty)
  <2>1. CASE i.op = "EXCEPTION_CATCHER_PUSH"
    <3>1. e[2] = [ty EXCEPT !.catch = Append(@, q)]
      BY <1>5, <2>1 DEF After
    <3>2. e[2].catch = Append(ty.catch, q) /\ ty.catch \in Seq(Nat)
      BY <3>1, <1>1 DEF Types
    <3>3. e[2] \in Types
      <4> DEFINE s == Append(ty.catch, q)
      <4>1. s \in Seq(Nat) /\ e[2] = [ty EXCEPT !.catch = s]
        BY <3>1, <3>2, <1>b, AppendProperties
      <4> HIDE DEF s
      <4> QED BY <4>1, <1>1, TypeFields
    <3>4. Last(e[2].catch) = q /\ Front(e[2].catch) = ty.catch
      BY <3>2, <1>b, AppendProperties, HeadTailAppend DEF Front, Last
    <3> QED BY <3>3, <3>4, <2>1, <1>1 DEF Chained
  <2>2. CASE i.op = "EXCEPTION_CATCHER_POP"
    <3>1. e[2] = [ty EXCEPT !.catch = Front(@)] /\ ty.catch # <<>>
      BY <1>5, <2>2, <1>1 DEF After, Safe
    <3>2. e[2].catch = Front(ty.catch)
      BY <3>1, <1>1 DEF Types
    <3> DEFINE r == Last(ty.catch)
    <3>3. r \in DOMAIN T /\ T[r].catch = Front(ty.catch)
      BY <3>1, <1>1 DEF Chained
    <3>4. Chained(c, T, T[r].catch) /\ T[r] \in Types
      BY <3>3 DEF IsTyping
    <3>5. e[2] \in Types
      BY <3>1, <3>2, <3>3, <3>4, <1>1 DEF Types
    <3> QED BY <3>2, <3>3, <3>4, <3>5
  <2>3. CASE i.op \notin {"EXCEPTION_CATCHER_PUSH", "EXCEPTION_CATCHER_POP"}
    <3>1. CASE i.op = "NEW_SCOPE"
      <4>1. e[2] = [ty EXCEPT !.stack = ty.stack + 1] /\ ty.stack + 1 \in Nat
        BY <3>1, <1>5, <1>1, TypeFields DEF After
      <4> QED BY <4>1, <1>1, TypeFields
    <3>2. CASE i.op = "POP_SCOPE"
      <4>1. e[2] = [ty EXCEPT !.stack = ty.stack - 1] /\ ty.stack - 1 \in Nat
        BY <3>2, <1>5, <1>1, TypeFields DEF After, Safe
      <4> QED BY <4>1, <1>1, TypeFields
    <3>3. CASE i.op = "INIT_CALL"
      <4> DEFINE s == Append(ty.calls, i.to)
      <4>1. e[2] = [ty EXCEPT !.calls = s]
        BY <3>3, <1>5 DEF After
      <4>2. s \in Seq(Nat)
        BY <1>1, <1>b, TypeFields, AppendProperties
      <4> HIDE DEF s
      <4> QED BY <4>1, <4>2, <1>1, TypeFields
    <3>4. CASE i.op = "CALL"
      <4>1. e[2] = [ty EXCEPT !.calls = Front(@)] /\ ty.calls # <<>> /\ ty.calls \in Seq(Nat)
        BY <3>4, <1>5, <1>1 DEF After, Safe, Types
      <4>2. Front(ty.calls) \in Seq(Nat)
        BY <4>1, SubSeqProperties DEF Front
      <4> QED BY <4>1, <4>2, <1>1 DEF Types
    <3>5. CASE i.op \notin {"NEW_SCOPE", "POP_SCOPE", "INIT_CALL", "CALL"}
      BY <3>5, <2>3, <1>5, <1>1 DEF After
    <3> QED BY <3>1, <3>2, <3>3, <3>4, <3>5
  <2> QED BY <2>1, <2>2, <2>3
<1> QED BY <1>3, <1>4, <1>5

-------------------------------------------------------------------------------
(* Frames *)

LEMMA FrameFields ==
  ASSUME NEW f \in Frame
  PROVE  /\ f.ip \in Nat /\ f.ip + 1 \in Nat
         /\ f.fn \in Nat /\ f.stack \in Seq(Nat) /\ f.catch \in Seq(Catcher)
         /\ f.calls \in Seq(Nat) /\ f.r \in Registers
BY DEF Frame

\* Changing a frame's position and one more part of it.
LEMMA FrameUpdate ==
  ASSUME NEW F, NEW N, NEW S, NEW C, NEW K, NEW R,
         NEW f \in [fn : F, ip : N, stack : S, catch : C, calls : K, r : R],
         NEW n \in N
  PROVE  /\ \A st \in S : LET g == [f EXCEPT !.ip = n, !.stack = st]
              IN /\ g \in [fn : F, ip : N, stack : S, catch : C, calls : K, r : R]
                 /\ g.fn = f.fn /\ g.ip = n /\ g.stack = st /\ g.catch = f.catch
                 /\ g.calls = f.calls /\ g.r = f.r
         /\ \A k \in K : LET g == [f EXCEPT !.ip = n, !.calls = k]
              IN /\ g \in [fn : F, ip : N, stack : S, catch : C, calls : K, r : R]
                 /\ g.fn = f.fn /\ g.ip = n /\ g.stack = f.stack /\ g.catch = f.catch
                 /\ g.calls = k /\ g.r = f.r
         /\ \A h \in C : LET g == [f EXCEPT !.ip = n, !.catch = h]
              IN /\ g \in [fn : F, ip : N, stack : S, catch : C, calls : K, r : R]
                 /\ g.fn = f.fn /\ g.ip = n /\ g.stack = f.stack /\ g.catch = h
                 /\ g.calls = f.calls /\ g.r = f.r
OBVIOUS

\* A frame that has followed an edge of the typing of its function is as it should be.
LEMMA Move ==
  ASSUME NEW p, Fine(p), NEW g \in Frame, FrameTypeOK(p, g),
         NEW q \in DOMAIN p.type[g.fn],
         NEW e \in Edges(p.code[g.fn][q], q, p.type[g.fn][q]),
         g.ip = e[1], Len(g.stack) = e[2].stack, g.calls = e[2].calls,
         Active(g) = e[2].catch,
         \A j \in DOMAIN g.catch : Restores(p.code[g.fn], p.type[g.fn], g.catch[j])
  PROVE  Good(p, g)
<1> DEFINE c == p.code[g.fn]
           T == p.type[g.fn]
           n == p.regs[g.fn]
           m == Len(p.code)
<1>1. c \in Seq(Instruction) /\ IsTyping(c, T, n, m)
  BY Parts DEF FrameTypeOK
<1>2. Chained(c, T, e[2].catch)
  BY <1>1, EdgeChained
<1>3. e[1] \in DOMAIN T => T[e[1]] = e[2]
  BY <1>1 DEF IsTyping
<1>4. e[1] \notin DOMAIN T => e[1] = Len(c) + 1 /\ e[2].stack = 1 /\ e[2].calls = <<>>
  BY <1>1 DEF IsTyping, Ended
<1>5. FrameOK(p, g)
  BY <1>2, <1>3, <1>4 DEF FrameOK
<1> QED BY <1>5 DEF Good

\* A frame about to execute an instruction is typed where it is.
LEMMA AtInstruction ==
  ASSUME NEW p, Fine(p), NEW f, Good(p, f), f.ip \in DOMAIN p.code[f.fn]
  PROVE  LET c == p.code[f.fn]
             T == p.type[f.fn]
         IN /\ f.fn \in DOMAIN p.code
            /\ c \in Seq(Instruction) /\ c[f.ip] \in Instruction
            /\ f.ip \in DOMAIN T /\ T[f.ip] \in Types
            /\ Len(f.stack) = T[f.ip].stack /\ f.calls = T[f.ip].calls
            /\ Active(f) = T[f.ip].catch
            /\ Safe(c[f.ip], T[f.ip], p.regs[f.fn], Len(p.code))
            /\ \A j \in DOMAIN f.catch : Restores(c, T, f.catch[j])
<1> DEFINE c == p.code[f.fn]
           T == p.type[f.fn]
<1>1. f.fn \in DOMAIN p.code
  BY DEF Good, FrameTypeOK
<1>2. c \in Seq(Instruction) /\ IsTyping(c, T, p.regs[f.fn], Len(p.code))
  BY <1>1, Parts
<1>3. f.ip \in 1..Len(c) /\ Len(c) \in Nat
  BY <1>2, LenProperties
<1>4. f.ip \in DOMAIN T
  BY <1>3 DEF Good, FrameOK
<1>5. c[f.ip] \in Instruction
  BY <1>2, <1>3, ElementOfSeq
<1>6. T[f.ip] \in Types /\ Safe(c[f.ip], T[f.ip], p.regs[f.fn], Len(p.code))
  BY <1>2, <1>4 DEF IsTyping
<1> QED BY <1>1, <1>2, <1>4, <1>5, <1>6 DEF Good, FrameOK

\* A frame f at an instruction whose type does not change goes on to n with its
\* registers r.
LEMMA Onward ==
  ASSUME NEW p, Fine(p), NEW f, Good(p, f), f.ip \in DOMAIN p.code[f.fn],
         NEW n, <<n, p.type[f.fn][f.ip]>> \in
                  Edges(p.code[f.fn][f.ip], f.ip, p.type[f.fn][f.ip]),
         n \in Nat,
         NEW r \in [0..(p.regs[f.fn] - 1) -> Values]
  PROVE  Good(p, [f EXCEPT !.ip = n, !.r = r])
<1> DEFINE g == [f EXCEPT !.ip = n, !.r = r]
<1>1. f \in Frame /\ FrameTypeOK(p, f)
  BY DEF Good
<1>2. p.regs[f.fn] - 1 \in Nat
  BY <1>1, Parts DEF FrameTypeOK
<1>3. r \in Registers
  BY <1>2 DEF Registers
<1>4. /\ g \in Frame /\ g.fn = f.fn /\ g.ip = n /\ g.stack = f.stack
      /\ g.catch = f.catch /\ g.calls = f.calls /\ g.r = r
  BY <1>1, <1>3 DEF Frame
<1>5. FrameTypeOK(p, g)
  BY <1>1, <1>4 DEF FrameTypeOK
<1>6. Active(g) = Active(f)
  BY <1>4 DEF Active
<1> DEFINE e == <<n, p.type[f.fn][f.ip]>>
<1>7. e[1] = n /\ e[2] = p.type[f.fn][f.ip]
  OBVIOUS
<1> HIDE DEF g, e
<1>8. e \in Edges(p.code[f.fn][f.ip], f.ip, p.type[f.fn][f.ip])
  BY DEF e
<1>9. Good(p, g)
  <2>1. /\ f.ip \in DOMAIN p.type[f.fn]
        /\ Len(f.stack) = p.type[f.fn][f.ip].stack
        /\ f.calls = p.type[f.fn][f.ip].calls
        /\ Active(f) = p.type[f.fn][f.ip].catch
        /\ \A j \in DOMAIN f.catch : Restores(p.code[f.fn], p.type[f.fn], f.catch[j])
    BY AtInstruction
  <2>2. f.ip \in DOMAIN p.type[g.fn]
    BY <2>1, <1>4
  <2>3. e \in Edges(p.code[g.fn][f.ip], f.ip, p.type[g.fn][f.ip])
    BY <1>8, <1>4
  <2>4. /\ g.ip = e[1] /\ Len(g.stack) = e[2].stack
        /\ g.calls = e[2].calls /\ Active(g) = e[2].catch
    BY <2>1, <1>4, <1>6, <1>7
  <2>5. \A j \in DOMAIN g.catch : Restores(p.code[g.fn], p.type[g.fn], g.catch[j])
    BY <2>1, <1>4
  <2> QED BY <2>2, <2>3, <2>4, <2>5, <1>4, <1>5, Move
<1> QED BY <1>9 DEF g

\* A frame f at an instruction that changes its scopes goes on with the stack st.
LEMMA ScopesChange ==
  ASSUME NEW p, Fine(p), NEW f, Good(p, f), f.ip \in DOMAIN p.code[f.fn],
         p.code[f.fn][f.ip].op \in {"NEW_SCOPE", "POP_SCOPE"},
         NEW st \in Seq(Nat),
         Len(st) = After(p.code[f.fn][f.ip], f.ip, p.type[f.fn][f.ip]).stack
  PROVE  Good(p, [f EXCEPT !.ip = f.ip + 1, !.stack = st])
<1> DEFINE i == p.code[f.fn][f.ip]
           ty == p.type[f.fn][f.ip]
           e == <<f.ip + 1, After(i, f.ip, ty)>>
           g == [f EXCEPT !.ip = f.ip + 1, !.stack = st]
<1>1. f \in Frame /\ FrameTypeOK(p, f)
  BY DEF Good
<1>2. /\ g \in Frame /\ g.fn = f.fn /\ g.ip = f.ip + 1 /\ g.stack = st
      /\ g.catch = f.catch /\ g.calls = f.calls /\ g.r = f.r
  BY <1>1, FrameFields, FrameUpdate DEF Frame
<1>3. FrameTypeOK(p, g) /\ Active(g) = Active(f)
  BY <1>1, <1>2 DEF FrameTypeOK, Active
<1>4. /\ f.ip \in DOMAIN p.type[f.fn] /\ ty \in Types
      /\ f.calls = ty.calls /\ Active(f) = ty.catch
      /\ \A j \in DOMAIN f.catch : Restores(p.code[f.fn], p.type[f.fn], f.catch[j])
  BY AtInstruction
<1>5. e \in Edges(i, f.ip, ty)
  BY DEF Edges
<1>6. /\ e[1] = f.ip + 1 /\ e[2].stack = Len(st)
      /\ e[2].calls = ty.calls /\ e[2].catch = ty.catch
  BY <1>4 DEF After, Types
<1> HIDE DEF g, e
<1>7. e \in Edges(p.code[g.fn][f.ip], f.ip, p.type[g.fn][f.ip])
  BY <1>5, <1>2
<1>8. f.ip \in DOMAIN p.type[g.fn]
  BY <1>4, <1>2
<1>9. \A j \in DOMAIN g.catch : Restores(p.code[g.fn], p.type[g.fn], g.catch[j])
  BY <1>4, <1>2
<1>10. Good(p, g)
  BY <1>2, <1>3, <1>4, <1>6, <1>7, <1>8, <1>9, Move
<1> QED BY <1>10 DEF g

\* A frame f at an instruction that changes its pending calls goes on with k.
LEMMA CallsChange ==
  ASSUME NEW p, Fine(p), NEW f, Good(p, f), f.ip \in DOMAIN p.code[f.fn],
         p.code[f.fn][f.ip].op \in {"INIT_CALL", "CALL"},
         NEW k \in Seq(Nat),
         k = After(p.code[f.fn][f.ip], f.ip, p.type[f.fn][f.ip]).calls
  PROVE  Good(p, [f EXCEPT !.ip = f.ip + 1, !.calls = k])
<1> DEFINE i == p.code[f.fn][f.ip]
           ty == p.type[f.fn][f.ip]
           e == <<f.ip + 1, After(i, f.ip, ty)>>
           g == [f EXCEPT !.ip = f.ip + 1, !.calls = k]
<1>1. f \in Frame /\ FrameTypeOK(p, f)
  BY DEF Good
<1>2. /\ g \in Frame /\ g.fn = f.fn /\ g.ip = f.ip + 1 /\ g.stack = f.stack
      /\ g.catch = f.catch /\ g.calls = k /\ g.r = f.r
  BY <1>1, FrameFields, FrameUpdate DEF Frame
<1>3. FrameTypeOK(p, g) /\ Active(g) = Active(f)
  BY <1>1, <1>2 DEF FrameTypeOK, Active
<1>4. /\ f.ip \in DOMAIN p.type[f.fn] /\ ty \in Types
      /\ Len(f.stack) = ty.stack /\ Active(f) = ty.catch
      /\ \A j \in DOMAIN f.catch : Restores(p.code[f.fn], p.type[f.fn], f.catch[j])
  BY AtInstruction
<1>5. e \in Edges(i, f.ip, ty)
  BY DEF Edges
<1>6. /\ e[1] = f.ip + 1 /\ e[2].calls = k
      /\ e[2].stack = ty.stack /\ e[2].catch = ty.catch
  BY <1>4 DEF After, Types
<1> HIDE DEF g, e
<1>7. e \in Edges(p.code[g.fn][f.ip], f.ip, p.type[g.fn][f.ip])
  BY <1>5, <1>2
<1>8. f.ip \in DOMAIN p.type[g.fn]
  BY <1>4, <1>2
<1>9. \A j \in DOMAIN g.catch : Restores(p.code[g.fn], p.type[g.fn], g.catch[j])
  BY <1>4, <1>2
<1>10. Good(p, g)
  BY <1>2, <1>3, <1>4, <1>6, <1>7, <1>8, <1>9, Move
<1> QED BY <1>10 DEF g

\* A frame f at an instruction that changes its catchers goes on with h.
LEMMA CatchersChange ==
  ASSUME NEW p, Fine(p), NEW f, Good(p, f), f.ip \in DOMAIN p.code[f.fn],
         p.code[f.fn][f.ip].op \in {"EXCEPTION_CATCHER_PUSH", "EXCEPTION_CATCHER_POP"},
         NEW h \in Seq(Catcher),
         [j \in DOMAIN h |-> h[j].at]
           = After(p.code[f.fn][f.ip], f.ip, p.type[f.fn][f.ip]).catch,
         \A j \in DOMAIN h : Restores(p.code[f.fn], p.type[f.fn], h[j])
  PROVE  Good(p, [f EXCEPT !.ip = f.ip + 1, !.catch = h])
<1> DEFINE i == p.code[f.fn][f.ip]
           ty == p.type[f.fn][f.ip]
           e == <<f.ip + 1, After(i, f.ip, ty)>>
           g == [f EXCEPT !.ip = f.ip + 1, !.catch = h]
<1>1. f \in Frame /\ FrameTypeOK(p, f)
  BY DEF Good
<1>2. /\ g \in Frame /\ g.fn = f.fn /\ g.ip = f.ip + 1 /\ g.stack = f.stack
      /\ g.catch = h /\ g.calls = f.calls /\ g.r = f.r
  BY <1>1, FrameFields, FrameUpdate DEF Frame
<1>3. FrameTypeOK(p, g)
  BY <1>1, <1>2 DEF FrameTypeOK
<1>4. /\ f.ip \in DOMAIN p.type[f.fn] /\ ty \in Types
      /\ Len(f.stack) = ty.stack /\ f.calls = ty.calls
  BY AtInstruction
<1>5. e \in Edges(i, f.ip, ty)
  BY DEF Edges
<1>6. /\ e[1] = f.ip + 1 /\ e[2] = After(i, f.ip, ty)
      /\ e[2].stack = ty.stack /\ e[2].calls = ty.calls
  BY <1>4 DEF After, Types
<1>a. Active(g) = e[2].catch
  BY <1>2, <1>6 DEF Active
<1> HIDE DEF g, e
<1>7. e \in Edges(p.code[g.fn][f.ip], f.ip, p.type[g.fn][f.ip])
  BY <1>5, <1>2
<1>8. f.ip \in DOMAIN p.type[g.fn]
  BY <1>4, <1>2
<1>9. \A j \in DOMAIN g.catch : Restores(p.code[g.fn], p.type[g.fn], g.catch[j])
  BY <1>2
<1>10. Good(p, g)
  BY <1>2, <1>3, <1>4, <1>6, <1>a, <1>7, <1>8, <1>9, Move
<1> QED BY <1>10 DEF g

\* The ways the actions change the registers, in one form.
LEMMA RegisterUpdate ==
  ASSUME NEW F, NEW N, NEW S, NEW C, NEW K, NEW R,
         NEW f \in [fn : F, ip : N, stack : S, catch : C, calls : K, r : R],
         NEW n \in N, NEW x, NEW v
  PROVE  /\ [f EXCEPT !.ip = n] = [f EXCEPT !.ip = n, !.r = f.r]
         /\ [[f EXCEPT !.ip = n] EXCEPT !.r[x] = v]
              = [f EXCEPT !.ip = n, !.r = [f.r EXCEPT ![x] = v]]
         /\ [f EXCEPT !.r[x] = v] = [f EXCEPT !.ip = f.ip, !.r = [f.r EXCEPT ![x] = v]]
OBVIOUS

\* An instruction that is no jump and touches no scope, catcher or call.
Quiet(op) == op \notin {"NEW_SCOPE", "POP_SCOPE", "INIT_CALL", "CALL", "JUMP",
                        "EXCEPTION_CATCHER_PUSH", "EXCEPTION_CATCHER_POP"}

\* A frame goes on behind a quiet instruction, with or without a new value in a register.
LEMMA Plain ==
  ASSUME NEW p, Fine(p), NEW f, Good(p, f), f.ip \in DOMAIN p.code[f.fn],
         Quiet(p.code[f.fn][f.ip].op)
  PROVE  /\ Good(p, [f EXCEPT !.ip = f.ip + 1])
         /\ \A x \in 0..(p.regs[f.fn] - 1), v \in Values :
              Good(p, [[f EXCEPT !.ip = f.ip + 1] EXCEPT !.r[x] = v])
<1> DEFINE i == p.code[f.fn][f.ip]
           ty == p.type[f.fn][f.ip]
           n == f.ip + 1
<1>1. f \in Frame /\ f.r \in [0..(p.regs[f.fn] - 1) -> Values]
  BY DEF Good, FrameTypeOK
<1>2. n \in Nat
  BY <1>1, FrameFields
<1>3. <<n, ty>> \in Edges(i, f.ip, ty)
  BY DEF Edges, After, Quiet
<1>4. [f EXCEPT !.ip = n] = [f EXCEPT !.ip = n, !.r = f.r]
  BY <1>1, <1>2, RegisterUpdate DEF Frame
<1>5. ASSUME NEW x \in 0..(p.regs[f.fn] - 1), NEW v \in Values
      PROVE  Good(p, [[f EXCEPT !.ip = n] EXCEPT !.r[x] = v])
  <2> DEFINE s == [f.r EXCEPT ![x] = v]
  <2>1. [[f EXCEPT !.ip = n] EXCEPT !.r[x] = v] = [f EXCEPT !.ip = n, !.r = s]
    BY <1>1, <1>2, RegisterUpdate DEF Frame
  <2>2. s \in [0..(p.regs[f.fn] - 1) -> Values]
    BY <1>1
  <2> HIDE DEF s, n
  <2> QED BY <2>1, <2>2, <1>2, <1>3, Onward
<1>6. Good(p, [f EXCEPT !.ip = n])
  <2> DEFINE s == f.r
  <2>1. s \in [0..(p.regs[f.fn] - 1) -> Values]
    BY <1>1, SMTT(30)
  <2> HIDE DEF n, s
  <2>2. Good(p, [f EXCEPT !.ip = n, !.r = s])
    BY <2>1, <1>2, <1>3, Onward
  <2> QED BY <2>2, <1>4 DEF s
<1> QED BY <1>5, <1>6

\* A value in a register, wherever the frame is.
LEMMA Result ==
  ASSUME NEW p, Fine(p), NEW f, Good(p, f), NEW v \in Values
  PROVE  Good(p, [f EXCEPT !.r[0] = v])
<1> DEFINE n == p.regs[f.fn]
           s == [f.r EXCEPT ![0] = v]
           g == [f EXCEPT !.r[0] = v]
<1>1. f \in Frame /\ FrameTypeOK(p, f) /\ FrameOK(p, f) /\ f.r \in [0..(n - 1) -> Values]
  BY DEF Good, FrameTypeOK
<1>2. n \in Nat \ {0}
  BY <1>1, Parts DEF FrameTypeOK
<1>3. s \in [0..(n - 1) -> Values] /\ n - 1 \in Nat
  BY <1>1, <1>2
<1>4. s \in Registers
  BY <1>3 DEF Registers
<1>5. /\ g \in Frame /\ g.fn = f.fn /\ g.ip = f.ip /\ g.stack = f.stack
      /\ g.catch = f.catch /\ g.calls = f.calls /\ g.r = s
  BY <1>1, <1>4 DEF Frame
<1>6. Active(g) = Active(f)
  BY <1>5 DEF Active
<1> HIDE DEF g, s
<1>7. FrameTypeOK(p, g)
  BY <1>1, <1>3, <1>5 DEF FrameTypeOK
<1>8. FrameOK(p, g)
  BY <1>1, <1>5, <1>6 DEF FrameOK
<1>9. Good(p, g)
  BY <1>5, <1>7, <1>8 DEF Good
<1> QED BY <1>9 DEF g

\* The innermost catcher takes an error, as Catch has it.
LEMMA Caught ==
  ASSUME NEW p, Fine(p), NEW f, Good(p, f), f.catch # <<>>, NEW v \in Values
  PROVE  LET e == Last(f.catch)
         IN Good(p, [f EXCEPT !.ip = e.jump_to, !.stack = e.stack, !.calls = e.calls,
                              !.catch = Front(@), !.r[0] = v])
<1> DEFINE c == p.code[f.fn]
           T == p.type[f.fn]
           n == p.regs[f.fn]
           L == Len(f.catch)
           e == f.catch[L]
           q == e.at
           h == Front(f.catch)
           s == [f.r EXCEPT ![0] = v]
           g == [f EXCEPT !.ip = e.jump_to, !.stack = e.stack, !.calls = e.calls,
                          !.catch = Front(@), !.r[0] = v]
           d == <<c[q].to, T[q]>>
<1>1. /\ f \in Frame /\ FrameTypeOK(p, f) /\ FrameOK(p, f) /\ f.fn \in DOMAIN p.code
      /\ f.r \in [0..(n - 1) -> Values] /\ f.catch \in Seq(Catcher)
  BY DEF Good, FrameTypeOK
<1>2. n \in Nat \ {0} /\ c \in Seq(Instruction) /\ IsTyping(c, T, n, Len(p.code))
  BY <1>1, Parts
<1>3. L \in Nat \ {0} /\ DOMAIN f.catch = 1..L
  BY <1>1, LenProperties, EmptySeq
<1>4. e \in Catcher
  BY <1>1, <1>3, ElementOfSeq
<1>5. /\ Len(Active(f)) = L /\ Active(f) # <<>> /\ Active(f) \in Seq(Nat)
      /\ Last(Active(f)) = q
  <2>1. Active(f) = [j \in 1..L |-> f.catch[j].at]
    BY <1>3 DEF Active
  <2>2. \A j \in 1..L : f.catch[j].at \in Nat
    <3> TAKE j \in 1..L
    <3>1. f.catch[j] \in Catcher
      BY <1>1, <1>3, ElementOfSeq
    <3> QED BY <3>1 DEF Catcher
  <2>3. Active(f) \in Seq(Nat) /\ Len(Active(f)) = L
    BY <2>1, <2>2, <1>3, LenProperties
  <2>4. Last(Active(f)) = q
    BY <2>1, <2>3, <1>3 DEF Last
  <2> QED BY <2>3, <2>4, <1>3, EmptySeq
<1>6. /\ q \in DOMAIN T /\ q \in DOMAIN c /\ c[q].op = "EXCEPTION_CATCHER_PUSH"
      /\ T[q].catch = Front(Active(f))
  BY <1>1, <1>5 DEF FrameOK, Chained
<1>7. e.jump_to = c[q].to /\ Len(e.stack) = T[q].stack /\ e.calls = T[q].calls
  BY <1>1, <1>3 DEF FrameOK, Restores
<1>8. /\ h \in Seq(Catcher) /\ DOMAIN h = 1..(L - 1)
      /\ \A j \in 1..(L - 1) : h[j] = f.catch[j]
  BY <1>1, <1>3, SubSeqProperties, LenProperties DEF Front
<1>9. s \in [0..(n - 1) -> Values] /\ s \in Registers
  <2>1. n - 1 \in Nat /\ s \in [0..(n - 1) -> Values]
    BY <1>1, <1>2
  <2> QED BY <2>1 DEF Registers
<1>10. /\ g \in Frame /\ g.fn = f.fn /\ g.ip = e.jump_to /\ g.stack = e.stack
       /\ g.catch = h /\ g.calls = e.calls /\ g.r = s
  <2>1. e.jump_to \in Nat /\ e.stack \in Seq(Nat) /\ e.calls \in Seq(Nat)
    BY <1>4 DEF Catcher
  <2> HIDE DEF e, h
  <2>2. g = [f EXCEPT !.ip = e.jump_to, !.stack = e.stack, !.calls = e.calls,
                      !.catch = h, !.r = s]
    BY <1>1 DEF Frame, h
  <2> HIDE DEF g, s
  <2> QED BY <1>1, <1>8, <1>9, <2>1, <2>2 DEF Frame
<1> HIDE DEF g, s, h, e
<1>11. FrameTypeOK(p, g)
  BY <1>1, <1>10, <1>9 DEF FrameTypeOK, Frame
<1>12. \A j \in DOMAIN g.catch : Restores(c, T, g.catch[j])
  <2>1. \A j \in DOMAIN f.catch : Restores(c, T, f.catch[j])
    BY <1>1 DEF FrameOK
  <2>2. \A j \in 1..(L - 1) : j \in DOMAIN f.catch
    BY <1>3
  <2> QED BY <1>8, <1>10, <2>1, <2>2
<1>13. Active(g) = T[q].catch
  <2>1. Active(f) = [j \in 1..L |-> f.catch[j].at]
    BY <1>3 DEF Active
  <2>2. Front(Active(f)) = [j \in 1..(L - 1) |-> f.catch[j].at]
    BY <2>1, <1>5, <1>3, SubSeqProperties DEF Front
  <2>3. Active(g) = [j \in 1..(L - 1) |-> f.catch[j].at]
    BY <1>8, <1>10 DEF Active
  <2> QED BY <2>2, <2>3, <1>6
<1>14. d \in Edges(c[q], q, T[q]) /\ d[1] = c[q].to /\ d[2] = T[q]
  BY <1>6 DEF Edges
<1> HIDE DEF d
<1>15. Good(p, g)
  <2>1. q \in DOMAIN p.type[g.fn] /\ d \in Edges(p.code[g.fn][q], q, p.type[g.fn][q])
    BY <1>6, <1>10, <1>14
  <2>2. /\ g.ip = d[1] /\ Len(g.stack) = d[2].stack /\ g.calls = d[2].calls
        /\ Active(g) = d[2].catch
    BY <1>7, <1>10, <1>13, <1>14
  <2>3. \A j \in DOMAIN g.catch : Restores(p.code[g.fn], p.type[g.fn], g.catch[j])
    BY <1>12, <1>10
  <2> HIDE DEF q
  <2> QED BY <2>1, <2>2, <2>3, <1>10, <1>11, Move
<1> QED BY <1>15 DEF g, e, h, Last

\* A frame that starts.
LEMMA Starts ==
  ASSUME Fine(program), NEW fn \in DOMAIN program.code, NEW scope \in Nat
  PROVE  Good(program, NewFrame(fn, scope))
<1> DEFINE c == program.code[fn]
           T == program.type[fn]
           n == program.regs[fn]
           g == NewFrame(fn, scope)
<1>1. /\ n \in Nat \ {0} /\ c \in Seq(Instruction) /\ IsTyping(c, T, n, Len(program.code))
      /\ fn \in Nat
  BY Parts
<1>2. g.r \in [0..(n - 1) -> Values] /\ g.r \in Registers
  <2>1. "nil" \in Values
    BY DEF Values
  <2>2. g.r \in [0..(n - 1) -> Values] /\ n - 1 \in Nat
    BY <2>1, <1>1 DEF NewFrame
  <2> QED BY <2>2 DEF Registers
<1>3. /\ g.fn = fn /\ g.ip = 1 /\ g.stack = <<scope>> /\ g.catch = <<>> /\ g.calls = <<>>
  BY DEF NewFrame
<1>4. <<scope>> \in Seq(Nat) /\ Len(<<scope>>) = 1 /\ <<>> \in Seq(Nat) /\ <<>> \in Seq(Catcher)
  OBVIOUS
<1> HIDE DEF g
<1>5. g \in Frame
  <2> DEFINE s == <<scope>>
             r == [i \in 0..(program.regs[fn] - 1) |-> "nil"]
  <2>1. /\ g.r = r
        /\ g = [fn |-> fn, ip |-> 1, stack |-> s, catch |-> <<>>, calls |-> <<>>, r |-> r]
    BY DEF g, NewFrame
  <2> HIDE DEF s, r
  <2>2. s \in Seq(Nat)
    BY DEF s
  <2> QED BY <2>1, <2>2, <1>1, <1>2, <1>4 DEF Frame
<1>6. FrameTypeOK(program, g)
  BY <1>1, <1>2, <1>3, <1>4 DEF FrameTypeOK
<1>7. Active(g) = <<>> /\ DOMAIN g.catch = {}
  BY <1>3 DEF Active
<1>8. 1 \in DOMAIN T => T[1] = Start
  BY <1>1 DEF IsTyping
<1>9. 1 \notin DOMAIN T => Len(c) = 0
  BY <1>1 DEF IsTyping
<1>10. FrameOK(program, g)
  <2>1. Chained(c, T, Active(g))
    BY <1>7 DEF Chained
  <2>2. g.ip \in DOMAIN T =>
           /\ Len(g.stack) = T[g.ip].stack /\ g.calls = T[g.ip].calls
           /\ Active(g) = T[g.ip].catch
    BY <1>3, <1>4, <1>7, <1>8 DEF Start
  <2>3. g.ip \notin DOMAIN T => g.ip = Len(c) + 1 /\ Len(g.stack) = 1 /\ g.calls = <<>>
    BY <1>3, <1>4, <1>9
  <2> QED BY <2>1, <2>2, <2>3, <1>3, <1>7 DEF FrameOK
<1>11. Good(program, g)
  BY <1>5, <1>6, <1>10 DEF Good
<1> QED BY <1>11 DEF g

\* Where the catchers were pushed, when one is added.
LEMMA AppendedAt ==
  ASSUME NEW s \in Seq(Catcher), NEW e \in Catcher
  PROVE  [j \in DOMAIN Append(s, e) |-> Append(s, e)[j].at]
           = Append([j \in DOMAIN s |-> s[j].at], e.at)
<1> DEFINE L == Len(s)
           h == Append(s, e)
           t == [j \in DOMAIN s |-> s[j].at]
           a == [j \in DOMAIN h |-> h[j].at]
           b == Append(t, e.at)
<1>1. L \in Nat /\ DOMAIN s = 1..L /\ e.at \in Nat
  BY LenProperties DEF Catcher
<1>2. /\ h \in Seq(Catcher) /\ DOMAIN h = 1..(L + 1) /\ h[L + 1] = e
      /\ \A j \in 1..L : h[j] = s[j]
  BY <1>1, AppendProperties, LenProperties
<1>3. \A j \in 1..L : s[j].at \in Nat
  <2> TAKE j \in 1..L
  <2>1. s[j] \in Catcher
    BY <1>1, ElementOfSeq
  <2> QED BY <2>1 DEF Catcher
<1> HIDE DEF h
<1>4. t \in Seq(Nat) /\ Len(t) = L /\ \A j \in 1..L : t[j] = s[j].at
  <2>1. t = [j \in 1..L |-> s[j].at]
    BY <1>1
  <2> QED BY <2>1, <1>1, <1>3, LenProperties
<1> HIDE DEF t
<1>5. /\ b \in Seq(Nat) /\ Len(b) = L + 1 /\ b[L + 1] = e.at
      /\ \A j \in 1..L : b[j] = s[j].at
  BY <1>1, <1>4, AppendProperties
<1>6. \A j \in 1..(L + 1) : h[j].at \in Nat /\ h[j].at = b[j]
  <2> TAKE j \in 1..(L + 1)
  <2>1. CASE j = L + 1
    BY <2>1, <1>1, <1>2, <1>5
  <2>2. CASE j \in 1..L
    BY <2>2, <1>2, <1>3, <1>5
  <2>3. j = L + 1 \/ j \in 1..L
    BY <1>1
  <2> HIDE DEF L
  <2> QED BY <2>1, <2>2, <2>3
<1> HIDE DEF b, L
<1>7. a = [j \in 1..(L + 1) |-> h[j].at] /\ L + 1 \in Nat
  BY <1>1, <1>2
<1>8. a \in Seq(Nat) /\ Len(a) = L + 1 /\ \A j \in 1..(L + 1) : a[j] = b[j]
  BY <1>6, <1>7, LenProperties
<1> HIDE DEF a
<1>9. a = b
  BY <1>5, <1>8, SeqEqual
<1> QED BY <1>9 DEF a, b, h, t

\* EXCEPTION_CATCHER_PUSH remembers the frame as it is.
LEMMA Pushes ==
  ASSUME NEW p, Fine(p), NEW f, Good(p, f), f.ip \in DOMAIN p.code[f.fn],
         p.code[f.fn][f.ip].op = "EXCEPTION_CATCHER_PUSH"
  PROVE  Good(p, [f EXCEPT !.ip = f.ip + 1, !.catch =
             Append(f.catch, [jump_to |-> p.code[f.fn][f.ip].to, stack |-> f.stack,
                              calls |-> f.calls, at |-> f.ip])])
<1> DEFINE c == p.code[f.fn]
           T == p.type[f.fn]
           i == c[f.ip]
           ty == T[f.ip]
           L == Len(f.catch)
           e == [jump_to |-> i.to, stack |-> f.stack, calls |-> f.calls, at |-> f.ip]
           h == Append(f.catch, e)
<1>1. /\ f \in Frame /\ i \in Instruction /\ ty \in Types
      /\ Len(f.stack) = ty.stack /\ f.calls = ty.calls /\ Active(f) = ty.catch
      /\ \A j \in DOMAIN f.catch : Restores(c, T, f.catch[j])
  BY AtInstruction DEF Good
<1>2. f.ip \in Nat /\ f.catch \in Seq(Catcher) /\ f.stack \in Seq(Nat) /\ f.calls \in Seq(Nat)
  BY <1>1, FrameFields
<1>3. e \in Catcher
  BY <1>1, <1>2 DEF Catcher, Instruction
<1>4. Restores(c, T, e) /\ e.at = f.ip
  BY <1>1 DEF Restores
<1> HIDE DEF e
<1>5. /\ h \in Seq(Catcher) /\ Len(h) = L + 1 /\ L \in Nat
      /\ DOMAIN f.catch = 1..L /\ DOMAIN h = 1..(L + 1)
      /\ h[L + 1] = e /\ \A j \in 1..L : h[j] = f.catch[j]
  BY <1>2, <1>3, AppendProperties, LenProperties
<1>6. \A j \in DOMAIN h : Restores(c, T, h[j])
  <2> SUFFICES ASSUME NEW j \in DOMAIN h PROVE Restores(c, T, h[j])
    OBVIOUS
  <2>1. CASE j = L + 1
    BY <2>1, <1>4, <1>5
  <2>2. CASE j \in 1..L
    BY <2>2, <1>1, <1>5
  <2> QED BY <2>1, <2>2, <1>5
<1>7. [j \in DOMAIN h |-> h[j].at] = After(i, f.ip, ty).catch
  <2>1. After(i, f.ip, ty).catch = Append(ty.catch, f.ip)
    BY <1>1 DEF After, Types
  <2>2. [j \in DOMAIN h |-> h[j].at] = Append(Active(f), f.ip)
    BY <1>2, <1>3, <1>4, AppendedAt DEF Active
  <2> QED BY <2>1, <2>2, <1>1
<1> HIDE DEF h
<1>8. Good(p, [f EXCEPT !.ip = f.ip + 1, !.catch = h])
  BY <1>5, <1>6, <1>7, CatchersChange
<1> QED BY <1>8 DEF h, e

\* EXCEPTION_CATCHER_POP finds the catcher it removes.
LEMMA Pops ==
  ASSUME NEW p, Fine(p), NEW f, Good(p, f), f.ip \in DOMAIN p.code[f.fn],
         p.code[f.fn][f.ip].op = "EXCEPTION_CATCHER_POP"
  PROVE  /\ f.catch # <<>>
         /\ Good(p, [f EXCEPT !.ip = f.ip + 1, !.catch = Front(f.catch)])
<1> DEFINE c == p.code[f.fn]
           T == p.type[f.fn]
           i == c[f.ip]
           ty == T[f.ip]
           L == Len(f.catch)
           h == Front(f.catch)
<1>1. /\ f \in Frame /\ ty \in Types /\ Active(f) = ty.catch /\ ty.catch # <<>>
      /\ \A j \in DOMAIN f.catch : Restores(c, T, f.catch[j])
  BY AtInstruction DEF Good, Safe
<1>2. f.catch \in Seq(Catcher)
  BY <1>1, FrameFields
<1>3. Active(f) = [j \in 1..L |-> f.catch[j].at] /\ Active(f) \in Seq(Nat) /\ L \in Nat
      /\ DOMAIN f.catch = 1..L
  BY <1>1, <1>2, LenProperties DEF Active, Types
<1>4. Len(Active(f)) = L /\ L # 0
  BY <1>1, <1>3, LenProperties, EmptySeq
<1>5. f.catch # <<>>
  BY <1>4, EmptySeq
<1>6. /\ h \in Seq(Catcher) /\ DOMAIN h = 1..(L - 1)
      /\ \A j \in 1..(L - 1) : h[j] = f.catch[j]
  BY <1>2, <1>3, <1>4, SubSeqProperties, LenProperties DEF Front
<1>7. \A j \in DOMAIN h : Restores(c, T, h[j])
  <2>1. \A j \in 1..(L - 1) : j \in DOMAIN f.catch
    BY <1>3
  <2> QED BY <2>1, <1>1, <1>6
<1>8. [j \in DOMAIN h |-> h[j].at] = After(i, f.ip, ty).catch
  <2>1. After(i, f.ip, ty).catch = Front(ty.catch)
    BY <1>1 DEF After, Types
  <2>2. Front(Active(f)) = [j \in 1..(L - 1) |-> f.catch[j].at]
    BY <1>3, <1>4, SubSeqProperties DEF Front
  <2>3. [j \in DOMAIN h |-> h[j].at] = [j \in 1..(L - 1) |-> f.catch[j].at]
    BY <1>6
  <2> QED BY <2>1, <2>2, <2>3, <1>1
<1> HIDE DEF h
<1>9. Good(p, [f EXCEPT !.ip = f.ip + 1, !.catch = h])
  BY <1>6, <1>7, <1>8, CatchersChange
<1> QED BY <1>5, <1>9 DEF h

-------------------------------------------------------------------------------
(* The stack of frames *)

Framed(p, fs) == fs \in Seq(Frame) /\ \A j \in 1..Len(fs) : Good(p, fs[j])

\* The inductive invariant.
Inv ==
  /\ Fine(program)
  /\ Framed(program, frames)
  /\ err \in Errors \cup {"none"}
  /\ quiet_throw \in BOOLEAN /\ KeyboardInterrupted \in BOOLEAN
  /\ created \in Nat /\ interrupts \in Nat
  /\ stack_trace \in Seq(Nat)

\* A frame of the stack is replaced.
LEMMA Replaced ==
  ASSUME NEW p, NEW fs, Framed(p, fs), NEW k \in 1..Len(fs), NEW g, Good(p, g)
  PROVE  Framed(p, [fs EXCEPT ![k] = g])
<1> DEFINE gs == [fs EXCEPT ![k] = g]
<1>1. fs \in Seq(Frame) /\ g \in Frame /\ \A j \in 1..Len(fs) : Good(p, fs[j])
  BY DEF Framed, Good
<1>2. /\ gs \in Seq(Frame) /\ Len(gs) = Len(fs)
      /\ \A j \in 1..Len(fs) : gs[j] = IF j = k THEN g ELSE fs[j]
  BY <1>1, ExceptSeq
<1> HIDE DEF gs
<1>3. Framed(p, gs)
  BY <1>1, <1>2 DEF Framed
<1> QED BY <1>3 DEF gs

\* A frame is added.
LEMMA Pushed ==
  ASSUME NEW p, NEW fs, Framed(p, fs), NEW g, Good(p, g)
  PROVE  Framed(p, Append(fs, g))
<1> DEFINE gs == Append(fs, g)
           L == Len(fs)
<1>1. fs \in Seq(Frame) /\ g \in Frame /\ \A j \in 1..L : Good(p, fs[j])
  BY DEF Framed, Good
<1>2. /\ gs \in Seq(Frame) /\ Len(gs) = L + 1 /\ L \in Nat /\ gs[L + 1] = g
      /\ \A j \in 1..L : gs[j] = fs[j]
  BY <1>1, AppendProperties, LenProperties
<1> HIDE DEF gs, L
<1>3. ASSUME NEW j \in 1..(L + 1) PROVE Good(p, gs[j])
  <2>1. CASE j = L + 1
    BY <2>1, <1>2
  <2>2. CASE j \in 1..L
    BY <2>2, <1>1, <1>2
  <2>3. j = L + 1 \/ j \in 1..L
    BY <1>2
  <2> QED BY <2>1, <2>2, <2>3
<1>4. Framed(p, gs)
  BY <1>2, <1>3 DEF Framed
<1> QED BY <1>4 DEF gs

\* All of a sequence but its last element.
LEMMA FrontOfSeq ==
  ASSUME NEW S, NEW s \in Seq(S), Len(s) # 0
  PROVE  /\ Front(s) \in Seq(S) /\ Len(Front(s)) = Len(s) - 1
         /\ \A j \in 1..(Len(s) - 1) : Front(s)[j] = s[j]
<1> DEFINE t == Front(s)
           m == Len(s) - 1
<1>1. t = SubSeq(s, 1, m) /\ m \in Int /\ 1 - 1 <= m /\ m <= Len(s) /\ Len(s) \in Nat
  BY LenProperties DEF Front
<1>2. \A j \in 1..m : s[j] \in S
  BY <1>1, ElementOfSeq
<1> HIDE DEF t, m
<1>3. t \in Seq(S) /\ Len(t) = m /\ \A j \in 1..m : t[j] = s[j]
  BY <1>1, <1>2, SubSeqProperties
<1> QED BY <1>3 DEF t, m

\* The top frame is gone.
LEMMA Popped ==
  ASSUME NEW p, NEW fs, Framed(p, fs), fs # <<>>
  PROVE  /\ Framed(p, Front(fs)) /\ Len(Front(fs)) = Len(fs) - 1
         /\ \A j \in 1..(Len(fs) - 1) : Front(fs)[j] = fs[j]
<1> DEFINE gs == Front(fs)
           L == Len(fs)
<1>1. fs \in Seq(Frame) /\ \A j \in 1..L : Good(p, fs[j])
  BY DEF Framed
<1>2. L \in Nat \ {0}
  BY <1>1, LenProperties, EmptySeq
<1>3. /\ gs \in Seq(Frame) /\ Len(gs) = L - 1
      /\ \A j \in 1..(L - 1) : gs[j] = fs[j]
  BY <1>1, <1>2, FrontOfSeq
<1> HIDE DEF gs
<1>4. \A j \in 1..(L - 1) : j \in 1..L
  BY <1>2
<1> HIDE DEF L
<1>5. Framed(p, gs)
  BY <1>1, <1>3, <1>4 DEF Framed
<1> QED BY <1>3, <1>5 DEF gs, L

\* The frame that runs.
LEMMA TopGood ==
  ASSUME Inv, frames # <<>>
  PROVE  /\ Depth \in Nat \ {0} /\ Depth \in 1..Len(frames)
         /\ Good(program, Top) /\ Top \in Frame
         /\ Top.fn \in DOMAIN program.code
         /\ 0 \in 0..(program.regs[Top.fn] - 1)
         /\ Top.r \in [0..(program.regs[Top.fn] - 1) -> Values]
<1>1. frames \in Seq(Frame) /\ \A j \in 1..Len(frames) : Good(program, frames[j])
  BY DEF Inv, Framed
<1>2. Depth \in Nat \ {0} /\ Depth \in 1..Len(frames)
  BY <1>1, LenProperties, EmptySeq DEF Depth
<1>3. Good(program, Top)
  BY <1>1, <1>2 DEF Top
<1>4. /\ Top \in Frame /\ Top.fn \in DOMAIN program.code
      /\ Top.r \in [0..(program.regs[Top.fn] - 1) -> Values]
  BY <1>3 DEF Good, FrameTypeOK
<1>5. program.regs[Top.fn] \in Nat \ {0}
  BY <1>4, Parts DEF Inv
<1> QED BY <1>2, <1>3, <1>4, <1>5

\* The frame that is about to execute an instruction.
LEMMA Fetched ==
  ASSUME Inv, NEW op, Fetch(op)
  PROVE  /\ frames # <<>> /\ Top.ip \in DOMAIN program.code[Top.fn]
         /\ program.code[Top.fn][Top.ip] = Instr /\ Instr.op = op
         /\ Instr \in Instruction
         /\ Instr.x \in 0..(program.regs[Top.fn] - 1)
         /\ Instr.y \in 0..(program.regs[Top.fn] - 1)
         /\ Top.r[Instr.x] \in Values
<1>1. /\ frames # <<>> /\ Top.ip \in DOMAIN program.code[Top.fn]
      /\ program.code[Top.fn][Top.ip] = Instr /\ Instr.op = op
  BY DEF Fetch, Running, Code, Instr
<1>2. Good(program, Top) /\ Fine(program)
  BY <1>1, TopGood DEF Inv
<1>3. /\ Instr \in Instruction
      /\ Safe(Instr, program.type[Top.fn][Top.ip], program.regs[Top.fn], Len(program.code))
  BY <1>1, <1>2, AtInstruction
<1> QED BY <1>1, <1>3, TopGood DEF Safe

\* The top frame moves and the rest of the machine stays well formed.
LEMMA TopMoves ==
  ASSUME Inv, frames # <<>>, NEW g, Good(program, g), SetTop(g)
  PROVE  Framed(program, frames')
BY TopGood, Replaced DEF Inv, SetTop

\* The frame below takes the result of the one that ends.
LEMMA Returned ==
  ASSUME Inv, frames # <<>>,
         frames' = IF Depth = 1 THEN <<>>
                   ELSE [Front(frames) EXCEPT ![Depth - 1].r[0] = Top.r[0]]
  PROVE  Framed(program, frames')
<1>1. CASE Depth = 1
  <2>1. <<>> \in Seq(Frame) /\ Len(<<>>) = 0
    OBVIOUS
  <2> QED BY <1>1, <2>1 DEF Framed
<1>2. CASE Depth # 1
  <2> DEFINE k == Depth - 1
             fs == Front(frames)
             v == Top.r[0]
             g == [fs[k] EXCEPT !.r[0] = v]
  <2>a. Framed(program, fs) /\ Len(fs) = k
    BY Popped DEF Inv, Depth
  <2>b. k \in Nat \ {0}
    BY <1>2, TopGood
  <2>1. k \in Nat \ {0} /\ k \in 1..Len(fs) /\ Framed(program, fs)
    <3> HIDE DEF k, fs
    <3> QED BY <2>a, <2>b
  <2>2. Good(program, fs[k]) /\ fs \in Seq(Frame)
    BY <2>1 DEF Framed
  <2>3. v \in Values /\ Fine(program)
    BY TopGood DEF Inv
  <2>4. Good(program, g)
    <3> HIDE DEF fs, k, v
    <3> QED BY <2>2, <2>3, Result
  <2>5. frames' = [fs EXCEPT ![k] = g]
    BY <1>2
  <2> HIDE DEF g, fs, k
  <2> QED BY <2>1, <2>4, <2>5, Replaced
<1> QED BY <1>1, <1>2

-------------------------------------------------------------------------------
(* Steps *)

\* Behind a quiet instruction, with or without a new value in a register.
LEMMA QuietTop ==
  ASSUME Inv, NEW op, Fetch(op), Quiet(op)
  PROVE  /\ Good(program, Stepped)
         /\ \A x \in 0..(program.regs[Top.fn] - 1), v \in Values :
              Good(program, Loaded(x, v))
<1>1. /\ frames # <<>> /\ Top.ip \in DOMAIN program.code[Top.fn]
      /\ Quiet(program.code[Top.fn][Top.ip].op)
  BY Fetched
<1>2. Good(program, Top) /\ Fine(program)
  BY <1>1, TopGood DEF Inv
<1>3. /\ Good(program, [Top EXCEPT !.ip = Top.ip + 1])
      /\ \A x \in 0..(program.regs[Top.fn] - 1), v \in Values :
           Good(program, [[Top EXCEPT !.ip = Top.ip + 1] EXCEPT !.r[x] = v])
  <2> HIDE DEF Top
  <2> QED BY <1>1, <1>2, Plain
<1> QED BY <1>3 DEF Stepped, Loaded

\* At the target of a jump.
LEMMA JumpedTop ==
  ASSUME Inv, NEW op, Fetch(op), op \in {"JUMP", "JUMP_IF_FALSE"}
  PROVE  Good(program, [Top EXCEPT !.ip = Instr.to])
<1> DEFINE n == Instr.to
           s == Top.r
           ty == program.type[Top.fn][Top.ip]
<1>1. /\ frames # <<>> /\ Top.ip \in DOMAIN program.code[Top.fn]
      /\ program.code[Top.fn][Top.ip] = Instr /\ Instr.op = op /\ n \in Nat
  BY Fetched DEF Instruction
<1>2. /\ Good(program, Top) /\ Fine(program) /\ Top \in Frame
      /\ s \in [0..(program.regs[Top.fn] - 1) -> Values]
  BY <1>1, TopGood DEF Inv
<1>3. <<n, ty>> \in Edges(program.code[Top.fn][Top.ip], Top.ip, ty)
  BY <1>1 DEF Edges
<1>4. [Top EXCEPT !.ip = n] = [Top EXCEPT !.ip = n, !.r = s]
  BY <1>1, <1>2, RegisterUpdate DEF Frame
<1> HIDE DEF n, s, ty
<1>5. Good(program, [Top EXCEPT !.ip = n, !.r = s])
  BY <1>1, <1>2, <1>3, Onward DEF ty
<1>6. Good(program, [Top EXCEPT !.ip = n])
  BY <1>4, <1>5
<1> QED BY <1>6 DEF n

\* What is left to show once the frames are known to be well formed.
LEMMA Kept ==
  ASSUME Inv, program' = program, Framed(program, frames'),
         err' \in Errors \cup {"none"}, quiet_throw' \in BOOLEAN,
         KeyboardInterrupted' \in BOOLEAN,
         created' \in Nat, interrupts' \in Nat, stack_trace' \in Seq(Nat)
  PROVE  Inv'
BY DEF Inv

\* Registers and jumps keep the invariant.
LEMMA RegisterSteps ==
  ASSUME Inv, Load \/ CopyToRegister \/ IsInstance \/ Not \/ Jump \/ JumpIfFalse
  PROVE  Inv'
<1>a. /\ err \in Errors \cup {"none"} /\ quiet_throw \in BOOLEAN
      /\ KeyboardInterrupted \in BOOLEAN /\ created \in Nat /\ interrupts \in Nat
      /\ stack_trace \in Seq(Nat) /\ <<>> \in Seq(Nat)
  BY DEF Inv
<1>b. "true" \in Values /\ "false" \in Values
  BY DEF Values
<1>1. CASE Load
  <2>1. Fetch("LOAD") /\ Quiet("LOAD") /\ SetTop(Loaded(0, Instr.v))
    BY <1>1 DEF Load, Quiet
  <2>2. frames # <<>> /\ Instr.v \in Values
    <3>1. /\ frames # <<>> /\ Top.ip \in DOMAIN program.code[Top.fn]
          /\ program.code[Top.fn][Top.ip] = Instr /\ Instr.op = "LOAD"
      BY <2>1, Fetched
    <3>2. Good(program, Top) /\ Fine(program)
      BY <3>1, TopGood DEF Inv
    <3> QED BY <3>1, <3>2, AtInstruction DEF Safe
  <2>3. Good(program, Loaded(0, Instr.v))
    BY <2>1, <2>2, QuietTop, TopGood
  <2>4. Framed(program, frames')
    BY <2>1, <2>2, <2>3, TopMoves
  <2> QED BY <1>1, <1>a, <2>4, Kept DEF Load, scopes, signals, outside
<1>2. CASE CopyToRegister
  <2>1. /\ Fetch("COPY_TO_REGISTER") /\ Quiet("COPY_TO_REGISTER")
        /\ SetTop(Loaded(Instr.y, Top.r[Instr.x]))
    BY <1>2 DEF CopyToRegister, Quiet
  <2>2. /\ frames # <<>> /\ Top.r[Instr.x] \in Values
        /\ Instr.y \in 0..(program.regs[Top.fn] - 1)
    BY <2>1, Fetched
  <2>3. Good(program, Loaded(Instr.y, Top.r[Instr.x]))
    BY <2>1, <2>2, QuietTop
  <2>4. Framed(program, frames')
    BY <2>1, <2>2, <2>3, TopMoves
  <2> QED BY <1>2, <1>a, <2>4, Kept DEF CopyToRegister, raising, scopes, signals, outside
<1>3. CASE IsInstance
  <2> DEFINE v == IF is_instance(Top.r[Instr.x], Instr.v) THEN "true" ELSE "false"
  <2>1. Fetch("IS_INSTANCE") /\ Quiet("IS_INSTANCE") /\ SetTop(Loaded(0, v))
    BY <1>3 DEF IsInstance, Quiet
  <2>2. frames # <<>> /\ v \in Values
    BY <2>1, <1>b, Fetched
  <2> HIDE DEF v
  <2>3. Good(program, Loaded(0, v))
    BY <2>1, <2>2, QuietTop, TopGood
  <2>4. Framed(program, frames')
    BY <2>1, <2>2, <2>3, TopMoves
  <2> QED BY <1>3, <1>a, <2>4, Kept DEF IsInstance, raising, scopes, signals, outside
<1>4. CASE Not
  <2> DEFINE v == IF Top.r[0] = "false" THEN "true" ELSE "false"
  <2>1. Fetch("NOT") /\ Quiet("NOT") /\ SetTop(Loaded(0, v))
    BY <1>4 DEF Not, Quiet
  <2>2. frames # <<>> /\ v \in Values
    BY <2>1, <1>b, Fetched
  <2> HIDE DEF v
  <2>3. Good(program, Loaded(0, v))
    BY <2>1, <2>2, QuietTop, TopGood
  <2>4. Framed(program, frames')
    BY <2>1, <2>2, <2>3, TopMoves
  <2> QED BY <1>4, <1>a, <2>4, Kept DEF Not, raising, scopes, signals, outside
<1>5. CASE Jump
  <2>1. Fetch("JUMP") /\ SetTop([Top EXCEPT !.ip = Instr.to])
    BY <1>5 DEF Jump
  <2>2. frames # <<>> /\ Good(program, [Top EXCEPT !.ip = Instr.to])
    BY <2>1, Fetched, JumpedTop
  <2>3. Framed(program, frames')
    BY <2>1, <2>2, TopMoves
  <2> QED BY <1>5, <1>a, <2>3, Kept DEF Jump, raising, scopes, signals, outside
<1>6. CASE JumpIfFalse
  <2>1. /\ Fetch("JUMP_IF_FALSE") /\ Quiet("JUMP_IF_FALSE")
        /\ SetTop([Top EXCEPT !.ip = IF Top.r[Instr.x] = "false" THEN Instr.to ELSE @ + 1])
    BY <1>6 DEF JumpIfFalse, Quiet
  <2>2. /\ frames # <<>> /\ Good(program, [Top EXCEPT !.ip = Instr.to])
        /\ Good(program, Stepped)
    BY <2>1, Fetched, JumpedTop, QuietTop
  <2>3. Framed(program, frames')
    <3>1. CASE Top.r[Instr.x] = "false"
      <4>1. SetTop([Top EXCEPT !.ip = Instr.to])
        BY <2>1, <3>1
      <4> QED BY <4>1, <2>2, TopMoves
    <3>2. CASE Top.r[Instr.x] # "false"
      <4>1. SetTop(Stepped)
        BY <2>1, <3>2 DEF Stepped
      <4> QED BY <4>1, <2>2, TopMoves
    <3> QED BY <3>1, <3>2
  <2> QED BY <1>6, <1>a, <2>3, Kept DEF JumpIfFalse, raising, scopes, signals, outside
<1> QED BY <1>1, <1>2, <1>3, <1>4, <1>5, <1>6

\* What the environment decides keeps the invariant.
LEMMA EnvironmentSteps ==
  ASSUME Inv, Effect \/ Bool \/ LoadIter \/ ForLoopJump
  PROVE  Inv'
<1>a. /\ err \in Errors \cup {"none"} /\ quiet_throw \in BOOLEAN
      /\ KeyboardInterrupted \in BOOLEAN /\ created \in Nat /\ interrupts \in Nat
      /\ interrupts + 1 \in Nat /\ stack_trace \in Seq(Nat) /\ <<>> \in Seq(Nat)
  BY DEF Inv
<1>b. /\ "true" \in Values /\ "false" \in Values /\ "null" \in Values /\ "iter" \in Values
      /\ "E" \in Errors /\ "StopIteration" \in Errors /\ "KeyboardInterrupt" \in Errors
  BY DEF Values, Errors
<1>c. ASSUME NEW op, Fetch(op), Quiet(op),
             SetTop(Stepped) \/ \E v \in Values : SetTop(Loaded(0, v))
      PROVE  Framed(program, frames')
  <2>1. frames # <<>> /\ Good(program, Stepped) /\ 0 \in 0..(program.regs[Top.fn] - 1)
    BY <1>c, Fetched, QuietTop, TopGood
  <2>2. CASE SetTop(Stepped)
    BY <2>1, <2>2, TopMoves
  <2>3. ASSUME NEW v \in Values, SetTop(Loaded(0, v)) PROVE Framed(program, frames')
    <3>1. Good(program, Loaded(0, v))
      BY <1>c, <2>1, QuietTop
    <3> QED BY <3>1, <2>1, <2>3, TopMoves
  <2> QED BY <1>c, <2>2, <2>3
<1>1. CASE Effect
  <2>1. Fetch("EFFECT") /\ Quiet("EFFECT")
    BY <1>1 DEF Effect, Quiet
  <2>2. PICK o \in {"ok", "E", "StopIteration"}, signal \in BOOLEAN :
          /\ interrupts' = IF signal THEN interrupts + 1 ELSE interrupts
          /\ IF o = "ok" /\ ~signal
               THEN SetTop(Loaded(0, "null")) /\ UNCHANGED <<err, stack_trace>>
               ELSE SetTop(Stepped) /\ Raise(IF signal THEN "KeyboardInterrupt" ELSE o)
    BY <1>1 DEF Effect
  <2>3. SetTop(Stepped) \/ SetTop(Loaded(0, "null"))
    BY <2>2
  <2>4. Framed(program, frames')
    BY <2>1, <2>3, <1>b, <1>c
  <2>5. err' \in Errors \cup {"none"} /\ stack_trace' \in Seq(Nat) /\ interrupts' \in Nat
    BY <2>2, <1>a, <1>b DEF Raise
  <2> QED BY <1>1, <1>a, <2>4, <2>5, Kept DEF Effect, scopes
<1>2. CASE Bool
  <2>1. Fetch("BOOL") /\ Quiet("BOOL") /\ \E v \in Values : SetTop(Loaded(0, v))
    BY <1>2, <1>b DEF Bool, Quiet
  <2>2. Framed(program, frames')
    BY <2>1, <1>c
  <2> QED BY <1>2, <1>a, <2>2, Kept DEF Bool, raising, scopes, signals
<1>3. CASE LoadIter
  <2>1. Fetch("LOAD_ITER") /\ Quiet("LOAD_ITER")
    BY <1>3 DEF LoadIter, Quiet
  <2>2. SetTop(Stepped) \/ SetTop(Loaded(0, "iter"))
    BY <1>3 DEF LoadIter
  <2>3. Framed(program, frames')
    BY <2>1, <2>2, <1>b, <1>c
  <2>4. err' \in Errors \cup {"none"} /\ stack_trace' \in Seq(Nat)
    BY <1>3, <1>a, <1>b DEF LoadIter, Raise
  <2> QED BY <1>3, <1>a, <2>3, <2>4, Kept DEF LoadIter, scopes, signals
<1>4. CASE ForLoopJump
  <2>1. Fetch("FOR_LOOP_JUMP") /\ Quiet("FOR_LOOP_JUMP")
    BY <1>4 DEF ForLoopJump, Quiet
  <2>2. PICK o \in {"item", "StopIteration", "E"} :
          IF o = "item"
            THEN SetTop(Loaded(0, "null")) /\ UNCHANGED <<err, stack_trace>>
            ELSE SetTop(Stepped) /\ Raise(o)
    BY <1>4 DEF ForLoopJump
  <2>3. SetTop(Stepped) \/ SetTop(Loaded(0, "null"))
    BY <2>2
  <2>4. Framed(program, frames')
    BY <2>1, <2>3, <1>b, <1>c
  <2>5. err' \in Errors \cup {"none"} /\ stack_trace' \in Seq(Nat)
    BY <2>2, <1>a, <1>b DEF Raise
  <2> QED BY <1>4, <1>a, <2>4, <2>5, Kept DEF ForLoopJump, scopes, signals
<1> QED BY <1>1, <1>2, <1>3, <1>4

\* The scope instructions keep the invariant, and find the scope they need.
LEMMA ScopeSteps ==
  ASSUME Inv, NewScope \/ EmptyScope \/ PopScope \/ Declare
  PROVE  Inv'
<1>a. /\ err \in Errors \cup {"none"} /\ "E" \in Errors /\ quiet_throw \in BOOLEAN
      /\ KeyboardInterrupted \in BOOLEAN /\ created \in Nat /\ created + 1 \in Nat
      /\ interrupts \in Nat /\ stack_trace \in Seq(Nat) /\ <<>> \in Seq(Nat)
  BY DEF Inv, Errors
<1>1. CASE NewScope
  <2> DEFINE st == Append(Top.stack, created + 1)
  <2>1. Fetch("NEW_SCOPE") /\ SetTop([Stepped EXCEPT !.stack = Append(@, created')])
        /\ created' = created + 1
    BY <1>1 DEF NewScope
  <2>2. /\ frames # <<>> /\ Top.ip \in DOMAIN program.code[Top.fn]
        /\ program.code[Top.fn][Top.ip].op = "NEW_SCOPE"
    BY <2>1, Fetched
  <2>3. Good(program, Top) /\ Fine(program) /\ Top \in Frame
    BY <2>2, TopGood DEF Inv
  <2>4. /\ program.type[Top.fn][Top.ip] \in Types
        /\ Len(Top.stack) = program.type[Top.fn][Top.ip].stack
    BY <2>2, <2>3, AtInstruction
  <2>5. st \in Seq(Nat) /\ Len(st) = Len(Top.stack) + 1
    BY <2>3, <1>a, FrameFields, AppendProperties
  <2>6. Len(st) = After(program.code[Top.fn][Top.ip], Top.ip, program.type[Top.fn][Top.ip]).stack
    BY <2>2, <2>4, <2>5 DEF After, Types
  <2>7. SetTop([Top EXCEPT !.ip = Top.ip + 1, !.stack = st])
    BY <2>1, <2>3 DEF Stepped, Frame
  <2> HIDE DEF st, Top
  <2>8. Good(program, [Top EXCEPT !.ip = Top.ip + 1, !.stack = st])
    BY <2>2, <2>3, <2>5, <2>6, ScopesChange
  <2>9. Framed(program, frames')
    BY <2>2, <2>7, <2>8, TopMoves
  <2> QED BY <1>1, <1>a, <2>9, Kept DEF NewScope, raising, signals, outside
<1>2. CASE EmptyScope
  <2>1. Fetch("EMPTY_SCOPE") /\ Quiet("EMPTY_SCOPE") /\ SetTop(Stepped)
    BY <1>2 DEF EmptyScope, Quiet
  <2>2. Framed(program, frames')
    BY <2>1, Fetched, QuietTop, TopMoves
  <2> QED BY <1>2, <1>a, <2>2, Kept DEF EmptyScope, raising, signals, outside
<1>3. CASE PopScope
  <2> DEFINE st == Front(Top.stack)
  <2>1. Fetch("POP_SCOPE") /\ SetTop([Stepped EXCEPT !.stack = Front(@)])
    BY <1>3 DEF PopScope
  <2>2. /\ frames # <<>> /\ Top.ip \in DOMAIN program.code[Top.fn]
        /\ program.code[Top.fn][Top.ip].op = "POP_SCOPE"
    BY <2>1, Fetched
  <2>3. Good(program, Top) /\ Fine(program) /\ Top \in Frame
    BY <2>2, TopGood DEF Inv
  <2>4. /\ program.type[Top.fn][Top.ip] \in Types
        /\ program.type[Top.fn][Top.ip].stack > 0
        /\ Len(Top.stack) = program.type[Top.fn][Top.ip].stack
    BY <2>2, <2>3, AtInstruction DEF Safe
  <2>5. st \in Seq(Nat) /\ Len(st) = Len(Top.stack) - 1
    <3>1. Top.stack \in Seq(Nat) /\ Len(Top.stack) \in Nat \ {0}
      BY <2>3, <2>4, FrameFields, LenProperties DEF Types
    <3> QED BY <3>1, FrontOfSeq
  <2>6. Len(st) = After(program.code[Top.fn][Top.ip], Top.ip, program.type[Top.fn][Top.ip]).stack
    BY <2>2, <2>4, <2>5 DEF After, Types
  <2>7. SetTop([Top EXCEPT !.ip = Top.ip + 1, !.stack = st])
    BY <2>1, <2>3 DEF Stepped, Frame
  <2> HIDE DEF st, Top
  <2>8. Good(program, [Top EXCEPT !.ip = Top.ip + 1, !.stack = st])
    BY <2>2, <2>3, <2>5, <2>6, ScopesChange
  <2>9. Framed(program, frames')
    BY <2>2, <2>7, <2>8, TopMoves
  <2> QED BY <1>3, <1>a, <2>9, Kept DEF PopScope, raising, scopes, signals, outside
<1>4. CASE Declare
  <2>1. Fetch("DECLARE") /\ Quiet("DECLARE") /\ SetTop(Stepped)
    BY <1>4 DEF Declare, Quiet
  <2>2. Framed(program, frames')
    BY <2>1, Fetched, QuietTop, TopMoves
  <2>3. err' \in Errors \cup {"none"} /\ stack_trace' \in Seq(Nat)
    BY <1>4, <1>a DEF Declare, Raise
  <2> QED BY <1>4, <1>a, <2>2, <2>3, Kept DEF Declare, signals, outside
<1> QED BY <1>1, <1>2, <1>3, <1>4

\* Calls and returns keep the invariant.
LEMMA CallSteps ==
  ASSUME Inv, InitCall \/ Call \/ Return
  PROVE  Inv'
<1>a. /\ err \in Errors \cup {"none"} /\ quiet_throw \in BOOLEAN
      /\ KeyboardInterrupted \in BOOLEAN /\ created \in Nat /\ created + 1 \in Nat
      /\ interrupts \in Nat /\ stack_trace \in Seq(Nat)
  BY DEF Inv
<1>1. CASE InitCall
  <2> DEFINE k == Append(Top.calls, Instr.to)
  <2>1. Fetch("INIT_CALL") /\ SetTop([Stepped EXCEPT !.calls = Append(@, Instr.to)])
    BY <1>1 DEF InitCall
  <2>2. /\ frames # <<>> /\ Top.ip \in DOMAIN program.code[Top.fn]
        /\ program.code[Top.fn][Top.ip] = Instr /\ Instr.op = "INIT_CALL"
        /\ Instr.to \in Nat
    BY <2>1, Fetched DEF Instruction
  <2>3. Good(program, Top) /\ Fine(program) /\ Top \in Frame
    BY <2>2, TopGood DEF Inv
  <2>4. /\ program.type[Top.fn][Top.ip] \in Types
        /\ Top.calls = program.type[Top.fn][Top.ip].calls
    BY <2>2, <2>3, AtInstruction
  <2>5. k \in Seq(Nat)
    BY <2>2, <2>3, FrameFields, AppendProperties
  <2>6. k = After(program.code[Top.fn][Top.ip], Top.ip, program.type[Top.fn][Top.ip]).calls
    BY <2>2, <2>4 DEF After, Types
  <2>7. SetTop([Top EXCEPT !.ip = Top.ip + 1, !.calls = k])
    BY <2>1, <2>3 DEF Stepped, Frame
  <2> HIDE DEF k, Top
  <2>8. Good(program, [Top EXCEPT !.ip = Top.ip + 1, !.calls = k])
    BY <2>2, <2>3, <2>5, <2>6, CallsChange
  <2>9. Framed(program, frames')
    BY <2>2, <2>7, <2>8, TopMoves
  <2> QED BY <1>1, <1>a, <2>9, Kept DEF InitCall, raising, scopes, signals, outside
<1>2. CASE Call
  <2> DEFINE k == Front(Top.calls)
             g == [Top EXCEPT !.ip = Top.ip + 1, !.calls = k]
             new == NewFrame(Last(Top.calls), created + 1)
             fs == [frames EXCEPT ![Depth] = g]
  <2>1. /\ Fetch("CALL") /\ Last(Top.calls) \in DOMAIN program.code /\ Top.calls # <<>>
        /\ frames' = Append([frames EXCEPT ![Depth] = [Stepped EXCEPT !.calls = Front(@)]],
                            NewFrame(Last(Top.calls), created'))
        /\ created' = created + 1
    BY <1>2 DEF Call
  <2>2. /\ frames # <<>> /\ Top.ip \in DOMAIN program.code[Top.fn]
        /\ program.code[Top.fn][Top.ip].op = "CALL"
    BY <2>1, Fetched
  <2>3. /\ Good(program, Top) /\ Fine(program) /\ Top \in Frame /\ Depth \in 1..Len(frames)
        /\ Framed(program, frames)
    BY <2>2, TopGood DEF Inv
  <2>4. /\ program.type[Top.fn][Top.ip] \in Types
        /\ Top.calls = program.type[Top.fn][Top.ip].calls
    BY <2>2, <2>3, AtInstruction
  <2>5. k \in Seq(Nat)
    <3>1. Top.calls \in Seq(Nat) /\ Len(Top.calls) # 0
      BY <2>1, <2>3, FrameFields, EmptySeq
    <3> QED BY <3>1, FrontOfSeq
  <2>6. k = After(program.code[Top.fn][Top.ip], Top.ip, program.type[Top.fn][Top.ip]).calls
    BY <2>2, <2>4 DEF After, Types
  <2>7. [Stepped EXCEPT !.calls = Front(@)] = g
    BY <2>3 DEF Stepped, Frame
  <2>8. frames' = Append(fs, new)
    BY <2>1, <2>7
  <2>9. Good(program, new)
    BY <2>1, <2>3, <1>a, Starts
  <2> HIDE DEF k, Top
  <2>10. Good(program, g)
    BY <2>2, <2>3, <2>5, <2>6, CallsChange
  <2> HIDE DEF g, new
  <2>11. Framed(program, fs)
    BY <2>3, <2>10, Replaced
  <2> HIDE DEF fs
  <2>12. Framed(program, frames')
    BY <2>8, <2>9, <2>11, Pushed
  <2> QED BY <1>2, <1>a, <2>1, <2>12, Kept DEF Call, raising, signals, outside
<1>3. CASE Return
  <2>1. Framed(program, frames')
    BY <1>3, Returned DEF Return, Running
  <2> QED BY <1>3, <1>a, <2>1, Kept DEF Return, raising, scopes, signals, outside
<1> QED BY <1>1, <1>2, <1>3

\* Raising, catching and unwinding keep the invariant.
LEMMA ExceptionSteps ==
  ASSUME Inv, \/ Throw \/ QuietThrow \/ ExceptionCatcherPush \/ ExceptionCatcherPop
              \/ Catch \/ Unwind
  PROVE  Inv'
<1>a. /\ err \in Errors \cup {"none"} /\ "E" \in Errors /\ quiet_throw \in BOOLEAN
      /\ KeyboardInterrupted \in BOOLEAN /\ created \in Nat /\ interrupts \in Nat
      /\ stack_trace \in Seq(Nat) /\ <<>> \in Seq(Nat)
      /\ "none" \in Errors \cup {"none"} /\ FALSE \in BOOLEAN /\ TRUE \in BOOLEAN
  BY DEF Inv, Errors
<1>b. frames # <<>> /\ NoteFrame => stack_trace' \in Seq(Nat)
  BY <1>a, TopGood, AppendProperties DEF NoteFrame
<1>1. CASE Throw
  <2>1. Fetch("THROW") /\ Quiet("THROW") /\ SetTop(Stepped)
    BY <1>1 DEF Throw, Quiet
  <2>2. Framed(program, frames')
    BY <2>1, Fetched, QuietTop, TopMoves
  <2>3. err' \in Errors \cup {"none"} /\ stack_trace' \in Seq(Nat)
    BY <1>1, <1>a DEF Throw, Raise
  <2> QED BY <1>1, <1>a, <2>2, <2>3, Kept DEF Throw, scopes, signals
<1>2. CASE QuietThrow
  <2>1. Fetch("QUIET_THROW") /\ Quiet("QUIET_THROW") /\ SetTop(Stepped)
    BY <1>2 DEF QuietThrow, Quiet
  <2>2. Framed(program, frames')
    BY <2>1, Fetched, QuietTop, TopMoves
  <2>3. /\ err' \in Errors \cup {"none"} /\ stack_trace' \in Seq(Nat)
        /\ quiet_throw' \in BOOLEAN
    BY <1>2, <1>a DEF QuietThrow, Raise
  <2> QED BY <1>2, <1>a, <2>2, <2>3, Kept DEF QuietThrow, scopes, signals
<1>3. CASE ExceptionCatcherPush
  <2> DEFINE h == Append(Top.catch, [jump_to |-> Instr.to, stack |-> Top.stack,
                                     calls |-> Top.calls, at |-> Top.ip])
  <2>1. /\ Fetch("EXCEPTION_CATCHER_PUSH")
        /\ SetTop([Stepped EXCEPT !.catch =
             Append(@, [jump_to |-> Instr.to, stack |-> Top.stack, calls |-> Top.calls,
                        at |-> Top.ip])])
    BY <1>3 DEF ExceptionCatcherPush
  <2>2. /\ frames # <<>> /\ Top.ip \in DOMAIN program.code[Top.fn]
        /\ program.code[Top.fn][Top.ip] = Instr /\ Instr.op = "EXCEPTION_CATCHER_PUSH"
    BY <2>1, Fetched
  <2>3. Good(program, Top) /\ Fine(program) /\ Top \in Frame
    BY <2>2, TopGood DEF Inv
  <2>4. SetTop([Top EXCEPT !.ip = Top.ip + 1, !.catch = h])
    BY <2>1, <2>3, SMTT(30) DEF Stepped, Frame
  <2>5. Good(program, [Top EXCEPT !.ip = Top.ip + 1, !.catch = h])
    <3> HIDE DEF Top, Instr
    <3> QED BY <2>2, <2>3, Pushes
  <2> HIDE DEF h
  <2>6. Framed(program, frames')
    BY <2>2, <2>4, <2>5, TopMoves
  <2> QED BY <1>3, <1>a, <2>6, Kept DEF ExceptionCatcherPush, raising, scopes, signals, outside
<1>4. CASE ExceptionCatcherPop
  <2> DEFINE h == Front(Top.catch)
  <2>1. /\ Fetch("EXCEPTION_CATCHER_POP")
        /\ SetTop([Stepped EXCEPT !.catch = IF @ = <<>> THEN @ ELSE Front(@)])
    BY <1>4 DEF ExceptionCatcherPop
  <2>2. /\ frames # <<>> /\ Top.ip \in DOMAIN program.code[Top.fn]
        /\ program.code[Top.fn][Top.ip].op = "EXCEPTION_CATCHER_POP"
    BY <2>1, Fetched
  <2>3. Good(program, Top) /\ Fine(program) /\ Top \in Frame
    BY <2>2, TopGood DEF Inv
  <2>4. Top.catch # <<>> /\ Good(program, [Top EXCEPT !.ip = Top.ip + 1, !.catch = h])
    <3> HIDE DEF Top
    <3> QED BY <2>2, <2>3, Pops
  <2>5. SetTop([Top EXCEPT !.ip = Top.ip + 1, !.catch = h])
    BY <2>1, <2>3, <2>4 DEF Stepped, Frame
  <2> HIDE DEF h
  <2>6. Framed(program, frames')
    BY <2>2, <2>4, <2>5, TopMoves
  <2> QED BY <1>4, <1>a, <2>6, Kept DEF ExceptionCatcherPop, raising, scopes, signals, outside
<1>5. CASE Catch
  <2>1. frames # <<>> /\ err # "none" /\ Top.catch # <<>> /\ NoteFrame
    BY <1>5 DEF Catch
  <2>2. Good(program, Top) /\ Fine(program) /\ err \in Values
    BY <2>1, <1>a, TopGood DEF Inv, Values
  <2>3. LET c == Last(Top.catch)
        IN SetTop([Top EXCEPT !.ip = c.jump_to, !.stack = c.stack, !.calls = c.calls,
                              !.catch = Front(@), !.r[0] = err])
    BY <1>5 DEF Catch
  <2>4. LET c == Last(Top.catch)
        IN Good(program, [Top EXCEPT !.ip = c.jump_to, !.stack = c.stack, !.calls = c.calls,
                                     !.catch = Front(@), !.r[0] = err])
    <3> HIDE DEF Top
    <3> QED BY <2>1, <2>2, Caught
  <2>5. Framed(program, frames')
    BY <2>1, <2>3, <2>4, TopMoves
  <2> QED BY <1>5, <1>a, <1>b, <2>1, <2>5, Kept DEF Catch, scopes, signals, outside
<1>6. CASE Unwind
  <2>1. frames # <<>> /\ NoteFrame
    BY <1>6 DEF Unwind
  <2>2. Framed(program, frames')
    BY <1>6, <2>1, Returned DEF Unwind
  <2> QED BY <1>6, <1>a, <1>b, <2>1, <2>2, Kept DEF Unwind, scopes, signals, outside
<1> QED BY <1>1, <1>2, <1>3, <1>4, <1>5, <1>6

\* Ctrl-C keeps the invariant, when it comes and when it is taken.
LEMMA SignalSteps ==
  ASSUME Inv, sigint_handler \/ TakeInterrupt
  PROVE  Inv'
<1>1. "KeyboardInterrupt" \in Errors /\ interrupts + 1 \in Nat
  BY DEF Inv, Errors
<1>2. CASE sigint_handler
  BY <1>1, <1>2 DEF Inv, sigint_handler, raising, scopes, outside
<1>3. CASE TakeInterrupt
  BY <1>1, <1>3 DEF Inv, TakeInterrupt, scopes, outside
<1> QED BY <1>2, <1>3

-------------------------------------------------------------------------------
(* Theorems *)

\* The first state is as the invariant says.
LEMMA Initially ==
  ASSUME Init, WellTyped(program)
  PROVE  Inv
<1>1. Fine(program)
  BY DEF Init, Fine
<1>2. 1 \in DOMAIN program.code
  <2>1. program.code \in Seq(Seq(Instruction)) /\ program.code # <<>>
    BY ProgramsAssumption DEF Init
  <2> QED BY <2>1, LenProperties, EmptySeq
<1> DEFINE g == NewFrame(1, 1)
<1>3. Good(program, g)
  BY <1>1, <1>2, Starts
<1>4. frames = <<g>>
  BY DEF Init
<1> HIDE DEF g
<1>5. Framed(program, frames)
  <2>1. g \in Frame
    BY <1>3 DEF Good
  <2>2. frames \in Seq(Frame) /\ Len(frames) = 1 /\ frames[1] = g
    BY <2>1, <1>4
  <2> QED BY <2>2, <1>3 DEF Framed
<1>6. /\ err = "none" /\ quiet_throw = FALSE /\ KeyboardInterrupted = FALSE
      /\ created = 1 /\ interrupts = 0 /\ stack_trace = <<>>
  BY DEF Init
<1>7. /\ err \in Errors \cup {"none"} /\ quiet_throw \in BOOLEAN
      /\ KeyboardInterrupted \in BOOLEAN /\ created \in Nat /\ interrupts \in Nat
      /\ stack_trace \in Seq(Nat)
  <2>1. quiet_throw \in BOOLEAN /\ KeyboardInterrupted \in BOOLEAN
    BY <1>6, Zenon
  <2>2. created \in Nat /\ interrupts \in Nat /\ stack_trace \in Seq(Nat)
    BY <1>6
  <2> QED BY <2>1, <2>2, <1>6
<1> QED BY <1>1, <1>5, <1>7 DEF Inv

\* Every step keeps the invariant.
LEMMA Steps ==
  ASSUME Inv, [Next]_vars
  PROVE  Inv'
<1>1. CASE Next
  BY <1>1, RegisterSteps, EnvironmentSteps, ScopeSteps, CallSteps, ExceptionSteps,
     SignalSteps DEF Next, Step
<1>2. CASE UNCHANGED vars
  BY <1>2 DEF vars, Inv
<1> QED BY <1>1, <1>2

\* Every frame stays typed: the inductive invariant of the interpreter.
THEOREM Invariance == TypedSpec => []Inv
<1>1. Init /\ WellTyped(program) => Inv
  BY Initially
<1>2. Inv /\ [Next]_vars => Inv'
  BY Steps
<1> QED BY <1>1, <1>2, PTL DEF TypedSpec

\* What the invariant says of the frames, in the words of the checked properties.
LEMMA FramesOK ==
  ASSUME Inv
  PROVE  TypeOK /\ NestingAsTyped
<1>1. DOMAIN frames = 1..Len(frames)
  BY LenProperties DEF Inv, Framed
<1>2. \A i \in DOMAIN frames : FrameTypeOK(program, frames[i]) /\ FrameOK(program, frames[i])
  BY <1>1 DEF Inv, Framed, Good
<1> QED BY <1>2 DEF Inv, TypeOK, NestingAsTyped

\* Registers hold values and frames stay in shape, in every run of a well-typed program:
\* runtime() never reads an error slot, a function or a register that is not there.
THEOREM TypeCorrect == TypedSpec => []TypeOK
<1>1. Inv => TypeOK
  BY FramesOK
<1> QED BY <1>1, Invariance, PTL

\* In every run of a well-typed program, exceptions and Ctrl-C included, each frame has
\* the scopes, catchers and pending call instances of the place where it is.
THEOREM NestingKept == TypedSpec => []NestingAsTyped
<1>1. Inv => NestingAsTyped
  BY FramesOK
<1> QED BY <1>1, Invariance, PTL

-------------------------------------------------------------------------------
(***************************************************************************)
(* What a well-typed program can rely on when errors are raised, caught    *)
(* and rethrown: what its registers hold, which scopes its catchers        *)
(* restore and what the error's stack trace lists.  The argument: the      *)
(* marks of a position hold in the frame that is there (Runs), those that  *)
(* last also while the frame waits for a call (Waits), and those of an     *)
(* active catcher's target hold already, but for the error itself          *)
(* (Catchable).                                                            *)
(***************************************************************************)

\* What is known at position ip of function fn.
Known(p, fn, ip) == IF ip \in DOMAIN p.marks[fn] THEN p.marks[fn][ip] ELSE {}

\* The trace goes up the frames one by one.
Upward(tr) == \A i \in 1..(Len(tr) - 1) : tr[i + 1] = tr[i] - 1

\* An error whose trace lists the frames up to depth d, and no further.
Listed(tr, d) == Upward(tr) /\ tr # <<>> /\ Last(tr) = d

\* v is what the mark says, in a frame at depth d when tr is the last error's trace.
Fits(v, mark, tr, d) ==
  /\ mark \in Lasting => v = mark
  /\ mark = "fresh" /\ v = "E" => tr = <<>>
  /\ mark = "caught" /\ v = "E" => Listed(tr, d)

\* The frame can run on where it is.
Runs(p, f, tr, d) == \A k \in Known(p, f.fn, f.ip) : Fits(f.r[k[1]], k[2], tr, d)

\* The frame can run on where it is with any result in register 0, whatever was raised
\* and caught in the meantime.
Waits(p, f) ==
  \A k \in Known(p, f.fn, f.ip) : k[1] # 0 /\ k[2] \in Lasting /\ f.r[k[1]] = k[2]

\* Catcher e can take an error: all but the error is in its register.
Catchable(p, f, e) ==
  \A k \in Known(p, f.fn, e.jump_to) :
    IF k[1] = 0 THEN k[2] = "caught" ELSE k[2] \in Lasting /\ f.r[k[1]] = k[2]

\* Two chains of scopes are the same as far as both go.
Agree(s, t) == \A i \in 1..Len(s) : i \in 1..Len(t) => s[i] = t[i]

\* The scopes f has open and those it will return to.
Stacks(f) == {f.stack} \cup {f.catch[j].stack : j \in DOMAIN f.catch}

Sound(p, f) ==
  /\ \A s, t \in Stacks(f) : Agree(s, t)
  /\ \A j \in DOMAIN f.catch : Catchable(p, f, f.catch[j])

\* Every frame is ready for an error, and those below the top for a result.
Held(p, fs) ==
  \A k \in 1..Len(fs) : Sound(p, fs[k]) /\ (k # Len(fs) => Waits(p, fs[k]))

\* An error that is on its way lists the frames it has left.
Traced(e, quiet, tr, d) ==
  /\ e = "none" => quiet = FALSE
  /\ e = "E" =>
       /\ Upward(tr)
       /\ quiet => Listed(tr, d)
       /\ ~quiet => tr = <<>> \/ Last(tr) = d + 1
       /\ d = 0 => Listed(tr, 1)

\* The inductive invariant, beside that of the frames.
Errs ==
  /\ Held(program, frames)
  /\ frames # <<>> /\ err = "none" => Runs(program, Top, stack_trace, Depth)
  /\ Traced(err, quiet_throw, stack_trace, Depth)

-------------------------------------------------------------------------------
(* Marks *)

\* The marks of a position of function fn, and what they lead to.
LEMMA Marked ==
  ASSUME NEW p, Fine(p), NEW fn \in DOMAIN p.code, NEW ip \in DOMAIN p.type[fn]
  PROVE  LET c == p.code[fn]
             m == Known(p, fn, ip)
         IN /\ \A k \in m : k[1] \in 0..(p.regs[fn] - 1) /\ k[2] \in Marks /\ k = <<k[1], k[2]>>
            /\ Needs(c[ip], m)
            /\ \A t \in Nexts(c[ip], ip) : Known(p, fn, t) \subseteq Behind(c[ip], m)
            /\ \A q \in Range(After(c[ip], ip, p.type[fn][ip]).catch) :
                 Known(p, fn, c[q].to) \subseteq Thrown(Behind(c[ip], m))
<1> DEFINE c == p.code[fn]
           T == p.type[fn]
           M == p.marks[fn]
           m == M[ip]
           n == Behind(c[ip], m)
           n0 == p.regs[fn] - 1
<1>1. IsMarking(c, T, M, p.regs[fn])
  BY DEF Fine, WellTyped
<1>2. ip \in DOMAIN M /\ Known(p, fn, ip) = m
  BY <1>1 DEF IsMarking, Known
<1>3. /\ m \subseteq (0..n0) \X Marks /\ Needs(c[ip], m)
      /\ \A e \in Goes(c, ip, T[ip], m) : e[1] \in DOMAIN M => M[e[1]] \subseteq e[2]
  BY <1>1, <1>2 DEF IsMarking
<1>4. ASSUME NEW t \in Nexts(c[ip], ip) PROVE Known(p, fn, t) \subseteq n
  <2>1. <<t, n>> \in Goes(c, ip, T[ip], m)
    BY DEF Goes
  <2> HIDE DEF n
  <2>2. t \in DOMAIN M => M[t] \subseteq n
    BY <1>3, <2>1
  <2> QED BY <2>2 DEF Known
<1>5. ASSUME NEW q \in Range(After(c[ip], ip, T[ip]).catch)
      PROVE  Known(p, fn, c[q].to) \subseteq Thrown(n)
  <2>1. <<c[q].to, Thrown(n)>> \in Goes(c, ip, T[ip], m)
    BY DEF Goes
  <2> DEFINE t == c[q].to
             u == Thrown(n)
  <2> HIDE DEF n, t, u
  <2>2. t \in DOMAIN M => M[t] \subseteq u
    BY <1>3, <2>1 DEF t, u
  <2>3. Known(p, fn, t) \subseteq u
    BY <2>2 DEF Known
  <2> QED BY <2>3 DEF t, u
<1>6. \A k \in m : k[1] \in 0..n0 /\ k[2] \in Marks /\ k = <<k[1], k[2]>>
  BY <1>3
<1> QED BY <1>2, <1>3, <1>4, <1>5, <1>6

\* Nothing is known at the start of a function.
LEMMA StartsUnknown ==
  ASSUME NEW p, Fine(p), NEW fn \in DOMAIN p.code
  PROVE  Known(p, fn, 1) = {}
BY DEF Fine, WellTyped, IsMarking, Known

\* What is known behind an instruction, by what it does to register 0.
LEMMA BehindIs ==
  ASSUME NEW i, NEW m
  PROVE  /\ i.op \in {"JUMP", "JUMP_IF_FALSE", "NEW_SCOPE", "EMPTY_SCOPE", "POP_SCOPE",
                      "DECLARE", "INIT_CALL", "EXCEPTION_CATCHER_PUSH",
                      "EXCEPTION_CATCHER_POP"} => Behind(i, m) = m
         /\ i.op \in {"IS_INSTANCE", "NOT", "EFFECT", "BOOL", "FOR_LOOP_JUMP"} =>
              \A k \in Behind(i, m) : k \in m /\ k[1] # 0
         /\ i.op = "CALL" => \A k \in Behind(i, m) : k \in m /\ k[1] # 0 /\ k[2] \in Lasting
BY DEF Behind, Without, Outlives

\* A catcher's target knows what lasts, and the error that is in register 0.
LEMMA ThrownIs ==
  ASSUME NEW m, NEW k \in Thrown(m)
  PROVE  IF k[1] = 0 THEN k[2] = "caught" ELSE k \in m /\ k[2] \in Lasting
BY DEF Thrown, Holding, Without, Outlives

\* What is known is known of a register of the frame, at a position that has a type.
LEMMA KnownRegister ==
  ASSUME NEW p, Fine(p), NEW fn \in DOMAIN p.code, NEW ip, NEW k \in Known(p, fn, ip)
  PROVE  k[1] \in 0..(p.regs[fn] - 1) /\ k[2] \in Marks /\ ip \in DOMAIN p.type[fn]
<1>1. IsMarking(p.code[fn], p.type[fn], p.marks[fn], p.regs[fn])
  BY DEF Fine, WellTyped
<1>2. ip \in DOMAIN p.type[fn]
  BY <1>1 DEF IsMarking, Known
<1> QED BY <1>2, Marked

-------------------------------------------------------------------------------
(* Frames *)

\* A frame keeps its scopes, its catchers and, but for register 0, its registers, or has
\* less of them.
LEMMA StaysSound ==
  ASSUME NEW p, Fine(p), NEW f, f.fn \in DOMAIN p.code, Sound(p, f), NEW g,
         g.fn = f.fn, Stacks(g) \subseteq Stacks(f),
         \A j \in DOMAIN g.catch : \E l \in DOMAIN f.catch : g.catch[j] = f.catch[l],
         \A x \in 1..(p.regs[f.fn] - 1) : g.r[x] = f.r[x]
  PROVE  Sound(p, g)
<1>1. \A s, t \in Stacks(g) : Agree(s, t)
  BY DEF Sound
<1>2. ASSUME NEW j \in DOMAIN g.catch PROVE Catchable(p, g, g.catch[j])
  <2>1. PICK l \in DOMAIN f.catch : g.catch[j] = f.catch[l]
    OBVIOUS
  <2> DEFINE t == f.catch[l].jump_to
  <2>2. ASSUME NEW k \in Known(p, f.fn, t)
        PROVE  IF k[1] = 0 THEN k[2] = "caught" ELSE k[2] \in Lasting /\ f.r[k[1]] = k[2]
    BY DEF Sound, Catchable
  <2>3. ASSUME NEW k \in Known(p, f.fn, t), k[1] # 0 PROVE g.r[k[1]] = f.r[k[1]]
    <3>1. k[1] \in 0..(p.regs[f.fn] - 1) /\ p.regs[f.fn] \in Nat
      BY KnownRegister, Parts
    <3> HIDE DEF t
    <3>2. k[1] \in 1..(p.regs[f.fn] - 1)
      BY <3>1, <2>3
    <3> QED BY <3>2
  <2> HIDE DEF t
  <2>4. \A k \in Known(p, f.fn, t) :
          IF k[1] = 0 THEN k[2] = "caught" ELSE k[2] \in Lasting /\ g.r[k[1]] = k[2]
    BY <2>2, <2>3
  <2> QED BY <2>1, <2>4 DEF t, Catchable
<1> QED BY <1>1, <1>2 DEF Sound

\* The top frame at the next instruction.
LEMMA SteppedFields ==
  ASSUME Inv, frames # <<>>
  PROVE  /\ Stepped.fn = Top.fn /\ Stepped.ip = Top.ip + 1 /\ Stepped.stack = Top.stack
         /\ Stepped.catch = Top.catch /\ Stepped.r = Top.r
<1>1. Top \in Frame
  BY TopGood
<1> HIDE DEF Top
<1> QED BY <1>1 DEF Stepped, Frame

\* The top frame at the next instruction, with the value v in register x.
LEMMA LoadedFields ==
  ASSUME Inv, frames # <<>>, NEW x, NEW v, NEW g, g = Loaded(x, v)
  PROVE  /\ g.fn = Top.fn /\ g.ip = Top.ip + 1 /\ g.stack = Top.stack /\ g.catch = Top.catch
         /\ \A y \in 0..(program.regs[Top.fn] - 1) : g.r[y] = IF y = x THEN v ELSE Top.r[y]
<1>1. Top \in Frame /\ Top.r \in [0..(program.regs[Top.fn] - 1) -> Values]
  BY TopGood
<1> HIDE DEF Top
<1> QED BY <1>1 DEF Stepped, Loaded, Frame

\* The top frame moves, ready for an error, and runs on unless one is on its way.
LEMMA TopStep ==
  ASSUME Inv, Errs, frames # <<>>, program' = program,
         NEW g, Sound(program, g), SetTop(g),
         err' = "none" => Runs(program, g, stack_trace', Depth),
         Traced(err', quiet_throw', stack_trace', Depth)
  PROVE  Errs'
<1>1. frames \in Seq(Frame) /\ Depth \in 1..Len(frames) /\ Depth = Len(frames)
  BY TopGood DEF Inv, Framed, Depth
<1>2. frames' = [frames EXCEPT ![Depth] = g]
  BY DEF SetTop
<1> DEFINE fs == frames'
<1>3. /\ Len(fs) = Len(frames) /\ fs[Depth] = g
      /\ \A k \in 1..Len(frames) : k # Depth => fs[k] = frames[k]
  BY <1>1, <1>2
<1>4. Depth' = Depth /\ Top' = g
  BY <1>1, <1>3 DEF Depth, Top
<1>5. Held(program, fs)
  <2> HIDE DEF fs
  <2> QED BY <1>1, <1>3 DEF Errs, Held
<1>6. Runs(program, g, stack_trace', Depth) <=> Runs(program', Top', stack_trace', Depth')
  BY <1>4
<1> QED BY <1>4, <1>5, <1>6 DEF Errs

\* What the frame that executes an instruction can rely on.
LEMMA Relies ==
  ASSUME Inv, Errs, NEW op, Fetch(op)
  PROVE  LET m == Known(program, Top.fn, Top.ip)
         IN /\ \A k \in m : /\ Fits(Top.r[k[1]], k[2], stack_trace, Depth)
                            /\ k[1] \in 0..(program.regs[Top.fn] - 1)
                            /\ k[2] \in Marks /\ k = <<k[1], k[2]>>
            /\ Needs(Instr, m)
            /\ Top.fn \in DOMAIN program.code /\ Top.ip \in DOMAIN program.type[Top.fn]
            /\ Sound(program, Top) /\ err = "none" /\ quiet_throw = FALSE
            /\ frames # <<>> /\ Fine(program) /\ Depth \in Nat \ {0}
<1>1. /\ frames # <<>> /\ Top.ip \in DOMAIN program.code[Top.fn]
      /\ program.code[Top.fn][Top.ip] = Instr /\ err = "none"
  BY Fetched DEF Fetch, Running
<1>2. /\ Good(program, Top) /\ Fine(program) /\ Depth \in Nat \ {0} /\ Depth \in 1..Len(frames)
  BY <1>1, TopGood DEF Inv
<1>3. Top.fn \in DOMAIN program.code /\ Top.ip \in DOMAIN program.type[Top.fn]
  BY <1>1, <1>2, AtInstruction
<1>4. Runs(program, Top, stack_trace, Depth) /\ quiet_throw = FALSE /\ Sound(program, Top)
  BY <1>1, <1>2 DEF Errs, Held, Traced, Top
<1> HIDE DEF Top, Instr, Depth
<1>5. \A k \in Known(program, Top.fn, Top.ip) : Fits(Top.r[k[1]], k[2], stack_trace, Depth)
  BY <1>4 DEF Runs
<1> QED BY <1>1, <1>2, <1>3, <1>4, <1>5, Marked

\* A frame g goes on from the instruction when its registers hold what is known behind it.
LEMMA Advance ==
  ASSUME Inv, Errs, NEW op, Fetch(op), NEW g, g.fn = Top.fn, g.ip \in Nexts(Instr, Top.ip),
         NEW tr, NEW d,
         \A k \in Behind(Instr, Known(program, Top.fn, Top.ip)) : Fits(g.r[k[1]], k[2], tr, d)
  PROVE  Runs(program, g, tr, d)
<1>1. /\ Top.fn \in DOMAIN program.code /\ Top.ip \in DOMAIN program.type[Top.fn]
      /\ Fine(program) /\ program.code[Top.fn][Top.ip] = Instr
  BY Relies, Fetched
<1> HIDE DEF Top, Instr
<1>2. Known(program, g.fn, g.ip) \subseteq Behind(Instr, Known(program, Top.fn, Top.ip))
  BY <1>1, Marked
<1> QED BY <1>2 DEF Runs

\* A frame that only went on, or put something in register 0, is as ready as before.
LEMMA TopStaysSound ==
  ASSUME Inv, Errs, NEW op, Fetch(op), NEW g, g.fn = Top.fn,
         Stacks(g) \subseteq Stacks(Top), g.catch = Top.catch,
         \A x \in 1..(program.regs[Top.fn] - 1) : g.r[x] = Top.r[x]
  PROVE  Sound(program, g)
<1>1. Top.fn \in DOMAIN program.code /\ Sound(program, Top) /\ Fine(program)
  BY Relies
<1> HIDE DEF Top
<1> QED BY <1>1, StaysSound

\* A catcher that is active behind the instruction can take an error there.
LEMMA Readied ==
  ASSUME Inv, Errs, NEW op, Fetch(op), NEW g, g.fn = Top.fn,
         NEW tr, NEW d,
         \A k \in Behind(Instr, Known(program, Top.fn, Top.ip)) : Fits(g.r[k[1]], k[2], tr, d),
         NEW e,
         e.at \in Range(After(Instr, Top.ip, program.type[Top.fn][Top.ip]).catch),
         e.jump_to = program.code[Top.fn][e.at].to
  PROVE  Catchable(program, g, e)
<1>1. /\ Top.fn \in DOMAIN program.code /\ Top.ip \in DOMAIN program.type[Top.fn]
      /\ Fine(program) /\ program.code[Top.fn][Top.ip] = Instr
  BY Relies, Fetched
<1> DEFINE n == Behind(Instr, Known(program, Top.fn, Top.ip))
<1>2. Known(program, g.fn, e.jump_to) \subseteq Thrown(n)
  <2> HIDE DEF Top, Instr
  <2> QED BY <1>1, Marked
<1>3. \A k \in n : k[2] \in Lasting => g.r[k[1]] = k[2]
  BY DEF Fits
<1> HIDE DEF n
<1>4. ASSUME NEW k \in Known(program, g.fn, e.jump_to)
      PROVE  IF k[1] = 0 THEN k[2] = "caught" ELSE k[2] \in Lasting /\ g.r[k[1]] = k[2]
  BY <1>2, <1>3, ThrownIs
<1> QED BY <1>4 DEF Catchable

-------------------------------------------------------------------------------
(* Steps *)

\* The marks that last do not mind what is raised.
LEMMA FitsOf ==
  ASSUME NEW v, NEW mark, NEW tr, NEW d
  PROVE  /\ mark \in Lasting => (Fits(v, mark, tr, d) <=> v = mark)
         /\ mark = "fresh" => (Fits(v, mark, tr, d) <=> (v = "E" => tr = <<>>))
         /\ mark = "caught" => (Fits(v, mark, tr, d) <=> (v = "E" => Listed(tr, d)))
BY DEF Fits, Lasting

\* An instruction that raises nothing and leaves scopes and catchers alone.
LEMMA GoesOn ==
  ASSUME Inv, Errs, NEW op, Fetch(op), program' = program,
         err' = err, quiet_throw' = quiet_throw,
         NEW g, SetTop(g), g.fn = Top.fn, Sound(program, g), g.ip \in Nexts(Instr, Top.ip),
         \A k \in Behind(Instr, Known(program, Top.fn, Top.ip)) :
           Fits(g.r[k[1]], k[2], stack_trace', Depth)
  PROVE  Errs'
<1>1. /\ frames # <<>> /\ err' = "none" /\ quiet_throw' = FALSE
  BY Relies
<1>2. Runs(program, g, stack_trace', Depth)
  BY Advance
<1>3. Traced(err', quiet_throw', stack_trace', Depth)
  BY <1>1 DEF Traced
<1> QED BY <1>1, <1>2, <1>3, TopStep

\* An instruction that raises: the top frame is behind it, and the trace is empty.
LEMMA Raises ==
  ASSUME Inv, Errs, NEW op, Fetch(op), program' = program, quiet_throw' = quiet_throw,
         SetTop(Stepped), NEW e \in Errors, Raise(e)
  PROVE  Errs'
<1>1. frames # <<>> /\ quiet_throw' = FALSE /\ err' # "none" /\ Depth # 0
  BY Relies DEF Raise, Errors
<1>2. /\ Stepped.fn = Top.fn /\ Stepped.stack = Top.stack
      /\ Stepped.catch = Top.catch /\ Stepped.r = Top.r
  BY <1>1, SteppedFields
<1>3. Sound(program, Stepped)
  BY <1>2, TopStaysSound DEF Stacks
<1>4. Traced(err', quiet_throw', stack_trace', Depth)
  <2>1. Len(<<>>) = 0 /\ ~(1 \in 1..(0 - 1)) /\ \A i \in 1..(0 - 1) : FALSE
    OBVIOUS
  <2>2. Upward(<<>>)
    BY <2>1 DEF Upward
  <2> QED BY <1>1, <2>2 DEF Traced, Raise
<1> QED BY <1>1, <1>3, <1>4, TopStep

\* Instructions that only put a value in register 0, of which nothing is known then.
LEMMA PutsResult ==
  ASSUME Inv, Errs, NEW op, Fetch(op), program' = program, raising' = raising,
         op \in {"IS_INSTANCE", "NOT", "EFFECT", "BOOL", "FOR_LOOP_JUMP"},
         NEW v, SetTop(Loaded(0, v))
  PROVE  Errs'
<1> DEFINE g == Loaded(0, v)
           m == Known(program, Top.fn, Top.ip)
<1>1. /\ frames # <<>> /\ Instr.op = op /\ err' = err /\ quiet_throw' = quiet_throw
      /\ stack_trace' = stack_trace
  BY Fetched DEF raising
<1>2. /\ g.fn = Top.fn /\ g.ip = Top.ip + 1 /\ g.stack = Top.stack /\ g.catch = Top.catch
      /\ \A y \in 0..(program.regs[Top.fn] - 1) : g.r[y] = IF y = 0 THEN v ELSE Top.r[y]
  BY <1>1, LoadedFields
<1>3. \A k \in m : /\ Fits(Top.r[k[1]], k[2], stack_trace, Depth)
                   /\ k[1] \in 0..(program.regs[Top.fn] - 1)
  BY Relies
<1>4. g.ip \in Nexts(Instr, Top.ip)
  BY <1>1, <1>2 DEF Nexts
<1>5. \A x \in 1..(program.regs[Top.fn] - 1) : g.r[x] = Top.r[x]
  BY <1>2
<1> HIDE DEF g, m
<1>6. Sound(program, g)
  BY <1>2, <1>5, TopStaysSound DEF Stacks
<1>7. \A k \in Behind(Instr, m) : k \in m /\ k[1] # 0
  BY <1>1, BehindIs
<1>8. \A k \in Behind(Instr, m) : Fits(g.r[k[1]], k[2], stack_trace', Depth)
  BY <1>1, <1>2, <1>3, <1>7
<1> QED BY <1>1, <1>2, <1>4, <1>6, <1>8, GoesOn DEF g, m

\* Instructions that leave the registers alone.
LEMMA LeavesRegisters ==
  ASSUME Inv, Errs, NEW op, Fetch(op), program' = program, raising' = raising,
         op \in {"JUMP", "JUMP_IF_FALSE", "NEW_SCOPE", "EMPTY_SCOPE", "POP_SCOPE", "DECLARE",
                 "INIT_CALL", "EXCEPTION_CATCHER_PUSH", "EXCEPTION_CATCHER_POP"},
         NEW g, SetTop(g), g.fn = Top.fn, g.r = Top.r, Sound(program, g),
         g.ip \in Nexts(Instr, Top.ip)
  PROVE  Errs'
<1> DEFINE m == Known(program, Top.fn, Top.ip)
<1>1. /\ frames # <<>> /\ Instr.op = op /\ err' = err /\ quiet_throw' = quiet_throw
      /\ stack_trace' = stack_trace
  BY Fetched DEF raising
<1>2. \A k \in m : Fits(Top.r[k[1]], k[2], stack_trace, Depth)
  BY Relies
<1>3. Behind(Instr, m) = m
  BY <1>1, BehindIs
<1>4. \A k \in Behind(Instr, m) : Fits(g.r[k[1]], k[2], stack_trace', Depth)
  BY <1>1, <1>2, <1>3
<1> QED BY <1>1, <1>4, GoesOn

\* LOAD puts a value in register 0: the iterator's method, or an exception that is new.
LEMMA LoadErrs ==
  ASSUME Inv, Errs, Load
  PROVE  Errs'
<1> DEFINE g == Loaded(0, Instr.v)
           m == Known(program, Top.fn, Top.ip)
           v == Instr.v
<1>1. /\ Fetch("LOAD") /\ SetTop(g) /\ program' = program
      /\ err' = err /\ quiet_throw' = quiet_throw
      /\ stack_trace' = IF v = "E" THEN <<>> ELSE stack_trace
  BY DEF Load
<1>2. frames # <<>> /\ Instr.op = "LOAD"
  BY <1>1, Fetched
<1>3. /\ g.fn = Top.fn /\ g.ip = Top.ip + 1 /\ g.stack = Top.stack /\ g.catch = Top.catch
      /\ \A y \in 0..(program.regs[Top.fn] - 1) : g.r[y] = IF y = 0 THEN v ELSE Top.r[y]
  BY <1>2, LoadedFields
<1>4. \A k \in m : /\ Fits(Top.r[k[1]], k[2], stack_trace, Depth)
                   /\ k[1] \in 0..(program.regs[Top.fn] - 1)
  BY <1>1, Relies
<1>5. g.ip \in Nexts(Instr, Top.ip)
  BY <1>2, <1>3 DEF Nexts
<1>6. (\A x \in 1..(program.regs[Top.fn] - 1) : g.r[x] = Top.r[x]) /\ g.r[0] = v
  <2>1. 0 \in 0..(program.regs[Top.fn] - 1)
    BY <1>2, TopGood
  <2> HIDE DEF g, v
  <2> QED BY <1>3, <2>1
<1> HIDE DEF g, m
<1>7. Sound(program, g)
  BY <1>1, <1>3, <1>6, TopStaysSound DEF Stacks
<1>8. ASSUME NEW k \in Behind(Instr, m) PROVE Fits(g.r[k[1]], k[2], stack_trace', Depth)
  <2>1. \/ k \in m /\ k[2] \in Lasting /\ k[1] # 0
        \/ k = <<0, IF v = "next" THEN "next" ELSE "fresh">>
    BY <1>2 DEF Behind, Holding, Without, Outlives
  <2>2. CASE k \in m /\ k[2] \in Lasting /\ k[1] # 0
    BY <2>2, <1>3, <1>4, FitsOf
  <2>3. CASE k = <<0, IF v = "next" THEN "next" ELSE "fresh">>
    BY <2>3, <1>1, <1>6 DEF Fits, Lasting
  <2> QED BY <2>1, <2>2, <2>3
<1> QED BY <1>1, <1>3, <1>5, <1>7, <1>8, GoesOn DEF m

\* COPY_TO_REGISTER copies what is known of the register: a catcher whose target relies
\* on the old value is not active.
LEMMA CopyErrs ==
  ASSUME Inv, Errs, CopyToRegister
  PROVE  Errs'
<1> DEFINE v == Top.r[Instr.x]
           y == Instr.y
           g == Loaded(y, v)
           m == Known(program, Top.fn, Top.ip)
<1>1. /\ Fetch("COPY_TO_REGISTER") /\ SetTop(g) /\ program' = program
      /\ err' = err /\ quiet_throw' = quiet_throw /\ stack_trace' = stack_trace
  BY DEF CopyToRegister, raising
<1>2. /\ frames # <<>> /\ Instr.op = "COPY_TO_REGISTER"
      /\ y \in 0..(program.regs[Top.fn] - 1)
  BY <1>1, Fetched
<1>3. /\ g.fn = Top.fn /\ g.ip = Top.ip + 1 /\ g.stack = Top.stack /\ g.catch = Top.catch
      /\ \A z \in 0..(program.regs[Top.fn] - 1) : g.r[z] = IF z = y THEN v ELSE Top.r[z]
  <2> HIDE DEF y, v
  <2> QED BY <1>2, LoadedFields
<1>4. /\ Top.fn \in DOMAIN program.code /\ Sound(program, Top)
      /\ \A k \in m : /\ Fits(Top.r[k[1]], k[2], stack_trace, Depth)
                      /\ k[1] \in 0..(program.regs[Top.fn] - 1)
  BY <1>1, Relies
<1>5. g.ip \in Nexts(Instr, Top.ip)
  BY <1>2, <1>3 DEF Nexts
<1> HIDE DEF g
<1>6. ASSUME NEW k \in Behind(Instr, m) PROVE Fits(g.r[k[1]], k[2], stack_trace', Depth)
  <2>1. \/ k \in m /\ k[1] # y
        \/ \E mark \in Marks : <<Instr.x, mark>> \in m /\ k = <<y, mark>>
    BY <1>2 DEF Behind, Holding, Without
  <2> HIDE DEF m, y
  <2>2. CASE k \in m /\ k[1] # y
    BY <2>2, <1>1, <1>3, <1>4
  <2>3. ASSUME NEW mark \in Marks, <<Instr.x, mark>> \in m, k = <<y, mark>>
        PROVE  Fits(g.r[k[1]], k[2], stack_trace', Depth)
    <3>1. g.r[k[1]] = v /\ k[2] = mark
      BY <2>3, <1>2, <1>3
    <3>2. Fits(v, mark, stack_trace, Depth)
      BY <2>3, <1>4
    <3> QED BY <3>1, <3>2, <1>1
  <2> QED BY <2>1, <2>2, <2>3
<1>7. Sound(program, g)
  <2>1. \A s, t \in Stacks(g) : Agree(s, t)
    <3>1. Stacks(g) = Stacks(Top)
      BY <1>3 DEF Stacks
    <3> QED BY <3>1, <1>4 DEF Sound
  <2>2. ASSUME NEW j \in DOMAIN g.catch PROVE Catchable(program, g, g.catch[j])
    <3>1. /\ Good(program, Top) /\ Fine(program)
          /\ Top.ip \in DOMAIN program.code[Top.fn] /\ program.code[Top.fn][Top.ip] = Instr
      BY <1>1, <1>2, Fetched, TopGood DEF Inv
    <3> DEFINE e == g.catch[j]
               ty == program.type[Top.fn][Top.ip]
    <3>2. /\ Active(Top) = ty.catch /\ e.jump_to = program.code[Top.fn][e.at].to
          /\ j \in DOMAIN Active(Top) /\ Active(Top)[j] = e.at
      <4>1. j \in DOMAIN Top.catch /\ g.catch = Top.catch
        BY <1>3
      <4> HIDE DEF Top
      <4> QED BY <3>1, <4>1, AtInstruction DEF Restores, Active
    <3>3. After(Instr, Top.ip, ty) = ty
      BY <1>2 DEF After
    <3>4. e.at \in Range(After(Instr, Top.ip, ty).catch)
      BY <3>2, <3>3 DEF Range
    <3> HIDE DEF e
    <3>5. Catchable(program, g, e)
      BY <1>1, <1>3, <1>6, <3>2, <3>4, Readied
    <3> QED BY <3>5 DEF e
  <2> QED BY <2>1, <2>2 DEF Sound
<1> QED BY <1>1, <1>3, <1>5, <1>6, <1>7, GoesOn DEF m

\* Registers and jumps.
LEMMA RegisterErrs ==
  ASSUME Inv, Errs, Load \/ CopyToRegister \/ IsInstance \/ Not \/ Jump \/ JumpIfFalse
  PROVE  Errs'
<1>1. CASE IsInstance
  <2>1. /\ Fetch("IS_INSTANCE") /\ program' = program /\ raising' = raising
        /\ \E v \in {"true", "false"} : SetTop(Loaded(0, v))
    BY <1>1 DEF IsInstance
  <2> QED BY <2>1, PutsResult
<1>2. CASE Not
  <2>1. /\ Fetch("NOT") /\ program' = program /\ raising' = raising
        /\ \E v \in {"true", "false"} : SetTop(Loaded(0, v))
    BY <1>2 DEF Not
  <2> QED BY <2>1, PutsResult
<1>3. ASSUME NEW op \in {"JUMP", "JUMP_IF_FALSE"}, Fetch(op),
             NEW n \in Nexts(Instr, Top.ip), SetTop([Top EXCEPT !.ip = n]),
             program' = program, raising' = raising
      PROVE  Errs'
  <2> DEFINE g == [Top EXCEPT !.ip = n]
  <2>1. frames # <<>> /\ Instr.op = op
    BY <1>3, Fetched
  <2>2. /\ g.fn = Top.fn /\ g.ip = n /\ g.stack = Top.stack /\ g.catch = Top.catch
        /\ g.r = Top.r
    <3>1. Top \in Frame
      BY <2>1, TopGood
    <3> HIDE DEF Top
    <3> QED BY <3>1 DEF Frame
  <2> HIDE DEF g
  <2>3. Sound(program, g)
    BY <1>3, <2>2, TopStaysSound DEF Stacks
  <2> QED BY <1>3, <2>2, <2>3, LeavesRegisters DEF g
<1>4. CASE Jump
  <2>1. Fetch("JUMP") /\ SetTop([Top EXCEPT !.ip = Instr.to]) /\ program' = program
        /\ raising' = raising
    BY <1>4 DEF Jump
  <2>2. Instr.to \in Nexts(Instr, Top.ip)
    BY <2>1, Fetched DEF Nexts
  <2> QED BY <2>1, <2>2, <1>3
<1>5. CASE JumpIfFalse
  <2> DEFINE n == IF Top.r[Instr.x] = "false" THEN Instr.to ELSE Top.ip + 1
  <2>1. Fetch("JUMP_IF_FALSE") /\ program' = program /\ raising' = raising
        /\ SetTop([Top EXCEPT !.ip = IF Top.r[Instr.x] = "false" THEN Instr.to ELSE @ + 1])
    BY <1>5 DEF JumpIfFalse
  <2>2. n \in Nexts(Instr, Top.ip) /\ frames # <<>>
    BY <2>1, Fetched DEF Nexts
  <2>3. SetTop([Top EXCEPT !.ip = n])
    <3>1. Top \in Frame
      BY <2>2, TopGood
    <3> HIDE DEF Top
    <3> QED BY <3>1, <2>1 DEF Frame
  <2> HIDE DEF n
  <2> QED BY <2>1, <2>2, <2>3, <1>3
<1> QED BY <1>1, <1>2, <1>4, <1>5, LoadErrs, CopyErrs

\* LOAD_ITER puts an iterator in register 0 or raises.
LEMMA LoadIterErrs ==
  ASSUME Inv, Errs, LoadIter
  PROVE  Errs'
<1>1. /\ Fetch("LOAD_ITER") /\ program' = program /\ quiet_throw' = quiet_throw
      /\ \/ SetTop(Loaded(0, "iter")) /\ UNCHANGED <<err, stack_trace>>
         \/ SetTop(Stepped) /\ Raise("E")
  BY DEF LoadIter
<1>2. CASE SetTop(Stepped) /\ Raise("E")
  BY <1>1, <1>2, Raises DEF Errors
<1>3. CASE SetTop(Loaded(0, "iter")) /\ UNCHANGED <<err, stack_trace>>
  <2> DEFINE g == Loaded(0, "iter")
             m == Known(program, Top.fn, Top.ip)
  <2>1. frames # <<>> /\ Instr.op = "LOAD_ITER" /\ 0 \in 0..(program.regs[Top.fn] - 1)
    BY <1>1, Fetched, TopGood
  <2>2. /\ g.fn = Top.fn /\ g.ip = Top.ip + 1 /\ g.stack = Top.stack /\ g.catch = Top.catch
        /\ \A y \in 0..(program.regs[Top.fn] - 1) :
             g.r[y] = IF y = 0 THEN "iter" ELSE Top.r[y]
    BY <2>1, LoadedFields
  <2>3. \A k \in m : /\ Fits(Top.r[k[1]], k[2], stack_trace, Depth)
                     /\ k[1] \in 0..(program.regs[Top.fn] - 1)
    BY <1>1, Relies
  <2>4. g.ip \in Nexts(Instr, Top.ip)
    BY <2>1, <2>2 DEF Nexts
  <2>5. (\A x \in 1..(program.regs[Top.fn] - 1) : g.r[x] = Top.r[x]) /\ g.r[0] = "iter"
    <3> HIDE DEF g
    <3> QED BY <2>1, <2>2
  <2> HIDE DEF m, g
  <2>6. Sound(program, g)
    BY <1>1, <2>2, <2>5, TopStaysSound DEF Stacks
  <2>7. ASSUME NEW k \in Behind(Instr, m) PROVE Fits(g.r[k[1]], k[2], stack_trace', Depth)
    <3>1. (k \in m /\ k[1] # 0) \/ k = <<0, "iter">>
      BY <2>1 DEF Behind, Holding, Without
    <3>2. CASE k \in m /\ k[1] # 0
      BY <3>2, <1>3, <2>2, <2>3
    <3>3. CASE k = <<0, "iter">>
      BY <3>3, <2>5 DEF Fits
    <3> QED BY <3>1, <3>2, <3>3
  <2> QED BY <1>1, <1>3, <2>2, <2>4, <2>6, <2>7, GoesOn DEF m, g
<1> QED BY <1>1, <1>2, <1>3

\* What the environment decides.
LEMMA EnvironmentErrs ==
  ASSUME Inv, Errs, Effect \/ Bool \/ LoadIter \/ ForLoopJump
  PROVE  Errs'
<1>1. CASE Effect
  <2>1. PICK o \in {"ok", "E", "StopIteration"}, signal \in BOOLEAN :
          IF o = "ok" /\ ~signal
            THEN SetTop(Loaded(0, "null")) /\ UNCHANGED <<err, stack_trace>>
            ELSE SetTop(Stepped) /\ Raise(IF signal THEN "KeyboardInterrupt" ELSE o)
    BY <1>1 DEF Effect
  <2>2. Fetch("EFFECT") /\ program' = program /\ quiet_throw' = quiet_throw
    BY <1>1 DEF Effect
  <2>3. CASE o = "ok" /\ ~signal
    BY <2>1, <2>2, <2>3, PutsResult DEF raising
  <2>4. CASE ~(o = "ok" /\ ~signal)
    <3> DEFINE e == IF signal THEN "KeyboardInterrupt" ELSE o
    <3>1. e \in Errors /\ SetTop(Stepped) /\ Raise(e)
      BY <2>1, <2>4 DEF Errors
    <3> HIDE DEF e
    <3> QED BY <2>2, <3>1, Raises
  <2> QED BY <2>3, <2>4
<1>2. CASE Bool
  <2>1. /\ Fetch("BOOL") /\ program' = program /\ raising' = raising
        /\ \E v \in {"true", "false"} : SetTop(Loaded(0, v))
    BY <1>2 DEF Bool
  <2> QED BY <2>1, PutsResult
<1>3. CASE ForLoopJump
  <2>1. PICK o \in {"item", "StopIteration", "E"} :
          IF o = "item"
            THEN SetTop(Loaded(0, "null")) /\ UNCHANGED <<err, stack_trace>>
            ELSE SetTop(Stepped) /\ Raise(o)
    BY <1>3 DEF ForLoopJump
  <2>2. Fetch("FOR_LOOP_JUMP") /\ program' = program /\ quiet_throw' = quiet_throw
    BY <1>3 DEF ForLoopJump
  <2>3. CASE o = "item"
    BY <2>1, <2>2, <2>3, PutsResult DEF raising
  <2>4. CASE o # "item"
    BY <2>1, <2>2, <2>4, Raises DEF Errors
  <2> QED BY <2>3, <2>4
<1> QED BY <1>1, <1>2, <1>3, LoadIterErrs

\* The top frame behind its instruction.
LEMMA SteppedErrs ==
  ASSUME Inv, Errs, NEW op, Fetch(op), program' = program, raising' = raising,
         op \in {"EMPTY_SCOPE", "DECLARE"}, SetTop(Stepped)
  PROVE  Errs'
<1>1. frames # <<>> /\ Instr.op = op
  BY Fetched
<1>2. /\ Stepped.fn = Top.fn /\ Stepped.ip = Top.ip + 1 /\ Stepped.stack = Top.stack
      /\ Stepped.catch = Top.catch /\ Stepped.r = Top.r
  BY <1>1, SteppedFields
<1>3. Sound(program, Stepped)
  BY <1>2, TopStaysSound DEF Stacks
<1>4. Stepped.ip \in Nexts(Instr, Top.ip)
  BY <1>1, <1>2 DEF Nexts
<1> QED BY <1>2, <1>3, <1>4, LeavesRegisters

\* The top frame has other scopes, which agree with those its catchers will restore.
LEMMA Rescoped ==
  ASSUME Inv, Errs, NEW op, Fetch(op), program' = program, raising' = raising,
         op \in {"NEW_SCOPE", "POP_SCOPE"}, NEW st \in Seq(Nat),
         SetTop([Top EXCEPT !.ip = Top.ip + 1, !.stack = st]),
         \A j \in DOMAIN Top.catch : Agree(Top.catch[j].stack, st)
  PROVE  Errs'
<1> DEFINE g == [Top EXCEPT !.ip = Top.ip + 1, !.stack = st]
<1>1. frames # <<>> /\ Instr.op = op /\ Sound(program, Top)
  BY Fetched, Relies
<1>2. /\ g.fn = Top.fn /\ g.ip = Top.ip + 1 /\ g.stack = st /\ g.catch = Top.catch
      /\ g.r = Top.r
  <2>1. Top \in Frame
    BY <1>1, TopGood
  <2> HIDE DEF Top
  <2> QED BY <2>1 DEF Frame
<1> HIDE DEF g
<1>3. \A s, t \in Stacks(g) : Agree(s, t)
  <2>1. \A s \in Stacks(g) : s = st \/ (s \in Stacks(Top) /\ Agree(s, st))
    BY <1>2 DEF Stacks
  <2>2. Agree(st, st) /\ \A s : Agree(s, st) => Agree(st, s)
    BY DEF Agree
  <2> QED BY <1>1, <2>1, <2>2 DEF Sound
<1>4. \A j \in DOMAIN g.catch : Catchable(program, g, g.catch[j])
  BY <1>1, <1>2 DEF Sound, Catchable
<1>5. Sound(program, g) /\ g.ip \in Nexts(Instr, Top.ip)
  BY <1>1, <1>2, <1>3, <1>4 DEF Sound, Nexts
<1> QED BY <1>2, <1>5, LeavesRegisters DEF g

\* The scopes: a new one lies above those that a catcher will restore.
LEMMA ScopeErrs ==
  ASSUME Inv, Errs, NewScope \/ EmptyScope \/ PopScope \/ Declare
  PROVE  Errs'
<1>1. CASE NewScope
  <2> DEFINE st == Append(Top.stack, created + 1)
             L == Len(Top.stack)
             ty == program.type[Top.fn][Top.ip]
             T == program.type[Top.fn]
  <2>1. /\ Fetch("NEW_SCOPE") /\ SetTop([Stepped EXCEPT !.stack = Append(@, created')])
        /\ created' = created + 1 /\ program' = program /\ raising' = raising
    BY <1>1 DEF NewScope
  <2>2. /\ frames # <<>> /\ Top.ip \in DOMAIN program.code[Top.fn]
        /\ program.code[Top.fn][Top.ip] = Instr /\ Instr.op = "NEW_SCOPE"
    BY <2>1, Fetched
  <2>3. Good(program, Top) /\ Fine(program) /\ Top \in Frame /\ created \in Nat
    BY <2>2, TopGood DEF Inv
  <2>4. /\ Top.fn \in DOMAIN program.code /\ Top.ip \in DOMAIN T
        /\ L = ty.stack /\ Active(Top) = ty.catch
        /\ \A j \in DOMAIN Top.catch : Restores(program.code[Top.fn], T, Top.catch[j])
    BY <2>2, <2>3, AtInstruction
  <2>5. \A j \in DOMAIN ty.catch : T[ty.catch[j]].stack <= ty.stack
    <3>1. OpensAbove(Instr, T, ty)
      BY <2>2, <2>3, <2>4, Parts DEF IsTyping
    <3> QED BY <3>1, <2>2 DEF OpensAbove
  <2>6. /\ st \in Seq(Nat) /\ Len(st) = L + 1 /\ L \in Nat /\ \A i \in 1..L : st[i] = Top.stack[i]
    BY <2>3, FrameFields, AppendProperties, LenProperties
  <2>7. ASSUME NEW j \in DOMAIN Top.catch PROVE Agree(Top.catch[j].stack, st)
    <3> DEFINE s == Top.catch[j].stack
    <3>1. Len(s) <= L
      <4>1. Len(s) = T[Top.catch[j].at].stack
        BY <2>4 DEF Restores
      <4>2. j \in DOMAIN Active(Top) /\ Active(Top)[j] = Top.catch[j].at
        BY DEF Active
      <4> HIDE DEF Top
      <4> QED BY <4>1, <4>2, <2>4, <2>5
    <3>2. Agree(s, Top.stack)
      BY <2>1, Relies DEF Sound, Stacks
    <3>3. Len(s) \in Nat
      <4>1. Top.catch \in Seq(Catcher)
        BY <2>3, FrameFields
      <4>2. Top.catch[j] \in Catcher
        BY <4>1, ElementOfSeq
      <4> QED BY <4>2, LenProperties DEF Catcher
    <3> HIDE DEF s, st, L
    <3>4. \A i \in 1..Len(s) : i \in 1..L
      BY <3>1, <3>3, <2>6
    <3> QED BY <3>2, <3>4, <2>6 DEF Agree, L, s
  <2>8. SetTop([Top EXCEPT !.ip = Top.ip + 1, !.stack = st])
    BY <2>1, <2>3 DEF Stepped, Frame
  <2> HIDE DEF st
  <2> QED BY <2>1, <2>6, <2>7, <2>8, Rescoped
<1>2. CASE EmptyScope
  BY <1>2, SteppedErrs DEF EmptyScope
<1>3. CASE PopScope
  <2> DEFINE st == Front(Top.stack)
             L == Len(Top.stack)
  <2>1. /\ Fetch("POP_SCOPE") /\ SetTop([Stepped EXCEPT !.stack = Front(@)])
        /\ Top.stack # <<>> /\ program' = program /\ raising' = raising
    BY <1>3 DEF PopScope
  <2>2. Top \in Frame /\ Top.stack \in Seq(Nat)
    BY <2>1, Fetched, TopGood, FrameFields
  <2>3. L \in Nat \ {0}
    BY <2>1, <2>2, LenProperties, EmptySeq
  <2>4. st \in Seq(Nat) /\ Len(st) = L - 1 /\ \A i \in 1..(L - 1) : st[i] = Top.stack[i]
    BY <2>2, <2>3, FrontOfSeq
  <2>5. ASSUME NEW j \in DOMAIN Top.catch PROVE Agree(Top.catch[j].stack, st)
    <3>1. Agree(Top.catch[j].stack, Top.stack)
      BY <2>1, Relies DEF Sound, Stacks
    <3> HIDE DEF st
    <3>2. \A i \in 1..(L - 1) : i \in 1..L
      BY <2>3
    <3> HIDE DEF L
    <3> QED BY <3>1, <3>2, <2>4 DEF Agree, L
  <2>6. SetTop([Top EXCEPT !.ip = Top.ip + 1, !.stack = st])
    BY <2>1, <2>2 DEF Stepped, Frame
  <2> HIDE DEF st
  <2> QED BY <2>1, <2>4, <2>5, <2>6, Rescoped
<1>4. CASE Declare
  <2>1. /\ Fetch("DECLARE") /\ SetTop(Stepped) /\ program' = program
        /\ quiet_throw' = quiet_throw /\ (Raise("E") \/ UNCHANGED <<err, stack_trace>>)
    BY <1>4 DEF Declare
  <2>2. CASE Raise("E")
    BY <1>4, <2>2, Raises DEF Declare, Errors
  <2>3. CASE UNCHANGED <<err, stack_trace>>
    BY <1>4, <2>3, SteppedErrs DEF Declare, raising
  <2> QED BY <2>1, <2>2, <2>3
<1> QED BY <1>1, <1>2, <1>3, <1>4

\* What lasts holds whatever is raised.
LEMMA WaitsRuns ==
  ASSUME NEW p, NEW f, Waits(p, f), NEW tr, NEW d
  PROVE  Runs(p, f, tr, d)
BY FitsOf DEF Waits, Runs

\* A frame is gone, and the one below, which was waiting, has a result in register 0.
LEMMA Down ==
  ASSUME Inv, Errs, frames # <<>>,
         frames' = IF Depth = 1 THEN <<>>
                   ELSE [Front(frames) EXCEPT ![Depth - 1].r[0] = Top.r[0]]
  PROVE  /\ Held(program, frames') /\ Depth' = Depth - 1
         /\ frames' = <<>> <=> Depth = 1
         /\ frames' # <<>> => Waits(program, Top')
<1>1. CASE Depth = 1
  <2>1. frames' = <<>> /\ Len(<<>>) = 0 /\ 1 - 1 = 0 /\ \A k \in 1..0 : FALSE
    BY <1>1
  <2>2. Held(program, frames') /\ Depth' = Depth - 1
    BY <1>1, <2>1 DEF Held, Depth
  <2> QED BY <1>1, <2>1, <2>2
<1>2. CASE Depth # 1
  <2> DEFINE k == Depth - 1
             fs == Front(frames)
             f == fs[k]
             v == Top.r[0]
             g == [f EXCEPT !.r[0] = v]
             gs == [fs EXCEPT ![k] = g]
  <2>1. /\ Framed(program, fs) /\ Len(fs) = k /\ \A j \in 1..k : fs[j] = frames[j]
        /\ Fine(program)
    BY Popped DEF Inv, Depth
  <2>2. k \in Nat \ {0} /\ Depth = Len(frames) /\ Depth \in Nat
    BY <1>2, TopGood DEF Depth
  <2>3. f = frames[k] /\ Good(program, f) /\ k \in 1..Len(frames) /\ k # Len(frames)
        /\ k \in 1..k
    <3> HIDE DEF fs
    <3> QED BY <2>1, <2>2 DEF Framed
  <2>4. Sound(program, f) /\ Waits(program, f)
    BY <2>3 DEF Errs, Held
  <2>5. f \in Frame /\ f.fn \in DOMAIN program.code
        /\ f.r \in [0..(program.regs[f.fn] - 1) -> Values]
    BY <2>3 DEF Good, FrameTypeOK
  <2> HIDE DEF f, v
  <2>6. /\ g.fn = f.fn /\ g.ip = f.ip /\ g.stack = f.stack /\ g.catch = f.catch
        /\ \A x \in 1..(program.regs[f.fn] - 1) : g.r[x] = f.r[x]
    BY <2>5 DEF Frame
  <2> HIDE DEF g
  <2>7. Sound(program, g)
    BY <2>1, <2>4, <2>5, <2>6, StaysSound DEF Stacks
  <2>8. Waits(program, g)
    <3> SUFFICES ASSUME NEW m \in Known(program, f.fn, f.ip)
                 PROVE  m[1] # 0 /\ m[2] \in Lasting /\ g.r[m[1]] = m[2]
      BY <2>6 DEF Waits
    <3>1. m[1] # 0 /\ m[2] \in Lasting /\ f.r[m[1]] = m[2]
      BY <2>4 DEF Waits
    <3>2. m[1] \in 0..(program.regs[f.fn] - 1) /\ program.regs[f.fn] \in Nat
      BY <2>1, <2>5, KnownRegister, Parts
    <3>3. m[1] \in 1..(program.regs[f.fn] - 1)
      BY <3>1, <3>2
    <3> QED BY <3>1, <3>3, <2>6
  <2>9. frames' = gs
    BY <1>2 DEF g, f, v
  <2>10. /\ Len(gs) = k /\ gs[k] = g /\ \A j \in 1..k : j # k => gs[j] = frames[j]
    <3>1. fs \in Seq(Frame)
      BY <2>1 DEF Framed
    <3> HIDE DEF fs, k
    <3> QED BY <2>1, <2>3, <3>1
  <2> HIDE DEF gs
  <2>11. gs # <<>> /\ Depth' = k /\ Top' = g
    BY <2>2, <2>9, <2>10, EmptySeq DEF Depth, Top
  <2>12. Held(program, gs)
    <3>1. ASSUME NEW j \in 1..k, j # k PROVE Sound(program, gs[j]) /\ Waits(program, gs[j])
      <4>1. j \in 1..Len(frames) /\ j # Len(frames) /\ gs[j] = frames[j]
        BY <3>1, <2>2, <2>10
      <4> QED BY <4>1 DEF Errs, Held
    <3> HIDE DEF k
    <3> QED BY <3>1, <2>7, <2>10 DEF Held
  <2> QED BY <1>2, <2>8, <2>9, <2>11, <2>12
<1> QED BY <1>1, <1>2

\* A call leaves the caller waiting for any result; what is called knows nothing yet.
LEMMA CallErrs ==
  ASSUME Inv, Errs, Call
  PROVE  Errs'
<1> DEFINE g == [Stepped EXCEPT !.calls = Front(@)]
           new == NewFrame(Last(Top.calls), created')
           fs == [frames EXCEPT ![Depth] = g]
           m == Known(program, Top.fn, Top.ip)
<1>1. /\ Fetch("CALL") /\ Last(Top.calls) \in DOMAIN program.code
      /\ Top.calls # <<>> /\ frames' = Append(fs, new)
      /\ program' = program /\ err' = err /\ quiet_throw' = quiet_throw
  BY DEF Call, raising
<1>b. created' \in Nat
  BY DEF Call, Inv
<1>2. frames # <<>> /\ Instr.op = "CALL" /\ err = "none" /\ quiet_throw = FALSE
  BY <1>1, Fetched, Relies
<1>3. /\ Top \in Frame /\ Depth \in 1..Len(frames) /\ Depth = Len(frames) /\ Depth \in Nat
      /\ frames \in Seq(Frame) /\ Fine(program)
  BY <1>2, TopGood DEF Inv, Framed, Depth
<1>4. /\ g.fn = Top.fn /\ g.ip = Top.ip + 1 /\ g.stack = Top.stack /\ g.catch = Top.catch
      /\ g.r = Top.r /\ g \in Frame
  <2> DEFINE k == Front(Top.calls)
  <2>1. k \in Seq(Nat)
    <3>1. Top.calls \in Seq(Nat) /\ Len(Top.calls) # 0
      BY <1>1, <1>3, FrameFields, EmptySeq
    <3> QED BY <3>1, FrontOfSeq
  <2>2. g = [Top EXCEPT !.ip = Top.ip + 1, !.calls = k]
    BY <1>3 DEF Stepped, Frame
  <2> HIDE DEF Top, k, g
  <2> QED BY <1>3, <2>1, <2>2, FrameFields, FrameUpdate DEF Frame
<1>5. /\ new.fn = Last(Top.calls) /\ new.ip = 1 /\ new.catch = <<>>
      /\ new.stack = <<created'>>
  BY DEF NewFrame
<1> HIDE DEF g, new
<1>6. Sound(program, g)
  BY <1>1, <1>4, TopStaysSound DEF Stacks
<1>7. Waits(program, g)
  <2>1. Known(program, g.fn, g.ip) \subseteq Behind(Instr, m)
    <3>1. /\ Top.fn \in DOMAIN program.code /\ Top.ip \in DOMAIN program.type[Top.fn]
          /\ program.code[Top.fn][Top.ip] = Instr /\ g.ip \in Nexts(Instr, Top.ip)
      BY <1>1, <1>2, <1>4, Relies, Fetched DEF Nexts
    <3> HIDE DEF Top, Instr
    <3> QED BY <3>1, <1>3, <1>4, Marked
  <2>2. \A k \in Behind(Instr, m) : k \in m /\ k[1] # 0 /\ k[2] \in Lasting
    BY <1>2, BehindIs
  <2>3. \A k \in m : Fits(Top.r[k[1]], k[2], stack_trace, Depth)
    BY <1>1, Relies
  <2> HIDE DEF m
  <2> QED BY <2>1, <2>2, <2>3, <1>4 DEF Waits, Fits
<1>8. Sound(program, new) /\ Known(program, new.fn, new.ip) = {}
  <2>1. Stacks(new) = {new.stack}
    BY <1>5 DEF Stacks
  <2>2. \A s, t \in Stacks(new) : Agree(s, t)
    BY <2>1 DEF Agree
  <2>3. Known(program, new.fn, new.ip) = {}
    BY <1>1, <1>3, <1>5, StartsUnknown
  <2> QED BY <2>2, <2>3, <1>5 DEF Sound
<1>9. /\ Len(frames') = Depth + 1 /\ frames'[Depth + 1] = new /\ frames'[Depth] = g
      /\ \A k \in 1..Depth : k # Depth => frames'[k] = frames[k]
  <2>1. /\ fs \in Seq(Frame) /\ Len(fs) = Depth /\ fs[Depth] = g
        /\ \A k \in 1..Depth : k # Depth => fs[k] = frames[k]
    BY <1>3, <1>4, ExceptSeq
  <2>2. new \in Frame
    BY <1>1, <1>3, <1>b, Starts DEF Good, new
  <2> HIDE DEF fs
  <2> QED BY <1>1, <1>3, <2>1, <2>2, AppendProperties
<1>10. Depth' = Depth + 1 /\ Top' = new
  BY <1>9 DEF Depth, Top
<1>11. Held(program, frames')
  <2> SUFFICES ASSUME NEW k \in 1..(Depth + 1)
               PROVE  /\ Sound(program, frames'[k])
                      /\ k # Depth + 1 => Waits(program, frames'[k])
    BY <1>9 DEF Held
  <2>1. CASE k = Depth + 1
    BY <2>1, <1>8, <1>9
  <2>2. CASE k = Depth
    BY <2>2, <1>3, <1>6, <1>7, <1>9
  <2>3. CASE k # Depth /\ k # Depth + 1
    <3>1. k \in 1..Depth /\ k \in 1..Len(frames) /\ k # Len(frames) /\ frames'[k] = frames[k]
      BY <2>3, <1>3, <1>9
    <3> QED BY <3>1 DEF Errs, Held
  <2> QED BY <2>1, <2>2, <2>3
<1>12. Runs(program', Top', stack_trace', Depth')
  BY <1>1, <1>8, <1>10 DEF Runs
<1>13. Traced(err', quiet_throw', stack_trace', Depth')
  BY <1>1, <1>2 DEF Traced
<1> QED BY <1>1, <1>11, <1>12, <1>13 DEF Errs

\* Calls and returns.
LEMMA CallsErrs ==
  ASSUME Inv, Errs, InitCall \/ Call \/ Return
  PROVE  Errs'
<1>1. CASE InitCall
  <2> DEFINE g == [Stepped EXCEPT !.calls = Append(@, Instr.to)]
  <2>1. Fetch("INIT_CALL") /\ SetTop(g) /\ program' = program /\ raising' = raising
    BY <1>1 DEF InitCall
  <2>2. frames # <<>> /\ Instr.op = "INIT_CALL"
    BY <2>1, Fetched
  <2>3. /\ g.fn = Top.fn /\ g.ip = Top.ip + 1 /\ g.stack = Top.stack /\ g.catch = Top.catch
        /\ g.r = Top.r
    <3>1. Top \in Frame
      BY <2>2, TopGood
    <3> HIDE DEF Top
    <3> QED BY <3>1 DEF Stepped, Frame
  <2> HIDE DEF g
  <2>4. Sound(program, g) /\ g.ip \in Nexts(Instr, Top.ip)
    BY <2>1, <2>2, <2>3, TopStaysSound DEF Stacks, Nexts
  <2> QED BY <2>1, <2>3, <2>4, LeavesRegisters
<1>2. CASE Return
  <2>1. /\ frames # <<>> /\ err = "none" /\ program' = program /\ err' = err
        /\ quiet_throw' = quiet_throw
        /\ frames' = IF Depth = 1 THEN <<>>
                     ELSE [Front(frames) EXCEPT ![Depth - 1].r[0] = Top.r[0]]
    BY <1>2 DEF Return, Running, raising
  <2>2. Held(program, frames') /\ (frames' # <<>> => Waits(program, Top'))
    BY <2>1, Down
  <2>3. frames' # <<>> => Runs(program, Top', stack_trace', Depth')
    BY <2>2, WaitsRuns
  <2>4. Traced(err', quiet_throw', stack_trace', Depth')
    BY <2>1 DEF Errs, Traced
  <2> QED BY <2>1, <2>2, <2>3, <2>4 DEF Errs
<1> QED BY <1>1, <1>2, CallErrs

\* The trace of an error that leaves the instruction loop lists the frame it was in.
LEMMA Notes ==
  ASSUME Inv, Errs, frames # <<>>, NoteFrame, err = "E"
  PROVE  Listed(stack_trace', Depth)
<1>1. /\ Upward(stack_trace)
      /\ quiet_throw => Listed(stack_trace, Depth)
      /\ ~quiet_throw => stack_trace = <<>> \/ Last(stack_trace) = Depth + 1
  BY DEF Errs, Traced
<1>2. stack_trace \in Seq(Nat) /\ Depth \in Nat \ {0}
  BY TopGood DEF Inv
<1>3. CASE quiet_throw
  BY <1>1, <1>3 DEF NoteFrame
<1>4. CASE ~quiet_throw
  <2> DEFINE tr == Append(stack_trace, Depth)
             L == Len(stack_trace)
  <2>1. stack_trace' = tr
    BY <1>4 DEF NoteFrame
  <2>2. /\ tr \in Seq(Nat) /\ Len(tr) = L + 1 /\ L \in Nat /\ tr[L + 1] = Depth
        /\ \A i \in 1..L : tr[i] = stack_trace[i]
    BY <1>2, AppendProperties, LenProperties
  <2> HIDE DEF tr
  <2>3. tr # <<>> /\ Last(tr) = Depth
    BY <2>2, EmptySeq DEF Last
  <2>4. ASSUME NEW i \in 1..L PROVE tr[i + 1] = tr[i] - 1
    <3>1. CASE i = L
      <4>1. stack_trace # <<>>
        BY <2>4, <2>2, EmptySeq
      <4>2. stack_trace[L] = Depth + 1
        BY <4>1, <1>1, <1>4 DEF Last
      <4> QED BY <3>1, <4>2, <2>2, <1>2
    <3>2. CASE i # L
      <4>1. i \in 1..(L - 1) /\ i + 1 \in 1..L
        BY <3>2, <2>2
      <4>2. stack_trace[i + 1] = stack_trace[i] - 1
        BY <4>1, <1>1 DEF Upward
      <4> QED BY <4>1, <4>2, <2>2
    <3> QED BY <3>1, <3>2
  <2>5. Upward(tr)
    <3>1. Len(tr) - 1 = L
      BY <2>2
    <3> QED BY <3>1, <2>4 DEF Upward
  <2> QED BY <2>1, <2>3, <2>5 DEF Listed
<1> QED BY <1>3, <1>4

\* A throw raises what its register holds: an error just made, whose trace is empty.
LEMMA ThrowErrs ==
  ASSUME Inv, Errs, Throw
  PROVE  Errs'
<1>1. /\ Fetch("THROW") /\ SetTop(Stepped) /\ program' = program /\ quiet_throw' = quiet_throw
      /\ IF Top.r[0] \in Errors
           THEN err' = Top.r[0] /\ UNCHANGED stack_trace
           ELSE Raise("E")
  BY DEF Throw
<1>2. CASE Top.r[0] \notin Errors
  BY <1>1, <1>2, Raises DEF Errors
<1>3. CASE Top.r[0] \in Errors
  <2>1. /\ frames # <<>> /\ Instr.op = "THROW" /\ quiet_throw = FALSE
        /\ Depth \in Nat \ {0}
    BY <1>1, Fetched, Relies
  <2>2. Fits(Top.r[0], "fresh", stack_trace, Depth)
    <3> DEFINE m == Known(program, Top.fn, Top.ip)
               k == <<0, "fresh">>
    <3>1. k \in m /\ k[1] = 0 /\ k[2] = "fresh"
      BY <1>1, <2>1, Relies DEF Needs
    <3>2. Fits(Top.r[k[1]], k[2], stack_trace, Depth)
      BY <1>1, <3>1, Relies
    <3> QED BY <3>1, <3>2
  <2>3. err' = "E" => stack_trace' = <<>>
    BY <2>2, <1>1, <1>3 DEF Fits
  <2>4. Stepped.fn = Top.fn /\ Stepped.stack = Top.stack
        /\ Stepped.catch = Top.catch /\ Stepped.r = Top.r
    BY <2>1, SteppedFields
  <2>5. Sound(program, Stepped)
    BY <1>1, <2>4, TopStaysSound DEF Stacks
  <2>6. err' # "none" /\ quiet_throw' = FALSE
    BY <1>1, <1>3, <2>1 DEF Errors
  <2>7. Traced(err', quiet_throw', stack_trace', Depth)
    <3>1. Len(<<>>) = 0 /\ \A i \in 1..(0 - 1) : FALSE
      OBVIOUS
    <3>2. Upward(<<>>)
      BY <3>1 DEF Upward
    <3> QED BY <2>1, <2>3, <2>6, <3>2 DEF Traced
  <2> QED BY <1>1, <2>1, <2>5, <2>6, <2>7, TopStep
<1> QED BY <1>2, <1>3

\* A quiet throw raises the error that was caught here, whose trace lists this frame.
LEMMA QuietThrowErrs ==
  ASSUME Inv, Errs, QuietThrow
  PROVE  Errs'
<1>1. /\ Fetch("QUIET_THROW") /\ SetTop(Stepped) /\ program' = program
      /\ IF Top.r[0] \in Errors
           THEN err' = Top.r[0] /\ quiet_throw' = TRUE /\ UNCHANGED stack_trace
           ELSE Raise("E") /\ UNCHANGED quiet_throw
  BY DEF QuietThrow
<1>2. CASE Top.r[0] \notin Errors
  BY <1>1, <1>2, Raises DEF Errors
<1>3. CASE Top.r[0] \in Errors
  <2>1. frames # <<>> /\ Instr.op = "QUIET_THROW" /\ Depth \in Nat \ {0}
    BY <1>1, Fetched, Relies
  <2>2. Fits(Top.r[0], "caught", stack_trace, Depth)
    <3> DEFINE m == Known(program, Top.fn, Top.ip)
               k == <<0, "caught">>
    <3>1. k \in m /\ k[1] = 0 /\ k[2] = "caught"
      BY <1>1, <2>1, Relies DEF Needs
    <3>2. Fits(Top.r[k[1]], k[2], stack_trace, Depth)
      BY <1>1, <3>1, Relies
    <3> QED BY <3>1, <3>2
  <2>3. err' = "E" => Listed(stack_trace', Depth)
    BY <2>2, <1>1, <1>3 DEF Fits
  <2>4. Stepped.fn = Top.fn /\ Stepped.stack = Top.stack
        /\ Stepped.catch = Top.catch /\ Stepped.r = Top.r
    BY <2>1, SteppedFields
  <2>5. Sound(program, Stepped)
    BY <1>1, <2>4, TopStaysSound DEF Stacks
  <2>6. err' # "none" /\ quiet_throw' = TRUE
    BY <1>1, <1>3 DEF Errors
  <2>7. Traced(err', quiet_throw', stack_trace', Depth)
    BY <2>1, <2>3, <2>6 DEF Traced, Listed
  <2> QED BY <1>1, <2>1, <2>5, <2>6, <2>7, TopStep
<1> QED BY <1>2, <1>3

\* The catcher that is pushed will return to the scopes that are open, and its target
\* relies on nothing that is not known already.
LEMMA PushErrs ==
  ASSUME Inv, Errs, ExceptionCatcherPush
  PROVE  Errs'
<1> DEFINE e == [jump_to |-> Instr.to, stack |-> Top.stack, calls |-> Top.calls,
                 at |-> Top.ip]
           h == Append(Top.catch, e)
           g == [Stepped EXCEPT !.catch = Append(@, e)]
           m == Known(program, Top.fn, Top.ip)
           L == Len(Top.catch)
<1>1. /\ Fetch("EXCEPTION_CATCHER_PUSH") /\ SetTop(g) /\ program' = program
      /\ raising' = raising
  BY DEF ExceptionCatcherPush
<1>2. /\ frames # <<>> /\ Top.ip \in DOMAIN program.code[Top.fn]
      /\ program.code[Top.fn][Top.ip] = Instr /\ Instr.op = "EXCEPTION_CATCHER_PUSH"
  BY <1>1, Fetched
<1>3. /\ Good(program, Top) /\ Fine(program) /\ Top \in Frame
      /\ Instr \in Instruction
  BY <1>1, <1>2, TopGood, Fetched DEF Inv
<1>4. /\ g.fn = Top.fn /\ g.ip = Top.ip + 1 /\ g.stack = Top.stack /\ g.catch = h
      /\ g.r = Top.r
  <2> HIDE DEF Top, e
  <2> QED BY <1>3 DEF Stepped, Frame
<1>5. e.stack = Top.stack /\ e.at = Top.ip /\ e.jump_to = Instr.to /\ e \in Catcher
  <2>1. Top.ip \in Nat /\ Top.stack \in Seq(Nat) /\ Top.calls \in Seq(Nat) /\ Instr.to \in Nat
    BY <1>3, FrameFields DEF Instruction
  <2> QED BY <2>1 DEF Catcher
<1> HIDE DEF g, e
<1>6. /\ DOMAIN h = 1..(L + 1) /\ DOMAIN Top.catch = 1..L /\ L \in Nat
      /\ h[L + 1] = e /\ \A j \in 1..L : h[j] = Top.catch[j]
  <2>1. Top.catch \in Seq(Catcher)
    BY <1>3, FrameFields
  <2>2. h \in Seq(Catcher) /\ Len(h) = L + 1
    BY <2>1, <1>5, AppendProperties
  <2> QED BY <2>1, <2>2, <1>5, AppendProperties, LenProperties
<1>7. Sound(program, Top) /\ \A k \in m : Fits(Top.r[k[1]], k[2], stack_trace, Depth)
  BY <1>1, Relies
<1> HIDE DEF h, L
<1>8. Stacks(g) \subseteq Stacks(Top)
  <2>1. ASSUME NEW j \in DOMAIN g.catch PROVE g.catch[j].stack \in Stacks(Top)
    <3>1. CASE j = L + 1
      BY <3>1, <1>4, <1>5, <1>6 DEF Stacks
    <3>2. CASE j # L + 1
      <4>1. j \in DOMAIN Top.catch /\ g.catch[j] = Top.catch[j]
        BY <3>2, <1>4, <1>6
      <4> QED BY <4>1 DEF Stacks
    <3> QED BY <3>1, <3>2
  <2>2. g.stack \in Stacks(Top)
    BY <1>4 DEF Stacks
  <2> QED BY <2>1, <2>2 DEF Stacks
<1>9. Catchable(program, g, e)
  <2>1. Behind(Instr, m) = m
    BY <1>2, BehindIs
  <2>2. e.at \in Range(After(Instr, Top.ip, program.type[Top.fn][Top.ip]).catch)
    <3> DEFINE ty == program.type[Top.fn][Top.ip]
               s == Append(ty.catch, Top.ip)
    <3>1. ty \in Types
      <4> HIDE DEF Top
      <4> QED BY <1>2, <1>3, AtInstruction
    <3>2. After(Instr, Top.ip, ty).catch = s
      BY <1>2, <3>1 DEF After, Types
    <3>3. Top.ip \in Nat /\ ty.catch \in Seq(Nat)
      BY <1>3, <3>1, FrameFields, TypeFields
    <3>4. Len(ty.catch) + 1 \in DOMAIN s /\ s[Len(ty.catch) + 1] = Top.ip
      <4> HIDE DEF ty, Top
      <4> QED BY <3>3, AppendProperties, LenProperties
    <3> HIDE DEF s, ty
    <3>5. Top.ip \in Range(s)
      BY <3>4 DEF Range
    <3> QED BY <3>2, <3>5, <1>5 DEF ty
  <2>3. e.jump_to = program.code[Top.fn][e.at].to
    BY <1>2, <1>5
  <2>4. \A k \in Behind(Instr, m) : Fits(g.r[k[1]], k[2], stack_trace, Depth)
    BY <2>1, <1>4, <1>7
  <2> QED BY <1>1, <1>4, <2>2, <2>3, <2>4, Readied
<1>10. Sound(program, g)
  <2>1. \A s, t \in Stacks(g) : Agree(s, t)
    BY <1>7, <1>8 DEF Sound
  <2>2. ASSUME NEW j \in DOMAIN g.catch PROVE Catchable(program, g, g.catch[j])
    <3>1. CASE j = L + 1
      BY <3>1, <1>4, <1>6, <1>9
    <3>2. CASE j # L + 1
      <4>1. j \in DOMAIN Top.catch /\ g.catch[j] = Top.catch[j]
        BY <3>2, <1>4, <1>6
      <4> QED BY <4>1, <1>4, <1>7 DEF Sound, Catchable
    <3> QED BY <3>1, <3>2
  <2> QED BY <2>1, <2>2 DEF Sound
<1>11. g.ip \in Nexts(Instr, Top.ip)
  BY <1>2, <1>4 DEF Nexts
<1> QED BY <1>1, <1>4, <1>10, <1>11, LeavesRegisters

\* The innermost catcher of a frame and the others.
LEMMA Innermost ==
  ASSUME NEW f \in Frame, f.catch # <<>>
  PROVE  /\ \A j \in DOMAIN Front(f.catch) :
              j \in DOMAIN f.catch /\ Front(f.catch)[j] = f.catch[j]
         /\ \E l \in DOMAIN f.catch : Last(f.catch) = f.catch[l]
<1>1. f.catch \in Seq(Catcher)
  BY FrameFields
<1>2. Len(f.catch) \in Nat \ {0} /\ DOMAIN f.catch = 1..Len(f.catch)
  BY <1>1, LenProperties, EmptySeq
<1>3. /\ DOMAIN Front(f.catch) = 1..(Len(f.catch) - 1)
      /\ \A j \in 1..(Len(f.catch) - 1) : Front(f.catch)[j] = f.catch[j]
  BY <1>1, <1>2, FrontOfSeq, LenProperties
<1>4. Last(f.catch) = f.catch[Len(f.catch)] /\ Len(f.catch) \in DOMAIN f.catch
  BY <1>2 DEF Last
<1>5. \A j \in 1..(Len(f.catch) - 1) : j \in DOMAIN f.catch
  BY <1>2
<1> QED BY <1>3, <1>4, <1>5

\* The innermost catcher is dropped.
LEMMA PopErrs ==
  ASSUME Inv, Errs, ExceptionCatcherPop
  PROVE  Errs'
<1> DEFINE g == [Stepped EXCEPT !.catch = IF @ = <<>> THEN @ ELSE Front(@)]
<1>1. /\ Fetch("EXCEPTION_CATCHER_POP") /\ SetTop(g) /\ program' = program
      /\ raising' = raising
  BY DEF ExceptionCatcherPop
<1>2. /\ frames # <<>> /\ Top.ip \in DOMAIN program.code[Top.fn]
      /\ program.code[Top.fn][Top.ip] = Instr /\ Instr.op = "EXCEPTION_CATCHER_POP"
  BY <1>1, Fetched
<1>3. Good(program, Top) /\ Fine(program) /\ Top \in Frame
  BY <1>2, TopGood DEF Inv
<1>4. Top.catch # <<>>
  <2> HIDE DEF Top, Instr
  <2> QED BY <1>2, <1>3, Pops
<1>5. /\ g.fn = Top.fn /\ g.ip = Top.ip + 1 /\ g.stack = Top.stack
      /\ g.catch = Front(Top.catch) /\ g.r = Top.r
  <2> HIDE DEF Top
  <2> QED BY <1>3, <1>4 DEF Stepped, Frame
<1>6. Sound(program, Top) /\ Top.fn \in DOMAIN program.code
  BY <1>1, Relies
<1> HIDE DEF g
<1>7. \A j \in DOMAIN g.catch : j \in DOMAIN Top.catch /\ g.catch[j] = Top.catch[j]
  <2> HIDE DEF Top
  <2> QED BY <1>3, <1>4, <1>5, Innermost
<1>8. Stacks(g) \subseteq Stacks(Top)
  <2> HIDE DEF Top
  <2> QED BY <1>5, <1>7 DEF Stacks
<1>9. Sound(program, g)
  <2> HIDE DEF Top
  <2> QED BY <1>3, <1>5, <1>6, <1>7, <1>8, StaysSound
<1>10. g.ip \in Nexts(Instr, Top.ip)
  BY <1>2, <1>5 DEF Nexts
<1> QED BY <1>1, <1>5, <1>9, <1>10, LeavesRegisters

\* The catcher's target knows the error, with the trace up to this frame, and what its
\* registers held when the catcher was pushed.
LEMMA CatchErrs ==
  ASSUME Inv, Errs, Catch
  PROVE  Errs'
<1> DEFINE e == Last(Top.catch)
           g == [Top EXCEPT !.ip = e.jump_to, !.stack = e.stack, !.calls = e.calls,
                            !.catch = Front(@), !.r[0] = err]
<1>1. /\ frames # <<>> /\ err # "none" /\ Top.catch # <<>> /\ NoteFrame /\ SetTop(g)
      /\ err' = "none" /\ quiet_throw' = FALSE /\ program' = program
  BY DEF Catch
<1>2. /\ Top \in Frame /\ Fine(program) /\ Top.fn \in DOMAIN program.code
      /\ Top.r \in [0..(program.regs[Top.fn] - 1) -> Values]
      /\ 0 \in 0..(program.regs[Top.fn] - 1) /\ Depth \in 1..Len(frames)
  BY <1>1, TopGood DEF Inv
<1>3. Sound(program, Top)
  BY <1>2 DEF Errs, Held, Top
<1>4. PICK l \in DOMAIN Top.catch : e = Top.catch[l]
  <2> HIDE DEF Top
  <2> QED BY <1>1, <1>2, Innermost
<1>5. /\ g.fn = Top.fn /\ g.ip = e.jump_to /\ g.stack = e.stack /\ g.catch = Front(Top.catch)
      /\ \A x \in 0..(program.regs[Top.fn] - 1) : g.r[x] = IF x = 0 THEN err ELSE Top.r[x]
  <2> HIDE DEF Top, e
  <2> QED BY <1>2 DEF Frame
<1> HIDE DEF g, e
<1>6. \A j \in DOMAIN g.catch : j \in DOMAIN Top.catch /\ g.catch[j] = Top.catch[j]
  <2> HIDE DEF Top
  <2> QED BY <1>1, <1>2, <1>5, Innermost
<1>7. Stacks(g) \subseteq Stacks(Top)
  <2> HIDE DEF Top
  <2> QED BY <1>4, <1>5, <1>6 DEF Stacks
<1>8. \A x \in 1..(program.regs[Top.fn] - 1) : g.r[x] = Top.r[x]
  BY <1>5
<1>9. Sound(program, g)
  <2> HIDE DEF Top
  <2> QED BY <1>2, <1>3, <1>5, <1>6, <1>7, <1>8, StaysSound
<1>10. Runs(program, g, stack_trace', Depth)
  <2> SUFFICES ASSUME NEW k \in Known(program, Top.fn, e.jump_to)
               PROVE  Fits(g.r[k[1]], k[2], stack_trace', Depth)
    BY <1>5 DEF Runs
  <2>1. IF k[1] = 0 THEN k[2] = "caught" ELSE k[2] \in Lasting /\ Top.r[k[1]] = k[2]
    BY <1>3, <1>4 DEF Sound, Catchable
  <2>2. k[1] \in 0..(program.regs[Top.fn] - 1)
    <3> HIDE DEF Top
    <3> QED BY <1>2, KnownRegister
  <2>3. CASE k[1] = 0
    <3>1. g.r[k[1]] = err /\ k[2] = "caught"
      BY <2>1, <2>2, <2>3, <1>5
    <3>2. err = "E" => Listed(stack_trace', Depth)
      BY <1>1, Notes
    <3> QED BY <3>1, <3>2, FitsOf
  <2>4. CASE k[1] # 0
    BY <2>1, <2>2, <2>4, <1>5, FitsOf
  <2> QED BY <2>3, <2>4
<1>11. Traced(err', quiet_throw', stack_trace', Depth)
  BY <1>1 DEF Traced
<1> QED BY <1>1, <1>9, <1>10, <1>11, TopStep

\* An error that leaves a frame lists it, and goes on in the frame below.
LEMMA UnwindErrs ==
  ASSUME Inv, Errs, Unwind
  PROVE  Errs'
<1>1. /\ frames # <<>> /\ err # "none" /\ NoteFrame /\ quiet_throw' = FALSE
      /\ program' = program /\ err' = err
      /\ frames' = IF Depth = 1 THEN <<>>
                   ELSE [Front(frames) EXCEPT ![Depth - 1].r[0] = Top.r[0]]
  BY DEF Unwind
<1>2. Held(program, frames') /\ Depth' = Depth - 1
  BY <1>1, Down
<1>3. Depth \in Nat \ {0}
  BY <1>1, TopGood
<1>4. Traced(err', quiet_throw', stack_trace', Depth')
  <2>1. err = "E" => Listed(stack_trace', Depth)
    BY <1>1, Notes
  <2> QED BY <2>1, <1>1, <1>2, <1>3 DEF Traced, Listed
<1> QED BY <1>1, <1>2, <1>4 DEF Errs

\* Raising, catching and unwinding.
LEMMA ExceptionErrs ==
  ASSUME Inv, Errs, \/ Throw \/ QuietThrow \/ ExceptionCatcherPush \/ ExceptionCatcherPop
                    \/ Catch \/ Unwind
  PROVE  Errs'
BY ThrowErrs, QuietThrowErrs, PushErrs, PopErrs, CatchErrs, UnwindErrs

\* Ctrl-C.
LEMMA SignalErrs ==
  ASSUME Inv, Errs, sigint_handler \/ TakeInterrupt
  PROVE  Errs'
<1>1. program' = program /\ frames' = frames /\ stack_trace' = stack_trace
      /\ quiet_throw' = quiet_throw
  BY DEF sigint_handler, TakeInterrupt, raising
<1>2. Depth' = Depth /\ Top' = Top
  BY <1>1 DEF Depth, Top
<1>3. CASE sigint_handler
  BY <1>1, <1>2, <1>3 DEF Errs, sigint_handler, raising
<1>4. CASE TakeInterrupt
  BY <1>1, <1>2, <1>4 DEF Errs, Traced, TakeInterrupt
<1> QED BY <1>3, <1>4

-------------------------------------------------------------------------------
(* Theorems *)

\* At the start nothing is known and nothing is on its way.
LEMMA ErrsInitially ==
  ASSUME Init, WellTyped(program)
  PROVE  Errs
<1>1. Inv
  BY Initially
<1> DEFINE g == NewFrame(1, 1)
<1>2. frames = <<g>> /\ err = "none" /\ quiet_throw = FALSE
  BY DEF Init
<1>3. g.fn = 1 /\ g.ip = 1 /\ g.catch = <<>> /\ g.stack = <<1>>
  BY DEF NewFrame
<1> HIDE DEF g
<1>4. Depth = 1 /\ Len(frames) = 1 /\ frames[1] = g /\ Top = g
  BY <1>2 DEF Depth, Top
<1>5. 1 \in DOMAIN program.code /\ Fine(program)
  BY <1>1, <1>2, <1>3, <1>4, TopGood DEF Inv
<1>6. Sound(program, g)
  <2>1. Stacks(g) = {g.stack}
    BY <1>3 DEF Stacks
  <2>2. \A s, t \in Stacks(g) : Agree(s, t)
    BY <2>1 DEF Agree
  <2> QED BY <2>2, <1>3 DEF Sound
<1>7. Held(program, frames)
  BY <1>4, <1>6 DEF Held
<1>8. Runs(program, Top, stack_trace, Depth)
  BY <1>3, <1>4, <1>5, StartsUnknown DEF Runs
<1> QED BY <1>2, <1>7, <1>8 DEF Errs, Traced

\* Every step keeps what is known.
LEMMA ErrsSteps ==
  ASSUME Inv, Errs, [Next]_vars
  PROVE  Errs'
<1>1. CASE Next
  BY <1>1, RegisterErrs, EnvironmentErrs, ScopeErrs, CallsErrs, ExceptionErrs,
     SignalErrs DEF Next, Step
<1>2. CASE UNCHANGED vars
  <2>1. Depth' = Depth /\ Top' = Top
    BY <1>2 DEF vars, Depth, Top
  <2> QED BY <1>2, <2>1 DEF vars, Errs
<1> QED BY <1>1, <1>2

\* The marks of the positions hold in every run: the inductive invariant.
THEOREM MarksHold == TypedSpec => [](Inv /\ Errs)
<1>1. Init /\ WellTyped(program) => Inv /\ Errs
  BY Initially, ErrsInitially
<1>2. (Inv /\ Errs) /\ [Next]_vars => (Inv /\ Errs)'
  BY Steps, ErrsSteps
<1> QED BY <1>1, <1>2, PTL DEF TypedSpec

\* Two chains that agree are one within the other.
LEMMA AgreeIsPrefix ==
  ASSUME NEW s \in Seq(Nat), NEW t \in Seq(Nat), Agree(s, t), Len(s) <= Len(t)
  PROVE  IsPrefix(s, t)
<1>1. Len(s) \in Nat /\ Len(t) \in Nat
  BY LenProperties
<1> DEFINE u == SubSeq(t, 1, Len(s))
           w == SubSeq(s, 1, Len(s))
<1>2. \A i \in 1..Len(s) : i \in 1..Len(t)
  BY <1>1
<1>3. \A i \in 1..Len(s) : s[i] = t[i] /\ s[i] \in Nat /\ t[i] \in Nat
  BY <1>2, ElementOfSeq DEF Agree
<1>4. u \in Seq(Nat) /\ Len(u) = Len(s) /\ \A i \in 1..Len(s) : u[i] = t[i]
  BY <1>1, <1>3, SubSeqProperties
<1>5. w \in Seq(Nat) /\ Len(w) = Len(s) /\ \A i \in 1..Len(s) : w[i] = s[i]
  BY <1>1, <1>3, SubSeqProperties
<1> HIDE DEF u, w
<1>6. u = w
  BY <1>3, <1>4, <1>5, SeqEqual
<1> QED BY <1>6 DEF IsPrefix, u, w

\* The scopes that a catcher restores are those the frame has open or is on its way out
\* of, on any well-typed program: break, continue, return and exceptions included.
THEOREM SavedScopes == TypedSpec => []SavedScopesAreOpen
<1>1. Inv /\ Errs => SavedScopesAreOpen
  <2> SUFFICES ASSUME Inv, Errs, NEW i \in DOMAIN frames, NEW j \in DOMAIN frames[i].catch
               PROVE  \/ IsPrefix(frames[i].catch[j].stack, frames[i].stack)
                      \/ IsPrefix(frames[i].stack, frames[i].catch[j].stack)
    BY DEF SavedScopesAreOpen
  <2> DEFINE f == frames[i]
             s == f.catch[j].stack
             t == f.stack
  <2>1. frames \in Seq(Frame) /\ i \in 1..Len(frames)
    BY LenProperties DEF Inv, Framed
  <2>2. f \in Frame /\ Sound(program, f)
    BY <2>1, ElementOfSeq DEF Errs, Held
  <2>3. Agree(s, t) /\ Agree(t, s)
    BY <2>2 DEF Sound, Stacks
  <2>4. s \in Seq(Nat) /\ t \in Seq(Nat)
    <3>1. f.catch \in Seq(Catcher) /\ f.stack \in Seq(Nat)
      BY <2>2, FrameFields
    <3>2. f.catch[j] \in Catcher
      BY <3>1, ElementOfSeq, LenProperties
    <3> QED BY <3>1, <3>2 DEF Catcher
  <2> HIDE DEF s, t
  <2>5. Len(s) <= Len(t) \/ Len(t) <= Len(s)
    BY <2>4, LenProperties
  <2>6. IsPrefix(s, t) \/ IsPrefix(t, s)
    BY <2>3, <2>4, <2>5, AgreeIsPrefix
  <2> QED BY <2>6 DEF s, t
<1> QED BY <1>1, MarksHold, PTL

\* A for statement finds its own iterator, whatever its body and the handlers around it
\* have loaded, caught and called since: on any well-typed program.
THEOREM IteratorKept == TypedSpec => []IteratorInPlace
<1>1. Inv /\ Errs => IteratorInPlace
  <2> SUFFICES ASSUME Inv, Errs, Fetch("FOR_LOOP_JUMP")
               PROVE  Top.r[Instr.x] = "iter" /\ Top.r[Instr.y] = "next"
    BY DEF IteratorInPlace
  <2> DEFINE m == Known(program, Top.fn, Top.ip)
             k == <<Instr.x, "iter">>
             l == <<Instr.y, "next">>
  <2>1. Instr.op = "FOR_LOOP_JUMP"
    BY Fetched
  <2>2. k \in m /\ l \in m
    BY <2>1, Relies DEF Needs
  <2>3. \A d \in m : Fits(Top.r[d[1]], d[2], stack_trace, Depth)
    BY Relies
  <2> HIDE DEF m
  <2>4. Fits(Top.r[Instr.x], "iter", stack_trace, Depth)
    BY <2>2, <2>3
  <2>5. Fits(Top.r[Instr.y], "next", stack_trace, Depth)
    BY <2>2, <2>3
  <2> QED BY <2>4, <2>5 DEF Fits, Lasting
<1> QED BY <1>1, MarksHold, PTL

\* An error's trace lists the frames it has left, each once and in order, on any
\* well-typed program: however often it is caught and thrown again on its way.
THEOREM TraceInOrder == TypedSpec => []TraceGoesUp
<1>1. Inv /\ Errs => TraceGoesUp
  <2> SUFFICES ASSUME Inv, Errs, err = "E"
               PROVE  /\ Upward(stack_trace)
                      /\ frames = <<>> => stack_trace # <<>> /\ Last(stack_trace) = 1
                      /\ frames # <<>> /\ stack_trace # <<>> =>
                           Last(stack_trace) \in {Depth, Depth + 1}
    BY DEF TraceGoesUp, Upward
  <2>1. frames = <<>> => Depth = 0
    BY EmptySeq DEF Depth
  <2> QED BY <2>1 DEF Errs, Traced, Listed
<1> QED BY <1>1, MarksHold, PTL
=============================================================================
