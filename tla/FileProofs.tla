------------------------------ MODULE FileProofs ------------------------------
(***************************************************************************)
(* The files of native/main.c and handle.h, proved for any number of       *)
(* processes, any scenes and any failures: OnlyFailedCloseDangles is an    *)
(* invariant of Files.                                                     *)
(*                                                                         *)
(* It is not inductive: what keeps a File from being used without its FILE *)
(* is its flag is_open, so the invariant is about every File that is open  *)
(* for its methods and whose FILE is freed or missing (Misled), also       *)
(* before it is used, and about a program that has used one, which ends.   *)
(***************************************************************************)
EXTENDS Files, TLAPS

FileFields == DOMAIN NoFile

IsSequence(d) == d \in Seq({d[i] : i \in DOMAIN d})

\* A close has failed since the last open.
ClosingFailed(d) == \E i \in (LastOpen(d) + 1)..Len(d) : d[i].op = "close" /\ ~d[i].ok

NullIsMissing(h) == h.type = "NULL" /\ h.fp = "null"

\* The File is used after its FILE, or the next call would use it so.
Misled(h) == h.gone \/ (Usable(h) /\ Dangling(h))

Excused(d, h) == ClosingFailed(d) \/ NullIsMissing(h)

\* What holds of one process's report, File and calls to come.
Sound(d, h, t) ==
    /\ IsSequence(d)
    /\ LastOpen(d) \in 0..Len(d)
    /\ DOMAIN h = FileFields
    /\ h.gone => t = <<>>
    /\ Misled(h) => Excused(d, h)

HandlesSound ==
    /\ DOMAIN done = Procs /\ DOMAIN handle = Procs /\ DOMAIN todo = Procs
    /\ \A p \in Procs : Sound(done[p], handle[p], todo[p])

-----------------------------------------------------------------------------
(* The report of a process.                                                *)

\* One more entry in a report: what was there stays where it was.
LEMMA Appended ==
    ASSUME NEW d, IsSequence(d), NEW e
    PROVE  /\ IsSequence(Append(d, e))
           /\ Len(Append(d, e)) = Len(d) + 1 /\ Len(d) \in Nat
           /\ DOMAIN d = 1..Len(d) /\ DOMAIN Append(d, e) = 1..(Len(d) + 1)
           /\ \A i \in 1..Len(d) : Append(d, e)[i] = d[i]
           /\ Append(d, e)[Len(d) + 1] = e
<1> DEFINE S == {d[i] : i \in DOMAIN d}
           a == Append(d, e)
           T == {a[i] : i \in DOMAIN a}
<1>1. d \in Seq(S)
    BY DEF IsSequence
<1>2. DOMAIN d = 1..Len(d) /\ Len(d) \in Nat
    <2> HIDE DEF S
    <2> QED BY <1>1
<1>3. d \in Seq(S \cup {e}) /\ a \in Seq(S \cup {e})
    <2> HIDE DEF S
    <2> QED BY <1>1
<1>4. /\ Len(a) = Len(d) + 1 /\ DOMAIN a = 1..(Len(d) + 1)
      /\ \A i \in 1..Len(d) : a[i] = d[i]
      /\ a[Len(d) + 1] = e
    <2> HIDE DEF S
    <2> QED BY <1>1, <1>3
<1>5. a \in Seq(T)
    <2>1. \A i \in 1..Len(a) : a[i] \in T
        BY <1>4
    <2> DEFINE SE == S \cup {e}
    <2>2. a \in Seq(SE)
        BY <1>3
    <2> HIDE DEF a, S, T, SE
    <2> QED BY <2>1, <2>2
<1> QED BY <1>2, <1>4, <1>5 DEF IsSequence

\* An entry that is no successful open leaves the last open where it was, and a failed close
\* before it too.
LEMMA StillExcused ==
    ASSUME NEW d, IsSequence(d), NEW e, ~(e.op = "open" /\ e.ok), LastOpen(d) \in 0..Len(d)
    PROVE  /\ LastOpen(Append(d, e)) = LastOpen(d)
           /\ ClosingFailed(d) => ClosingFailed(Append(d, e))
           /\ e.op = "close" /\ ~e.ok => ClosingFailed(Append(d, e))
<1> DEFINE a == Append(d, e)
           Openings(x) == {i \in DOMAIN x : x[i].op = "open" /\ x[i].ok}
<1>1. /\ Len(a) = Len(d) + 1 /\ Len(d) \in Nat
      /\ DOMAIN d = 1..Len(d) /\ DOMAIN a = 1..(Len(d) + 1)
      /\ \A i \in 1..Len(d) : a[i] = d[i]
      /\ a[Len(d) + 1] = e
    BY Appended
<1> HIDE DEF a
<1>2. Openings(a) = Openings(d)
    BY <1>1
<1>3. LastOpen(a) = LastOpen(d)
    <2> DEFINE Latest(o) == IF o = {} THEN 0 ELSE CHOOSE i \in o : \A j \in o : j <= i
    <2>1. LastOpen(a) = Latest(Openings(a)) /\ LastOpen(d) = Latest(Openings(d))
        BY DEF LastOpen
    <2> HIDE DEF Openings, Latest
    <2> QED BY <1>2, <2>1
<1>4. ClosingFailed(d) => ClosingFailed(a)
    BY <1>1, <1>3 DEF ClosingFailed
<1>5. e.op = "close" /\ ~e.ok => ClosingFailed(a)
    BY <1>1, <1>3 DEF ClosingFailed
<1> QED BY <1>3, <1>4, <1>5 DEF a

\* A successful open is the last one.
LEMMA LastIsOpened ==
    ASSUME NEW d, IsSequence(d), NEW e, e.op = "open", e.ok
    PROVE  LastOpen(Append(d, e)) = Len(d) + 1
<1> DEFINE a == Append(d, e)
           n == Len(d)
           opened == {i \in DOMAIN a : a[i].op = "open" /\ a[i].ok}
<1>1. n \in Nat /\ DOMAIN a = 1..(n + 1) /\ a[n + 1] = e
    BY Appended
<1>2. n + 1 \in opened /\ opened \subseteq 1..(n + 1)
    BY <1>1
<1>3. LastOpen(a) = IF opened = {} THEN 0
                    ELSE CHOOSE i \in opened : \A j \in opened : j <= i
    BY DEF LastOpen
<1> HIDE DEF opened, a, n
<1>4. \A i \in opened : (\A j \in opened : j <= i) => i = n + 1
    BY <1>1, <1>2
<1>5. \E i \in opened : \A j \in opened : j <= i
    BY <1>1, <1>2
<1> QED BY <1>2, <1>3, <1>4, <1>5 DEF a, n

-----------------------------------------------------------------------------
(* The calls on whole files leave every File alone.                        *)

\* What a step of a call of FileTree may do to the calls of a process and its report: nothing, a
\* call is taken, or one is reported, never an open.
TreeEffect(p) ==
    /\ \/ todo' = todo
       \/ todo[p] # <<>> /\ \E t : todo' = [todo EXCEPT ![p] = t]
    /\ \/ done' = done
       \/ \E e : e.op # "open" /\ done' = [done EXCEPT ![p] = Append(@, e)]

\* Going on within a native function, into one and out of one.
LEMMA Going ==
    ASSUME NEW p, NEW f, NEW g, NEW b, Goto(p, f) \/ CallNative(p, g, f) \/ Return(p, b)
    PROVE  TreeEffect(p)
BY DEF Goto, CallNative, Return, TreeEffect

\* A call of FileTree answers.
LEMMA Answering ==
    ASSUME NEW p, NEW b, NEW v, Answer(p, b, v), Top(p).fn # "open"
    PROVE  TreeEffect(p)
<1> DEFINE f == Top(p)
           e == [op |-> f.fn, src |-> f.src, dst |-> f.dst, ok |-> b, value |-> v]
<1>1. todo' = todo /\ done' = [done EXCEPT ![p] = Append(@, e)]
    BY DEF Answer
<1>2. e.op # "open"
    OBVIOUS
<1> HIDE DEF e
<1> QED BY <1>1, <1>2 DEF TreeEffect

\* The native functions return to their callers.
LEMMA NativeSteps ==
    ASSUME NEW p,
           \/ argon_copy_file_native(p) \/ argon_copy_directory_native(p)
           \/ argon_remove_directory_native(p) \/ argon_move_contents_native(p)
           \/ argon_tree_directory_native(p)
    PROVE  TreeEffect(p)
<1>1. CASE argon_copy_file_native(p)
    BY <1>1, Going DEF argon_copy_file_native, CopyFileOpen, CopyFileCreate, CopyFileBlock,
        CopyFileClose, CopyFileUndo
<1>2. CASE argon_copy_directory_native(p)
    BY <1>2, Going DEF argon_copy_directory_native, CopyDirectoryStart, CopyDirectoryEntry,
        CopyDirectoryCopied
<1>3. CASE argon_remove_directory_native(p)
    BY <1>3, Going DEF argon_remove_directory_native, RemoveDirectoryOpen,
        RemoveDirectoryEntry, RemoveDirectoryItself
<1>4. CASE argon_move_contents_native(p)
    BY <1>4, Going DEF argon_move_contents_native
<1>5. CASE argon_tree_directory_native(p)
    BY <1>5, Going DEF argon_tree_directory_native, TreeEffect
<1> QED BY <1>1, <1>2, <1>3, <1>4, <1>5

\* The calls themselves return to the program.
LEMMA CallSteps ==
    ASSUME NEW p,
           \/ copy_file(p) \/ copy_dir(p) \/ delete_file(p) \/ delete_dir(p)
           \/ move_contents(p) \/ tree_dir(p) \/ path_type(p)
           \/ Make(p) \/ AlreadyThere(p) \/ temp_file(p) \/ temp_dir(p)
    PROVE  TreeEffect(p)
<1>1. CASE copy_file(p)
    BY <1>1, Going, Answering DEF copy_file, At
<1>2. CASE copy_dir(p)
    BY <1>2, Going, Answering DEF copy_dir, At
<1>3. CASE delete_file(p)
    BY <1>3, Going, Answering DEF delete_file, At
<1>4. CASE delete_dir(p)
    BY <1>4, Going, Answering DEF delete_dir, At
<1>5. CASE move_contents(p)
    BY <1>5, Going, Answering DEF move_contents, At
<1>6. CASE tree_dir(p)
    BY <1>6, Going, Answering DEF tree_dir, At
<1>7. CASE path_type(p)
    BY <1>7, Answering DEF path_type, At
<1>8. CASE Make(p)
    BY <1>8, Going, Answering DEF Make, Making, Made, At
<1>9. CASE AlreadyThere(p)
    BY <1>9, Going, Answering DEF AlreadyThere, Making, Made, At
<1>10. CASE temp_file(p)
    BY <1>10, Going, Answering DEF temp_file, Temporary, At
<1>11. CASE temp_dir(p)
    BY <1>11, Going, Answering DEF temp_dir, Temporary, At
<1> QED BY <1>1, <1>2, <1>3, <1>4, <1>5, <1>6, <1>7, <1>8, <1>9, <1>10, <1>11

\* move answers; an entry of move_contents is gone on from.
LEMMA MoveSteps ==
    ASSUME NEW p, move(p)
    PROVE  TreeEffect(p)
<1>1. ASSUME NEW b, EntryMoved(p, b) PROVE TreeEffect(p)
    BY <1>1, Going, Answering DEF EntryMoved
<1>2. CASE MoveRename(p)
    BY <1>2, <1>1, Going DEF MoveRename
<1>3. CASE MoveCopy(p)
    BY <1>3, Going, Answering DEF MoveCopy, MoverAt, Movers
<1>4. CASE MoveRemove(p)
    BY <1>4, <1>1, Going DEF MoveRemove
<1> QED BY <1>2, <1>3, <1>4 DEF move

\* A step of a call on whole files.
LEMMA TreeSteps ==
    ASSUME NEW p, TreeStep(p)
    PROVE  TreeEffect(p)
<1>1. CASE BeginTreeCall(p)
    BY <1>1 DEF BeginTreeCall, TreeEffect
<1> QED BY <1>1, NativeSteps, CallSteps, MoveSteps DEF TreeStep

\* So they keep what holds of every process.
LEMMA TreeKeeps ==
    ASSUME HandlesSound, NEW p \in Procs, TreeEffect(p), UNCHANGED handle
    PROVE  HandlesSound'
<1>1. DOMAIN todo' = Procs /\ DOMAIN done' = Procs /\ DOMAIN handle' = Procs
    BY DEF HandlesSound, TreeEffect
<1>2. \A q \in Procs \ {p} : done'[q] = done[q] /\ todo'[q] = todo[q]
    BY DEF HandlesSound, TreeEffect
<1>3. handle[p].gone => todo'[p] = todo[p]
    BY DEF HandlesSound, TreeEffect, Sound
<1>4. \/ done'[p] = done[p]
      \/ \E e : e.op # "open" /\ done'[p] = Append(done[p], e)
    BY DEF HandlesSound, TreeEffect
<1>5. Sound(done'[p], handle[p], todo'[p])
    <2>1. Sound(done[p], handle[p], todo[p])
        BY DEF HandlesSound
    <2>2. CASE done'[p] = done[p]
        BY <1>3, <2>1, <2>2 DEF Sound
    <2>3. ASSUME NEW e, e.op # "open", done'[p] = Append(done[p], e)
          PROVE  Sound(done'[p], handle[p], todo'[p])
        <3>1. /\ IsSequence(done'[p]) /\ Len(done'[p]) = Len(done[p]) + 1
              /\ Len(done[p]) \in Nat
            BY <2>1, <2>3, Appended DEF Sound
        <3>2. /\ LastOpen(done'[p]) = LastOpen(done[p])
              /\ ClosingFailed(done[p]) => ClosingFailed(done'[p])
            BY <2>1, <2>3, StillExcused DEF Sound
        <3> QED BY <1>3, <2>1, <3>1, <3>2 DEF Sound, Excused
    <2> QED BY <1>4, <2>2, <2>3
<1> QED BY <1>1, <1>2, <1>5 DEF HandlesSound

-----------------------------------------------------------------------------
(* The calls on a File.                                                    *)

\* A call on the File is over, with h for the File: what must hold of it and the call's entry.
LEMMA Finishing ==
    ASSUME HandlesSound, NEW p \in Procs, NEW c, NEW h, NEW ok, NEW value,
           Finish(p, c, h, ok, value), DOMAIN h = FileFields,
           c.op # "open" \/ ~ok,
           Misled(h) => \/ Excused(done[p], handle[p]) /\ h.type = handle[p].type
                           /\ h.fp = handle[p].fp
                        \/ NullIsMissing(h)
                        \/ c.op = "close" /\ ~ok
    PROVE  HandlesSound'
<1> DEFINE e == [op |-> c.op, src |-> c.src, dst |-> c.dst, ok |-> ok, value |-> value]
           d == done[p]
           a == Append(d, e)
           t == IF h.gone \/ ~h.there THEN <<>> ELSE Tail(todo[p])
<1>1. /\ DOMAIN todo' = Procs /\ DOMAIN done' = Procs /\ DOMAIN handle' = Procs
      /\ \A q \in Procs \ {p} :
            done'[q] = done[q] /\ todo'[q] = todo[q] /\ handle'[q] = handle[q]
    BY DEF HandlesSound, Finish
<1>2. done'[p] = a /\ handle'[p] = h /\ todo'[p] = t
    BY DEF HandlesSound, Finish
<1>3. Sound(d, handle[p], todo[p])
    BY DEF HandlesSound
<1>4. e.op = c.op /\ (e.ok <=> ok)
    OBVIOUS
<1> HIDE DEF e
<1>5. IsSequence(a) /\ Len(a) = Len(d) + 1 /\ Len(d) \in Nat
    BY <1>3, Appended DEF Sound
<1>6. /\ LastOpen(a) = LastOpen(d)
      /\ ClosingFailed(d) => ClosingFailed(a)
      /\ c.op = "close" /\ ~ok => ClosingFailed(a)
    BY <1>3, <1>4, StillExcused DEF Sound
<1>7. Misled(h) => Excused(a, h)
    BY <1>6 DEF Excused, NullIsMissing
<1>8. Sound(a, h, t)
    BY <1>3, <1>5, <1>6, <1>7 DEF Sound
<1> QED BY <1>1, <1>2, <1>8 DEF HandlesSound

\* A File that is opened has a FILE.
LEMMA FinishingOpen ==
    ASSUME HandlesSound, NEW p \in Procs, NEW c, NEW h, NEW value,
           Finish(p, c, h, TRUE, value), DOMAIN h = FileFields, ~Misled(h), c.op = "open"
    PROVE  HandlesSound'
<1> DEFINE e == [op |-> c.op, src |-> c.src, dst |-> c.dst, ok |-> TRUE, value |-> value]
           d == done[p]
           a == Append(d, e)
           t == IF h.gone \/ ~h.there THEN <<>> ELSE Tail(todo[p])
<1>1. /\ DOMAIN todo' = Procs /\ DOMAIN done' = Procs /\ DOMAIN handle' = Procs
      /\ \A q \in Procs \ {p} :
            done'[q] = done[q] /\ todo'[q] = todo[q] /\ handle'[q] = handle[q]
    BY DEF HandlesSound, Finish
<1>2. done'[p] = a /\ handle'[p] = h /\ todo'[p] = t
    BY DEF HandlesSound, Finish
<1>3. Sound(d, handle[p], todo[p])
    BY DEF HandlesSound
<1>4. e.op = "open" /\ e.ok
    OBVIOUS
<1> HIDE DEF e
<1>5. IsSequence(a) /\ Len(a) = Len(d) + 1 /\ Len(d) \in Nat
    BY <1>3, Appended DEF Sound
<1>6. LastOpen(a) = Len(d) + 1
    BY <1>3, <1>4, LastIsOpened DEF Sound
<1>7. Sound(a, h, t)
    BY <1>3, <1>5, <1>6 DEF Sound, Misled
<1> QED BY <1>1, <1>2, <1>7 DEF HandlesSound

\* A File that two states of a call share, for what is asked here.
SameFile(g, h) ==
    /\ DOMAIN g = FileFields /\ DOMAIN h = FileFields
    /\ g.type = h.type /\ g.fp = h.fp /\ g.is_open = h.is_open /\ g.gone = h.gone

\* Emptying the buffer changes nothing but the position, the buffer and the mark.
LEMMA FlushedIsSame ==
    ASSUME NEW h, DOMAIN h = FileFields, NEW o \in Flushed(h)
    PROVE  SameFile(o.h, h)
<1>1. FileFields = {"there", "closed", "is_open", "type", "mode", "fp", "ino", "pos", "buf",
                    "error", "gone"}
    BY DEF FileFields, NoFile
<1>2. \/ o.h = [h EXCEPT !.buf = <<>>]
      \/ \E pos : o.h = [h EXCEPT !.buf = <<>>, !.pos = pos]
      \/ o.h = [h EXCEPT !.buf = <<>>, !.error = TRUE]
    <2>1. CASE h.buf = <<>> \/ ~OnDisk(h)
        <3> DEFINE g == [h EXCEPT !.buf = <<>>]
        <3>1. o = [err |-> "", fs |-> fs, faults |-> faults, h |-> g]
            BY <2>1 DEF Flushed
        <3> HIDE DEF g
        <3>2. o.h = g
            BY <3>1
        <3> QED BY <3>2 DEF g
    <2>2. CASE ~(h.buf = <<>> \/ ~OnDisk(h))
        <3> DEFINE old == Held(fs, h)
                   at == IF h.mode[1] = "a" THEN Len(old) ELSE h.pos
                   new == Overwritten(old, at, h.buf)
                   good == [h EXCEPT !.buf = <<>>, !.pos = at + Len(h.buf)]
                   bad == [h EXCEPT !.buf = <<>>, !.error = TRUE]
        <3>1. PICK t \in Try("write", Done([fs EXCEPT !.data[h.ino] = new])) :
                 o = [err |-> t.err, fs |-> t.fs, faults |-> t.faults,
                      h |-> IF t.err = "" THEN good ELSE bad]
            BY <2>2, Zenon DEF Flushed
        <3> HIDE DEF good, bad
        <3>2. o.h = good \/ o.h = bad
            BY <3>1
        <3> QED BY <3>2 DEF good, bad
    <2> QED BY <2>1, <2>2
<1> QED BY <1>1, <1>2 DEF SameFile


\* What a call that is not an open may leave of the File of a process: the same one, one that is
\* gone because it was misled, or, after a close, one that is closed.
Left(p, c, h, ok) ==
    \/ SameFile(h, handle[p])
    \/ /\ Misled(handle[p])
       /\ DOMAIN h = FileFields /\ h.type = handle[p].type /\ h.fp = handle[p].fp
    \/ DOMAIN h = FileFields /\ ~Misled(h)
    \/ DOMAIN h = FileFields /\ c.op = "close" /\ ~ok

\* So the invariant holds after it.
LEMMA LeavesSound ==
    ASSUME HandlesSound, NEW p \in Procs, NEW c, NEW h, NEW ok, NEW value,
           Finish(p, c, h, ok, value), Left(p, c, h, ok), c.op # "open" \/ ~ok
    PROVE  HandlesSound'
<1>1. Misled(handle[p]) => Excused(done[p], handle[p])
    BY DEF HandlesSound, Sound
<1>2. DOMAIN h = FileFields
    BY DEF Left, SameFile
<1>3. Misled(h) => \/ Excused(done[p], handle[p]) /\ h.type = handle[p].type
                         /\ h.fp = handle[p].fp
                   \/ NullIsMissing(h)
                   \/ c.op = "close" /\ ~ok
    BY <1>1 DEF Left, SameFile, Misled, Usable, Dangling
<1> QED BY <1>2, <1>3, Finishing

\* The process that makes a call on its File has not used it wrongly before.
LEMMA CallingIsSound ==
    ASSUME HandlesSound, NEW p \in Procs, NEW op, NEW c \in Calls(p, op)
    PROVE  c.op = op /\ ~handle[p].gone /\ DOMAIN handle[p] = FileFields
BY DEF HandlesSound, Sound, Calls

\* A File whose position, mark or buffer alone has changed.
LEMMA SameButPosition ==
    ASSUME NEW g, NEW h, SameFile(g, h), NEW x
    PROVE  /\ SameFile([g EXCEPT !.pos = x], h)
           /\ SameFile([g EXCEPT !.buf = x], h)
           /\ SameFile([g EXCEPT !.closed = x], h)
           /\ SameFile([g EXCEPT !.error = FALSE, !.pos = x], h)
BY DEF SameFile, FileFields, NoFile

\* One that is gone.
LEMMA GoneIsLeft ==
    ASSUME NEW p, NEW c, NEW ok, Usable(handle[p]), Dangling(handle[p]),
           DOMAIN handle[p] = FileFields
    PROVE  Left(p, c, Gone(handle[p]), ok)
BY DEF Left, Gone, Misled, FileFields, NoFile

\* The File itself.
LEMMA SameItself ==
    ASSUME NEW h, DOMAIN h = FileFields
    PROVE  SameFile(h, h)
BY DEF SameFile

\* open: a File that is opened has a FILE, and the other outcomes leave the File alone.
LEMMA OpenKeeps ==
    ASSUME HandlesSound, NEW p \in Procs, open(p)
    PROVE  HandlesSound'
<1>1. PICK c \in Calls(p, "open") :
         \/ \E value : Finish(p, c, handle[p], FALSE, value)
         \/ \E ino : Finish(p, c, _File_from_handle(c.dst, "NORMAL", "live", ino), TRUE, {})
    BY Zenon DEF open, Throw
<1>2. c.op = "open" /\ ~handle[p].gone /\ DOMAIN handle[p] = FileFields
    BY CallingIsSound
<1>3. CASE \E value : Finish(p, c, handle[p], FALSE, value)
    BY <1>2, <1>3, LeavesSound, SameItself DEF Left
<1>4. ASSUME NEW ino,
             Finish(p, c, _File_from_handle(c.dst, "NORMAL", "live", ino), TRUE, {})
      PROVE  HandlesSound'
    <2> DEFINE h == _File_from_handle(c.dst, "NORMAL", "live", ino)
    <2>1. DOMAIN h = FileFields /\ ~Misled(h)
        BY DEF _File_from_handle, FileFields, NoFile, Misled, Usable, Dangling
    <2> HIDE DEF h
    <2> QED BY <1>2, <1>4, <2>1, FinishingOpen DEF h
<1> QED BY <1>1, <1>3, <1>4

\* A standard File has its FILE, or is the NULL one without it.
LEMMA OpenStdKeeps ==
    ASSUME HandlesSound, NEW p \in Procs, open_std(p)
    PROVE  HandlesSound'
<1>1. PICK op \in {"stdin", "stdout", "stdnull"}, c \in Calls(p, "stdin") \cup
           Calls(p, "stdout") \cup Calls(p, "stdnull") :
         \E mode, type, fp :
            /\ Finish(p, c, _File_from_handle(mode, type, fp, 0), TRUE, {})
            /\ fp = "live" \/ (type = "NULL" /\ fp = "null")
    BY DEF open_std
<1>2. c.op # "open"
    BY CallingIsSound
<1>3. PICK mode, type, fp :
         /\ Finish(p, c, _File_from_handle(mode, type, fp, 0), TRUE, {})
         /\ fp = "live" \/ (type = "NULL" /\ fp = "null")
    BY <1>1
<1> DEFINE h == _File_from_handle(mode, type, fp, 0)
<1>4. DOMAIN h = FileFields /\ (Misled(h) => NullIsMissing(h))
    BY <1>3 DEF _File_from_handle, FileFields, NoFile, Misled, Usable, Dangling, NullIsMissing
<1> HIDE DEF h
<1> QED BY <1>2, <1>3, <1>4, Finishing DEF h

\* A File whose buffer has been emptied, with its mark and position changed or not.
Emptied(f, h) ==
    \E o \in Flushed(f) : \E x :
       \/ h = o.h
       \/ h = [o.h EXCEPT !.pos = x]
       \/ h = [o.h EXCEPT !.error = FALSE, !.pos = x]

\* One on a directory that a call has tried to read.
DirectoryRead(f, h) ==
    \/ h = [f EXCEPT !.error = TRUE]
    \/ h = [f EXCEPT !.pos = 0]
    \/ h = [f EXCEPT !.error = TRUE, !.pos = 0]

\* How a call uses the File.
Uses(p, h) ==
    \/ h = handle[p]
    \/ h = Gone(handle[p]) /\ Usable(handle[p]) /\ Dangling(handle[p])
    \/ Emptied(handle[p], h)
    \/ DirectoryRead(handle[p], h)

\* The process makes such a call.
Using(p, op) ==
    \E c \in Calls(p, op) : \E h, ok, value : Finish(p, c, h, ok, value) /\ Uses(p, h)

\* It is the same File.
LEMMA EmptiedIsSame ==
    ASSUME NEW f, DOMAIN f = FileFields, NEW h, Emptied(f, h)
    PROVE  SameFile(h, f)
<1>1. PICK o \in Flushed(f) :
         \E x : \/ h = o.h
                \/ h = [o.h EXCEPT !.pos = x]
                \/ h = [o.h EXCEPT !.error = FALSE, !.pos = x]
    BY Zenon DEF Emptied
<1>2. PICK x :
         \/ h = o.h
         \/ h = [o.h EXCEPT !.pos = x]
         \/ h = [o.h EXCEPT !.error = FALSE, !.pos = x]
    BY <1>1, Zenon
<1>3. SameFile(o.h, f)
    BY FlushedIsSame
<1> DEFINE g == o.h
<1> HIDE DEF g
<1>4. SameFile(g, f) /\ (\/ h = g
                         \/ h = [g EXCEPT !.pos = x]
                         \/ h = [g EXCEPT !.error = FALSE, !.pos = x])
    BY <1>2, <1>3 DEF g
<1> QED BY <1>4 DEF SameFile, FileFields, NoFile

\* It is the same File, too.
LEMMA DirectoryReadIsSame ==
    ASSUME NEW f, DOMAIN f = FileFields, NEW h, DirectoryRead(f, h)
    PROVE  SameFile(h, f)
BY DEF DirectoryRead, SameFile, FileFields, NoFile

\* A call that uses the File keeps what holds of every process.
LEMMA UsingKeeps ==
    ASSUME HandlesSound, NEW p \in Procs, NEW op, op # "open",
           Using(p, op)
    PROVE  HandlesSound'
<1>1. PICK c \in Calls(p, op) : \E h, ok, value : Finish(p, c, h, ok, value) /\ Uses(p, h)
    BY Zenon DEF Using
<1>2. PICK h, ok, value : Finish(p, c, h, ok, value) /\ Uses(p, h)
    BY <1>1, Zenon
<1>3. c.op # "open" /\ DOMAIN handle[p] = FileFields
    BY CallingIsSound
<1>4. Left(p, c, h, ok)
    BY <1>2, <1>3, GoneIsLeft, EmptiedIsSame, DirectoryReadIsSame, SameItself DEF Left, Uses
<1> QED BY <1>2, <1>3, <1>4, LeavesSound

\* Reading.
LEMMA ReadKeeps ==
    ASSUME HandlesSound, NEW p \in Procs, read_all(p) \/ read(p)
    PROVE  HandlesSound'
<1>1. CASE read_all(p)
    <2>1. Using(p, "read_all")
        BY <1>1, ZenonT(60) DEF read_all, Throw, Using, Uses, Emptied, DirectoryRead
    <2> QED BY <2>1, UsingKeeps
<1>2. CASE read(p)
    <2>1. Using(p, "read")
        BY <1>2, ZenonT(60) DEF read, Throw, Using, Uses, Emptied, DirectoryRead
    <2> QED BY <2>1, UsingKeeps
<1> QED BY <1>1, <1>2

\* Positioning and asking.
LEMMA AskingKeeps ==
    ASSUME HandlesSound, NEW p \in Procs, seek(p) \/ tell(p) \/ flush(p) \/ file_size(p)
    PROVE  HandlesSound'
<1>1. CASE seek(p)
    <2>1. Using(p, "seek")
        BY <1>1, ZenonT(60) DEF seek, Throw, Using, Uses, Emptied
    <2> QED BY <2>1, UsingKeeps
<1>2. CASE tell(p)
    <2>1. Using(p, "tell")
        BY <1>2, Zenon DEF tell, Throw, Using, Uses, Emptied
    <2> QED BY <2>1, UsingKeeps
<1>3. CASE flush(p)
    <2>1. Using(p, "flush")
        BY <1>3, Zenon DEF flush, Throw, Using, Uses, Emptied
    <2> QED BY <2>1, UsingKeeps
<1>4. CASE file_size(p)
    <2>1. Using(p, "size")
        BY <1>4, Zenon DEF file_size, Throw, Using, Uses, Emptied
    <2> QED BY <2>1, UsingKeeps
<1> QED BY <1>1, <1>2, <1>3, <1>4

\* Writing: the buffer grows first.
LEMMA WriteKeeps ==
    ASSUME HandlesSound, NEW p \in Procs, write(p)
    PROVE  HandlesSound'
<1>1. PICK c \in Calls(p, "write") :
         \/ \E h, ok, value :
               /\ Finish(p, c, h, ok, value)
               /\ \/ h = handle[p]
                  \/ h = Gone(handle[p]) /\ Usable(handle[p]) /\ Dangling(handle[p])
                  \/ h = [handle[p] EXCEPT !.buf = @ \o c.src]
                  \/ \E o \in Flushed([handle[p] EXCEPT !.buf = @ \o c.src]) : h = o.h
    BY Zenon DEF write, Throw
<1>2. PICK h, ok, value :
         /\ Finish(p, c, h, ok, value)
         /\ \/ h = handle[p]
            \/ h = Gone(handle[p]) /\ Usable(handle[p]) /\ Dangling(handle[p])
            \/ h = [handle[p] EXCEPT !.buf = @ \o c.src]
            \/ \E o \in Flushed([handle[p] EXCEPT !.buf = @ \o c.src]) : h = o.h
    BY <1>1
<1>3. c.op = "write" /\ DOMAIN handle[p] = FileFields
    BY CallingIsSound
<1> DEFINE kept == [handle[p] EXCEPT !.buf = @ \o c.src]
<1>4. SameFile(kept, handle[p])
    BY <1>3 DEF SameFile, FileFields, NoFile
<1>5. ASSUME NEW o \in Flushed(kept), h = o.h PROVE SameFile(h, handle[p])
    <2>1. DOMAIN kept = FileFields
        BY <1>4 DEF SameFile
    <2> HIDE DEF kept
    <2>2. SameFile(o.h, kept)
        BY <2>1, FlushedIsSame
    <2> QED BY <1>4, <1>5, <2>2 DEF SameFile
<1>6. Left(p, c, h, ok)
    BY <1>2, <1>3, <1>4, <1>5, GoneIsLeft, SameItself DEF Left
<1> QED BY <1>2, <1>3, <1>6, LeavesSound

\* Closing: is_open falls with the FILE, unless fclose reports a failure, which is thrown.
LEMMA CloseKeeps ==
    ASSUME HandlesSound, NEW p \in Procs, close(p)
    PROVE  HandlesSound'
<1>1. PICK c \in Calls(p, "close") :
         \E h, ok, value :
            /\ Finish(p, c, h, ok, value)
            /\ \/ h = [handle[p] EXCEPT !.closed = TRUE]
               \/ h = Closed(handle[p])
               \/ h = Gone(handle[p]) /\ Usable(handle[p]) /\ Dangling(handle[p])
               \/ \E o \in Flushed(handle[p]) : h = Closed(o.h)
               \/ \E o \in Flushed(handle[p]) : h = CloseFailed(o.h) /\ ok = FALSE
    BY Zenon DEF close, Throw
<1>2. PICK h, ok, value :
         /\ Finish(p, c, h, ok, value)
         /\ \/ h = [handle[p] EXCEPT !.closed = TRUE]
            \/ h = Closed(handle[p])
            \/ h = Gone(handle[p]) /\ Usable(handle[p]) /\ Dangling(handle[p])
            \/ \E o \in Flushed(handle[p]) : h = Closed(o.h)
            \/ \E o \in Flushed(handle[p]) : h = CloseFailed(o.h) /\ ok = FALSE
    BY <1>1
<1>3. c.op = "close" /\ ~handle[p].gone /\ DOMAIN handle[p] = FileFields
    BY CallingIsSound
<1>4. ASSUME NEW g, SameFile(g, handle[p])
      PROVE  /\ DOMAIN Closed(g) = FileFields /\ ~Misled(Closed(g))
             /\ DOMAIN CloseFailed(g) = FileFields
             /\ SameFile([g EXCEPT !.closed = TRUE], handle[p])
    BY <1>3, <1>4 DEF SameFile, Closed, CloseFailed, Misled, Usable, FileFields, NoFile
<1>5. SameFile(handle[p], handle[p])
    BY <1>3, SameItself
<1>6. ASSUME NEW o \in Flushed(handle[p]) PROVE SameFile(o.h, handle[p])
    BY <1>3, FlushedIsSame
<1>7. Left(p, c, h, ok)
    <2>1. CASE h = [handle[p] EXCEPT !.closed = TRUE]
        BY <1>4, <1>5, <2>1 DEF Left
    <2>2. CASE h = Closed(handle[p])
        BY <1>4, <1>5, <2>2 DEF Left
    <2>3. CASE h = Gone(handle[p]) /\ Usable(handle[p]) /\ Dangling(handle[p])
        BY <1>3, <2>3, GoneIsLeft
    <2>4. CASE \E o \in Flushed(handle[p]) : h = Closed(o.h)
        BY <1>4, <1>6, <2>4 DEF Left
    <2>5. CASE \E o \in Flushed(handle[p]) : h = CloseFailed(o.h) /\ ok = FALSE
        <3>1. PICK o \in Flushed(handle[p]) : h = CloseFailed(o.h) /\ ok = FALSE
            BY <2>5
        <3>2. DOMAIN h = FileFields
            BY <1>4, <1>6, <3>1
        <3>3. ~ok
            BY <3>1
        <3> QED BY <1>3, <3>2, <3>3, Zenon DEF Left
    <2> QED BY <1>2, <2>1, <2>2, <2>3, <2>4, <2>5
<1> QED BY <1>2, <1>3, <1>7, LeavesSound

-----------------------------------------------------------------------------
(* The invariant.                                                          *)

\* No process has called anything or has a File.
LEMMA InitIsSound == Init => HandlesSound
<1> SUFFICES ASSUME Init PROVE HandlesSound
    OBVIOUS
<1>1. DOMAIN done = Procs /\ DOMAIN handle = Procs /\ DOMAIN todo = Procs
    BY ScenesAssumption DEF Init
<1>2. ASSUME NEW p \in Procs PROVE Sound(done[p], handle[p], todo[p])
    <2>1. done[p] = <<>> /\ handle[p] = NoFile
        BY <1>2 DEF Init
    <2>2. IsSequence(<<>>)
        BY DEF IsSequence
    <2>3. LastOpen(<<>>) = 0
        BY DEF LastOpen
    <2>4. DOMAIN NoFile = FileFields /\ ~NoFile.gone /\ ~NoFile.is_open
        BY DEF FileFields, NoFile
    <2> QED BY <2>1, <2>2, <2>3, <2>4 DEF Sound, Misled, Usable
<1> QED BY <1>1, <1>2 DEF HandlesSound

\* Every call on a File.
LEMMA StreamKeeps ==
    ASSUME HandlesSound, NEW p \in Procs, StreamStep(p)
    PROVE  HandlesSound'
BY OpenKeeps, OpenStdKeeps, ReadKeeps, WriteKeeps, CloseKeeps, AskingKeeps DEF StreamStep

\* Every step.
LEMMA NextKeepsSound == HandlesSound /\ [Next]_vars => HandlesSound'
<1> SUFFICES ASSUME HandlesSound, [Next]_vars PROVE HandlesSound'
    OBVIOUS
<1>1. ASSUME NEW p \in Procs, Step(p) PROVE HandlesSound'
    BY <1>1, TreeSteps, TreeKeeps, StreamKeeps DEF Step
<1>2. CASE UNCHANGED vars
    BY <1>2 DEF vars, treeVars, streamVars, HandlesSound
<1> QED BY <1>1, <1>2 DEF Next, AllOver

\* Every File that is open for its methods has its FILE, unless a close has failed since the
\* last open, or it is the NULL one and /dev/null could not be opened; and a program that has used
\* such a File has ended.
THEOREM HandlesAreSound == Spec => []HandlesSound
<1>1. Init => HandlesSound
    BY InitIsSound
<1>2. HandlesSound /\ [Next]_vars => HandlesSound'
    BY NextKeepsSound
<1> QED BY <1>1, <1>2, PTL DEF Spec

\* A FILE is used after it is closed only when its closing had failed, and a NULL one only when
\* /dev/null could not be opened: for every number of processes, whatever they call and whichever
\* system calls fail.
THEOREM OnlyFailedCloseDanglesHolds == Spec => []OnlyFailedCloseDangles
<1>1. HandlesSound => OnlyFailedCloseDangles
    BY DEF HandlesSound, Sound, Misled, Excused, ClosingFailed, NullIsMissing,
        OnlyFailedCloseDangles
<1> QED BY <1>1, HandlesAreSound, PTL

=============================================================================
