----------------------------- MODULE FileStream -----------------------------
(***************************************************************************)
(* An open file: class File of src/stdlib/file/init.ar, the FileHandle of  *)
(* handle.h below it (is_open, the FILE) and the calls of native/main.c    *)
(* that use it.  Each process holds one File.                              *)
(*                                                                         *)
(* The C library's FILE is external: it buffers what is written (buf),     *)
(* passes the buffer on when it likes, and loses it when that fails; its   *)
(* error mark stays until clearerr.  A FILE used after its fclose, or      *)
(* NULL, is undefined behaviour: the File is gone.                         *)
(***************************************************************************)
EXTENDS FileTree, Integers

CONSTANTS
    Offsets         \* the offsets seek is called with

VARIABLES
    handle          \* per process, its File

streamVars == <<handle>>

NoFile ==
    [there |-> FALSE, closed |-> TRUE, is_open |-> FALSE, type |-> "NORMAL",
     mode |-> <<>>, fp |-> "none", ino |-> 0, pos |-> 0, buf |-> <<>>,
     error |-> FALSE, gone |-> FALSE]

-----------------------------------------------------------------------------
\* A call on the File is over: its answer to the program, which ends when it
\* has no File, or one that is gone.
Finish(p, c, h, ok, value) ==
    /\ handle' = [handle EXCEPT ![p] = h]
    /\ todo' = [todo EXCEPT ![p] = IF h.gone \/ ~h.there THEN <<>> ELSE Tail(@)]
    /\ done' = [done EXCEPT ![p] = Append(@,
           [op |-> c.op, src |-> c.src, dst |-> c.dst,
            ok |-> ok, value |-> value])]
    /\ UNCHANGED <<start, stack, ret, items>>

Throw(p, c, h) == Finish(p, c, h, FALSE, {})
SameFiles == UNCHANGED <<fs, faults>>

Calls(p, op) ==
    IF stack[p] = <<>> /\ todo[p] # <<>>
    THEN {c \in Head(todo[p]) : c.op = op} ELSE {}

CanRead(h) == Contains(h.mode, "r")
CanWrite(h) == \E m \in {"w", "a", "x", "+"} : Contains(h.mode, m)

\* What every native call asks first, then the use of the FILE.
Usable(h) == h.is_open
Dangling(h) == h.fp # "live"
Gone(h) == [h EXCEPT !.gone = TRUE]

-----------------------------------------------------------------------------
\* The FILE's position and buffer.
OnDisk(h) == h.type = "NORMAL"

\* A directory that was opened for reading has no bytes to read: reading it is
\* an error, and the file system may refuse to position it.
IsDirectory(h) == OnDisk(h) /\ h.ino = 0
Held(f, h) == IF h.ino = 0 THEN <<>> ELSE f.data[h.ino]

Overwritten(old, pos, bytes) ==
    [i \in 1..(IF pos + Len(bytes) > Len(old) THEN pos + Len(bytes) ELSE Len(old)) |->
        IF i > pos /\ i <= pos + Len(bytes) THEN bytes[i - pos]
        ELSE IF i <= Len(old) THEN old[i] ELSE "0"]

\* The buffer goes to the file; on failure it is lost and the FILE marked.
Flushed(h) ==
    IF h.buf = <<>> \/ ~OnDisk(h)
    THEN {[err |-> "", fs |-> fs, faults |-> faults, h |-> [h EXCEPT !.buf = <<>>]]}
    ELSE LET old == Held(fs, h)
             at == IF h.mode[1] = "a" THEN Len(old) ELSE h.pos
             new == Overwritten(old, at, h.buf)
         IN  {[err |-> o.err, fs |-> o.fs, faults |-> o.faults,
               h |-> IF o.err = ""
                     THEN [h EXCEPT !.buf = <<>>, !.pos = at + Len(h.buf)]
                     ELSE [h EXCEPT !.buf = <<>>, !.error = TRUE]] :
              o \in Try("write", Done([fs EXCEPT !.data[h.ino] = new]))}

-----------------------------------------------------------------------------
\* open: _validate_mode, fopen, and the exception for what went wrong.
ValidMode(mode) ==
    /\ mode # <<>>
    /\ mode[1] \in {"r", "w", "a", "x"}
    /\ ToSet(Tail(mode)) \subseteq {"b", "+"}
    /\ IsInjective(Tail(mode))

\* fopen knows r, w and a to begin with.  A directory opens for reading alone.
fopen(path, mode) ==
    LET kind == Kind(fs, path)
        new == sys_create(fs, Target(fs.tree, path))
    IN  CASE mode[1] = "x" -> Refused("EINVAL", fs)
          [] kind = "special" -> Refused("ENXIO", fs)
          [] kind = "dir" /\ (mode[1] # "r" \/ Contains(mode, "+")) -> Refused("EISDIR", fs)
          [] kind = "none" /\ mode[1] = "r" -> Refused("ENOENT", fs)
          [] kind = "none" /\ mode[1] # "r" -> new
          [] kind = "file" /\ mode[1] = "w"
             -> Done([fs EXCEPT !.data[Inode(fs, path)] = <<>>])
          [] OTHER -> Done(fs)

ExceptionFor(err) ==
    CASE err = "ENOENT" -> "FileNotFoundError"
      [] err = "EACCES" -> "FilePermissionError"
      [] err = "EEXIST" -> "FileExistsError"
      [] OTHER -> "FileError"

_File_from_handle(mode, type, fp, ino) ==
    [NoFile EXCEPT !.there = TRUE, !.closed = FALSE, !.is_open = TRUE,
                   !.mode = mode, !.type = type, !.fp = fp, !.ino = ino]

open(p) ==
    \E c \in Calls(p, "open") :
       IF ~ValidMode(c.dst) THEN Throw(p, c, handle[p]) /\ SameFiles
       ELSE \E o \in Try("open", fopen(c.src, c.dst)) :
               /\ Took(o)
               /\ IF o.err = ""
                  THEN Finish(p, c, _File_from_handle(c.dst, "NORMAL", "live",
                                                      Inode(o.fs, c.src)), TRUE, {})
                  ELSE Finish(p, c, handle[p], FALSE, {<<ExceptionFor(o.err)>>})

\* stdin, stdout, and stdnull, whose fopen may fail unnoticed.
open_std(p) ==
    \/ \E c \in Calls(p, "stdin") :
          Finish(p, c, _File_from_handle(<<"r", "b">>, "STD", "live", 0), TRUE, {})
          /\ SameFiles
    \/ \E c \in Calls(p, "stdout") :
          Finish(p, c, _File_from_handle(<<"w", "b">>, "STD", "live", 0), TRUE, {})
          /\ SameFiles
    \/ \E c \in Calls(p, "stdnull"), o \in Try("open", Done(fs)) :
          /\ Took(o)
          /\ Finish(p, c, _File_from_handle(<<"w", "b">>, "NULL",
                              IF o.err = "" THEN "live" ELSE "null", 0), TRUE, {})

-----------------------------------------------------------------------------
\* read without a size: the whole file from its beginning, when the FILE can
\* be positioned; else what is left, after clearing the mark.  Of a directory,
\* the reading fails, or before it the allocation of the size it pretends to.
read_all(p) ==
    \E c \in Calls(p, "read_all") :
    LET h == handle[p]
        FromStart(f, g) == IF g.error THEN Throw(p, c, [g EXCEPT !.pos = Len(Held(f, g))])
                           ELSE Finish(p, c, [g EXCEPT !.pos = Len(Held(f, g))],
                                       TRUE, {Held(f, g)})
        Rest(f, g) == Finish(p, c, [g EXCEPT !.error = FALSE, !.pos =
                                       IF @ > Len(Held(f, g)) THEN @ ELSE Len(Held(f, g))],
                             TRUE, {SubSeq(Held(f, g), g.pos + 1, Len(Held(f, g)))})
    IN  IF ~CanRead(h) \/ ~Usable(h) THEN Throw(p, c, h) /\ SameFiles
        ELSE IF Dangling(h) THEN Throw(p, c, Gone(h)) /\ SameFiles
        ELSE IF IsDirectory(h)
        THEN /\ \E g \in {[h EXCEPT !.error = TRUE], [h EXCEPT !.pos = 0],
                          [h EXCEPT !.error = TRUE, !.pos = 0]} : Throw(p, c, g)
             /\ SameFiles
        ELSE \E o \in Flushed(h) :
                /\ Took(o)
                /\ IF o.err = "" /\ OnDisk(h) THEN FromStart(o.fs, o.h)
                   ELSE Rest(o.fs, o.h)

\* read with a size: what is there from the position on, "" at the end; the
\* FILE's mark is asked whatever was read.
read(p) ==
    \E c \in Calls(p, "read") :
    LET h == handle[p]
    IN  IF ~CanRead(h) \/ ~Usable(h) THEN Throw(p, c, h) /\ SameFiles
        ELSE IF Dangling(h) THEN Throw(p, c, Gone(h)) /\ SameFiles
        ELSE IF IsDirectory(h) THEN Throw(p, c, [h EXCEPT !.error = TRUE]) /\ SameFiles
        ELSE \E o \in Flushed(h), size \in 1..2 :
                LET held == Held(o.fs, o.h)
                    got == SubSeq(held, o.h.pos + 1,
                               IF o.h.pos + size > Len(held) THEN Len(held)
                               ELSE o.h.pos + size)
                    g == [o.h EXCEPT !.pos = @ + Len(got)]
                IN  /\ Took(o)
                    /\ IF g.error THEN Throw(p, c, g)
                       ELSE Finish(p, c, g, TRUE, {got})

\* The FILE keeps what is written, or passes all of it on.
write(p) ==
    \E c \in Calls(p, "write") :
    LET h == handle[p]
        kept == [h EXCEPT !.buf = @ \o c.src]
    IN  IF ~CanWrite(h) \/ h.closed \/ ~Usable(h)
        THEN Throw(p, c, h) /\ SameFiles
        ELSE IF Dangling(h) THEN Throw(p, c, Gone(h)) /\ SameFiles
        ELSE \/ Finish(p, c, kept, TRUE, {}) /\ SameFiles
             \/ \E o \in Flushed(kept) : Took(o) /\ Finish(p, c, o.h, o.err = "", {})

\* fclose frees the FILE whether it reports a failure or not.
Mut_Closed_staysOpen(h) == [h EXCEPT !.fp = "freed", !.closed = TRUE]

Closed(h) == [h EXCEPT !.fp = "freed", !.is_open = FALSE, !.closed = TRUE]
CloseFailed(h) == [h EXCEPT !.fp = "freed"]

close(p) ==
    \E c \in Calls(p, "close") :
    LET h == handle[p]
    IN  IF h.closed \/ ~Usable(h)
        THEN Finish(p, c, [h EXCEPT !.closed = TRUE], TRUE, {}) /\ SameFiles
        ELSE IF h.type # "NORMAL" THEN Finish(p, c, Closed(h), TRUE, {}) /\ SameFiles
        ELSE IF Dangling(h) THEN Throw(p, c, Gone(h)) /\ SameFiles
        ELSE \E o \in Flushed(h) :
             \E t \in Try("close", IF o.err = "" THEN Done(o.fs) ELSE Refused(o.err, o.fs)) :
                /\ fs' = o.fs
                /\ faults' = IF t.err = o.err THEN o.faults ELSE t.faults
                /\ IF t.err = "" THEN Finish(p, c, Closed(o.h), TRUE, {})
                   ELSE Throw(p, c, CloseFailed(o.h))

-----------------------------------------------------------------------------
\* seek, tell, flush and size.
seek(p) ==
    \E c \in Calls(p, "seek"), offset \in Offsets, whence \in 0..3 :
    LET h == handle[p]
        target(f, g) == offset + CASE whence = 0 -> 0
                                   [] whence = 1 -> g.pos
                                   [] OTHER -> Len(Held(f, g))
    IN  IF h.closed \/ ~Usable(h) \/ whence = 3 THEN Throw(p, c, h) /\ SameFiles
        ELSE IF Dangling(h) THEN Throw(p, c, Gone(h)) /\ SameFiles
        ELSE \/ IsDirectory(h) /\ Throw(p, c, h) /\ SameFiles
             \/ \E o \in Flushed(h) :
                   /\ Took(o)
                   /\ IF o.err # "" \/ target(o.fs, o.h) < 0 \/ h.type = "STD"
                      THEN Throw(p, c, o.h)
                      ELSE Finish(p, c, [o.h EXCEPT !.pos = target(o.fs, o.h)], TRUE, {})

tell(p) ==
    \E c \in Calls(p, "tell") :
    LET h == handle[p]
        base == IF h.buf # <<>> /\ h.mode[1] = "a" THEN Len(Held(fs, h)) ELSE h.pos
    IN  /\ SameFiles
        /\ IF h.closed \/ ~Usable(h) THEN Throw(p, c, h)
           ELSE IF Dangling(h) THEN Throw(p, c, Gone(h))
           ELSE IF h.type = "STD" THEN Throw(p, c, h)
           ELSE Finish(p, c, h, TRUE, {<<base + Len(h.buf)>>})

flush(p) ==
    \E c \in Calls(p, "flush") :
    LET h == handle[p]
    IN  IF h.closed \/ ~Usable(h) THEN Throw(p, c, h) /\ SameFiles
        ELSE IF Dangling(h) THEN Throw(p, c, Gone(h)) /\ SameFiles
        ELSE \E o \in Flushed(h) : Took(o) /\ Finish(p, c, o.h, o.err = "", {})

\* fstat sees what has left the buffer; when it fails the FILE is sent to
\* its end and back, and stays at the end when the way back fails.
file_size(p) ==
    \E c \in Calls(p, "size") :
    LET h == handle[p]
        ByPosition == \E o \in Flushed(h) :
            LET size == {<<Len(Held(o.fs, o.h))>>}
            IN  /\ Took(o)
                /\ \/ Finish(p, c, o.h, o.err = "", IF o.err = "" THEN size ELSE {})
                   \/ /\ o.err = "" /\ "seek" \in start.mayFail
                      /\ Throw(p, c, [o.h EXCEPT !.pos = Len(Held(o.fs, o.h))])
    IN  IF h.closed \/ ~Usable(h) THEN Throw(p, c, h) /\ SameFiles
        ELSE IF Dangling(h) THEN Throw(p, c, Gone(h)) /\ SameFiles
        ELSE \/ /\ Finish(p, c, h, TRUE, {<<Len(Held(fs, h))>>})
                /\ SameFiles
             \/ "fstat" \in start.mayFail /\ ByPosition
             \/ "fstat" \in start.mayFail /\ IsDirectory(h) /\ Throw(p, c, h) /\ SameFiles

StreamStep(p) ==
    \/ open(p) \/ open_std(p) \/ read_all(p) \/ read(p) \/ write(p) \/ close(p)
    \/ seek(p) \/ tell(p) \/ flush(p) \/ file_size(p)

=============================================================================
