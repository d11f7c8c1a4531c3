------------------------------ MODULE FileTree ------------------------------
(***************************************************************************)
(* The calls of src/stdlib/file/native/main.c that work on whole files and *)
(* directories: copying, moving, deleting, listing, making directories and *)
(* temporary entries (POSIX build).                                        *)
(*                                                                         *)
(* Each process runs its calls one after the other; a call is a stack of   *)
(* frames, one per C function in progress, and every system call is a step *)
(* of its own, so that the processes interleave between them.  A system    *)
(* call named in start.mayFail may fail (EIO), faults bounds how often.    *)
(* Arguments are strings; memory is never exhausted.                       *)
(***************************************************************************)
EXTENDS FileSystem, TLC

CONSTANTS
    Procs,          \* the processes that share the file system
    Random,         \* the names the random characters of a pattern may give
    Attempts        \* candidates tried for a temporary name (100 in the code)

ASSUME FileTreeAssumption == Attempts \in Nat \ {0}

VARIABLES
    start,          \* how it began: the file system, mayFail and env
    fs,             \* the file system
    faults,         \* failures the system has left
    todo,           \* per process, the choices of the calls to come
    done,           \* per process, the calls that returned, with the answers
    stack,          \* per process, its frames, the innermost first
    ret,            \* per process, what the last native function returned
    items           \* per process, the paths tree_dir has collected

treeVars == <<start, fs, faults, todo, done, stack, ret, items>>

-----------------------------------------------------------------------------
\* A C function in progress: where it stands, its arguments and locals.
Frame(fn, at, src, dst) ==
    [fn |-> fn, at |-> at, src |-> src, dst |-> dst, child |-> <<>>,
     from |-> 0, to |-> 0, pos |-> 0, listed |-> {}, seen |-> {}]

Top(p) == Head(stack[p])
At(p, fn, at) == stack[p] # <<>> /\ Top(p).fn = fn /\ Top(p).at = at

\* argon_path_join of an argument and the entry at hand.
Source(f) == f.src \o f.child
Destination(f) == f.dst \o f.child

Goto(p, frame) ==
    /\ stack' = [stack EXCEPT ![p] = <<frame>> \o Tail(@)]
    /\ UNCHANGED <<start, todo, done, ret, items>>

CallNative(p, callee, frame) ==
    /\ stack' = [stack EXCEPT ![p] = <<callee, frame>> \o Tail(@)]
    /\ UNCHANGED <<start, todo, done, ret, items>>

Return(p, ok) ==
    /\ stack' = [stack EXCEPT ![p] = Tail(@)]
    /\ ret' = [ret EXCEPT ![p] = ok]
    /\ UNCHANGED <<start, todo, done, items>>

\* The call returns to the program: a value, or an exception (ok is FALSE).
Answer(p, ok, value) ==
    LET f == Top(p)
    IN  /\ stack' = [stack EXCEPT ![p] = <<>>]
        /\ done' = [done EXCEPT ![p] = Append(@,
               [op |-> f.fn, src |-> f.src, dst |-> f.dst,
                ok |-> ok, value |-> value])]
        /\ UNCHANGED <<start, todo, ret, items>>

\* What a system call may come to: its result, or a failure of the system.
Try(call, result) ==
    {[err |-> result.err, fs |-> result.fs, faults |-> faults]} \cup
    {[err |-> "EIO", fs |-> fs, faults |-> faults - 1] :
        x \in start.mayFail \cap (IF faults > 0 THEN {call} ELSE {})}

Took(o) == fs' = o.fs /\ faults' = o.faults

\* argon_is_directory and argon_is_file: a stat that fails says neither.
Stat(path) ==
    {[is |-> IF o.err = "" THEN Kind(fs, path) ELSE "none",
      fs |-> o.fs, faults |-> o.faults] : o \in Try("stat", Done(fs))}

argon_is_directory(s) == s.is = "dir"
argon_is_file(s) == s.is = "file"

-----------------------------------------------------------------------------
\* opendir and readdir: an entry that is there from the opening to the end
\* is read once; one that comes or goes meanwhile may be read or not.
Opendir(path) ==
    Try("opendir", IF Kind(fs, path) = "dir" THEN Done(fs)
                   ELSE Refused("ENOTDIR", fs))

Listing(path) == Names(fs.tree, Target(fs.tree, path))

Opened(f) == [f EXCEPT !.at = "next", !.listed = Listing(f.src)]

Unread(f) == (f.listed \cup Listing(f.src)) \ f.seen

EndOfDirectory(f) ==
    {[fs |-> fs, faults |-> faults] :
        x \in IF f.listed \cap Listing(f.src) \subseteq f.seen THEN {0} ELSE {}}
    \cup {[fs |-> o.fs, faults |-> o.faults] :
              o \in {t \in Try("readdir", Done(fs)) : t.err # ""}}

Entry(f, name, at) ==
    [f EXCEPT !.at = at, !.child = <<name>>, !.seen = @ \cup {name}]

-----------------------------------------------------------------------------
\* argon_copy_file_native: the destination is made anew, and taken away
\* again when the copying fails half way.
CopyFileOpen(p) ==
    /\ At(p, "copy_file_native", "open")
    /\ \E o \in Try("open", sys_open(fs, Top(p).src)) :
          /\ Took(o)
          /\ IF o.err # "" THEN Return(p, FALSE)
             ELSE Goto(p, [Top(p) EXCEPT !.at = "create",
                                         !.from = Inode(fs, Top(p).src)])

CreateCopy(path) == sys_create(fs, path)

CopyFileCreate(p) ==
    /\ At(p, "copy_file_native", "create")
    /\ \E o \in Try("create", CreateCopy(Top(p).dst)) :
          /\ Took(o)
          /\ IF o.err # "" THEN Return(p, FALSE)
             ELSE Goto(p, [Top(p) EXCEPT !.at = "copy",
                                         !.to = Inode(o.fs, Top(p).dst)])

\* One turn of the loop: a block is read and written.
CopyFileBlock(p) ==
    /\ At(p, "copy_file_native", "copy")
    /\ LET f == Top(p)
       IN  IF f.from = 0 THEN Goto(p, [f EXCEPT !.at = "undo"])
                              /\ UNCHANGED <<fs, faults>>
           ELSE IF f.pos >= Len(fs.data[f.from])
           THEN Goto(p, [f EXCEPT !.at = "close"]) /\ UNCHANGED <<fs, faults>>
           ELSE \E o \in Try("write", sys_append(fs, f.to,
                                         <<fs.data[f.from][f.pos + 1]>>)) :
                   /\ Took(o)
                   /\ Goto(p, IF o.err # "" THEN [f EXCEPT !.at = "undo"]
                              ELSE [f EXCEPT !.pos = @ + 1])

CopyFileClose(p) ==
    /\ At(p, "copy_file_native", "close")
    /\ \E o \in Try("close", Done(fs)) :
          /\ Took(o)
          /\ IF o.err = "" THEN Return(p, TRUE)
             ELSE Goto(p, [Top(p) EXCEPT !.at = "undo"])

CopyFileUndo(p) ==
    /\ At(p, "copy_file_native", "undo")
    /\ \E o \in Try("unlink", sys_unlink(fs, Top(p).dst)) : Took(o)
    /\ Return(p, FALSE)

argon_copy_file_native(p) ==
    \/ CopyFileOpen(p) \/ CopyFileCreate(p) \/ CopyFileBlock(p)
    \/ CopyFileClose(p) \/ CopyFileUndo(p)

CopyFile(src, dst) == Frame("copy_file_native", "open", src, dst)

-----------------------------------------------------------------------------
\* argon_copy_directory_native.
CopyDirectory(src, dst) == Frame("copy_directory_native", "stat", src, dst)

CopyDirectoryStart(p) ==
    LET f == Top(p)
    IN  \/ /\ At(p, "copy_directory_native", "stat")
           /\ \E s \in Stat(f.src) :
                 /\ Took(s)
                 /\ IF argon_is_directory(s)
                    THEN Goto(p, [f EXCEPT !.at = "mkdir"])
                    ELSE Return(p, FALSE)
        \/ /\ At(p, "copy_directory_native", "mkdir")
           /\ \E o \in Try("mkdir", sys_mkdir(fs, f.dst)) :
                 /\ Took(o)
                 /\ CASE o.err = "" -> Goto(p, [f EXCEPT !.at = "opendir"])
                      [] o.err = "EEXIST" -> Goto(p, [f EXCEPT !.at = "exists"])
                      [] OTHER -> Return(p, FALSE)
        \/ /\ At(p, "copy_directory_native", "exists")
           /\ \E s \in Stat(f.dst) :
                 /\ Took(s)
                 /\ IF argon_is_directory(s)
                    THEN Goto(p, [f EXCEPT !.at = "opendir"])
                    ELSE Return(p, FALSE)
        \/ /\ At(p, "copy_directory_native", "opendir")
           /\ \E o \in Opendir(f.src) :
                 /\ Took(o)
                 /\ IF o.err = "" THEN Goto(p, Opened(f)) ELSE Return(p, FALSE)

\* An entry that is neither a directory nor a regular file is passed over.
CopyDirectoryEntry(p) ==
    LET f == Top(p)
    IN  \/ /\ At(p, "copy_directory_native", "next")
           /\ \/ \E name \in Unread(f) :
                    Goto(p, Entry(f, name, "isdir")) /\ UNCHANGED <<fs, faults>>
              \/ \E o \in EndOfDirectory(f) : Took(o) /\ Return(p, TRUE)
        \/ /\ At(p, "copy_directory_native", "isdir")
           /\ \E s \in Stat(Source(f)) :
                 /\ Took(s)
                 /\ IF argon_is_directory(s)
                    THEN CallNative(p, CopyDirectory(Source(f), Destination(f)),
                                    [f EXCEPT !.at = "copied"])
                    ELSE Goto(p, [f EXCEPT !.at = "isfile"])
        \/ /\ At(p, "copy_directory_native", "isfile")
           /\ \E s \in Stat(Source(f)) :
                 /\ Took(s)
                 /\ IF argon_is_file(s)
                    THEN CallNative(p, CopyFile(Source(f), Destination(f)),
                                    [f EXCEPT !.at = "copied"])
                    ELSE Goto(p, [f EXCEPT !.at = "next"])

Mut_CopyDirectoryCopied_goesOn(p) ==
    /\ At(p, "copy_directory_native", "copied")
    /\ Goto(p, [Top(p) EXCEPT !.at = "next"])
    /\ UNCHANGED <<fs, faults>>

CopyDirectoryCopied(p) ==
    /\ At(p, "copy_directory_native", "copied")
    /\ IF ret[p] THEN Goto(p, [Top(p) EXCEPT !.at = "next"])
       ELSE Return(p, FALSE)
    /\ UNCHANGED <<fs, faults>>

argon_copy_directory_native(p) ==
    CopyDirectoryStart(p) \/ CopyDirectoryEntry(p) \/ CopyDirectoryCopied(p)

-----------------------------------------------------------------------------
\* argon_remove_directory_native: a link to a directory is gone into.
RemoveDirectory(path) == Frame("remove_directory_native", "opendir", path, path)

RemoveDirectoryOpen(p) ==
    /\ At(p, "remove_directory_native", "opendir")
    /\ \E o \in Opendir(Top(p).src) :
          /\ Took(o)
          /\ IF o.err = "" THEN Goto(p, Opened(Top(p))) ELSE Return(p, FALSE)

RemoveDirectoryEntry(p) ==
    LET f == Top(p)
    IN  \/ /\ At(p, "remove_directory_native", "next")
           /\ \/ \E name \in Unread(f) :
                    Goto(p, Entry(f, name, "isdir")) /\ UNCHANGED <<fs, faults>>
              \/ \E o \in EndOfDirectory(f) :
                    Took(o) /\ Goto(p, [f EXCEPT !.at = "rmdir"])
        \/ /\ At(p, "remove_directory_native", "isdir")
           /\ \E s \in Stat(Source(f)) :
                 /\ Took(s)
                 /\ IF argon_is_directory(s)
                    THEN CallNative(p, RemoveDirectory(Source(f)),
                                    [f EXCEPT !.at = "removed"])
                    ELSE Goto(p, [f EXCEPT !.at = "unlink"])
        \/ /\ At(p, "remove_directory_native", "unlink")
           /\ \E o \in Try("unlink", sys_unlink(fs, Source(f))) :
                 /\ Took(o)
                 /\ IF o.err = "" THEN Goto(p, [f EXCEPT !.at = "next"])
                    ELSE Return(p, FALSE)
        \/ /\ At(p, "remove_directory_native", "removed")
           /\ IF ret[p] THEN Goto(p, [f EXCEPT !.at = "next"])
              ELSE Return(p, FALSE)
           /\ UNCHANGED <<fs, faults>>

RemoveDirectoryItself(p) ==
    /\ At(p, "remove_directory_native", "rmdir")
    /\ \E o \in Try("rmdir", sys_rmdir(fs, Top(p).src)) :
          Took(o) /\ Return(p, o.err = "")

argon_remove_directory_native(p) ==
    RemoveDirectoryOpen(p) \/ RemoveDirectoryEntry(p) \/ RemoveDirectoryItself(p)

-----------------------------------------------------------------------------
\* copy_file, copy_dir and delete_dir: a check, then the native function.
copy_file(p) ==
    \/ /\ At(p, "copy_file", "stat")
       /\ \E s \in Stat(Top(p).src) :
             /\ Took(s)
             /\ IF argon_is_file(s)
                THEN CallNative(p, CopyFile(Top(p).src, Top(p).dst),
                                [Top(p) EXCEPT !.at = "copied"])
                ELSE Answer(p, FALSE, {})
    \/ /\ At(p, "copy_file", "copied")
       /\ Answer(p, ret[p], {})
       /\ UNCHANGED <<fs, faults>>

copy_dir(p) ==
    \/ /\ At(p, "copy_dir", "stat")
       /\ \E s \in Stat(Top(p).src) :
             /\ Took(s)
             /\ IF argon_is_directory(s)
                THEN CallNative(p, CopyDirectory(Top(p).src, Top(p).dst),
                                [Top(p) EXCEPT !.at = "copied"])
                ELSE Answer(p, FALSE, {})
    \/ /\ At(p, "copy_dir", "copied")
       /\ Answer(p, ret[p], {})
       /\ UNCHANGED <<fs, faults>>

delete_dir(p) ==
    \/ /\ At(p, "delete_dir", "stat")
       /\ \E s \in Stat(Top(p).src) :
             /\ Took(s)
             /\ IF argon_is_directory(s)
                THEN CallNative(p, RemoveDirectory(Top(p).src),
                                [Top(p) EXCEPT !.at = "removed"])
                ELSE Answer(p, FALSE, {})
    \/ /\ At(p, "delete_dir", "removed")
       /\ Answer(p, ret[p], {})
       /\ UNCHANGED <<fs, faults>>

delete_file(p) ==
    \/ /\ At(p, "delete_file", "stat")
       /\ \E s \in Stat(Top(p).src) :
             /\ Took(s)
             /\ IF argon_is_file(s)
                THEN Goto(p, [Top(p) EXCEPT !.at = "unlink"])
                ELSE Answer(p, FALSE, {})
    \/ /\ At(p, "delete_file", "unlink")
       /\ \E o \in Try("unlink", sys_unlink(fs, Top(p).src)) :
             Took(o) /\ Answer(p, o.err = "", {})

path_type(p) ==
    /\ At(p, "path_type", "stat")
    /\ \E s \in Stat(Top(p).src) : Took(s) /\ Answer(p, TRUE, {<<s.is>>})

-----------------------------------------------------------------------------
\* move, and each entry of move_contents: a rename, and across devices a
\* copy followed by a removal.
Movers == {"move", "move_contents_native"}

MoverAt(p, at) == stack[p] # <<>> /\ Top(p).fn \in Movers /\ Top(p).at = at

\* One entry has been moved, or not.
EntryMoved(p, ok) ==
    IF Top(p).fn = "move" THEN Answer(p, ok, {})
    ELSE IF ok THEN Goto(p, [Top(p) EXCEPT !.at = "next"])
    ELSE Return(p, FALSE)

MoveRename(p) ==
    /\ MoverAt(p, "rename")
    /\ \E o \in Try("rename", sys_rename(fs, Source(Top(p)), Destination(Top(p)))) :
          /\ Took(o)
          /\ IF o.err = "EXDEV" THEN Goto(p, [Top(p) EXCEPT !.at = "isdir"])
             ELSE EntryMoved(p, o.err = "")

\* move tells a file from what is neither; move_contents does not.
MoveCopy(p) ==
    LET f == Top(p)
        copyFile == CallNative(p, CopyFile(Source(f), Destination(f)),
                               [f EXCEPT !.at = "copied_file"])
    IN  \/ /\ MoverAt(p, "isdir")
           /\ \E s \in Stat(Source(f)) :
                 /\ Took(s)
                 /\ IF argon_is_directory(s)
                    THEN CallNative(p, CopyDirectory(Source(f), Destination(f)),
                                    [f EXCEPT !.at = "copied_dir"])
                    ELSE IF f.fn = "move" THEN Goto(p, [f EXCEPT !.at = "isfile"])
                    ELSE copyFile
        \/ /\ MoverAt(p, "isfile")
           /\ \E s \in Stat(f.src) :
                 /\ Took(s)
                 /\ IF argon_is_file(s) THEN copyFile ELSE Answer(p, FALSE, {})

\* Whether what was copied is removed.
Mut_AfterCopy_always(ok) == TRUE

AfterCopy(ok) == ok

MoveRemove(p) ==
    LET f == Top(p)
    IN  \/ /\ MoverAt(p, "copied_dir")
           /\ IF AfterCopy(ret[p])
              THEN CallNative(p, RemoveDirectory(Source(f)),
                              [f EXCEPT !.at = "removed"])
              ELSE EntryMoved(p, FALSE)
           /\ UNCHANGED <<fs, faults>>
        \/ /\ MoverAt(p, "copied_file")
           /\ IF AfterCopy(ret[p]) THEN Goto(p, [f EXCEPT !.at = "unlink"])
              ELSE EntryMoved(p, FALSE)
           /\ UNCHANGED <<fs, faults>>
        \/ /\ MoverAt(p, "unlink")
           /\ \E o \in Try("unlink", sys_unlink(fs, Source(f))) :
                 Took(o) /\ EntryMoved(p, o.err = "")
        \/ /\ MoverAt(p, "removed")
           /\ EntryMoved(p, ret[p])
           /\ UNCHANGED <<fs, faults>>

move(p) == MoveRename(p) \/ MoveCopy(p) \/ MoveRemove(p)

\* argon_move_contents_native up to an entry, and the call around it.
argon_move_contents_native(p) ==
    LET f == Top(p)
    IN  \/ /\ At(p, "move_contents_native", "src")
           /\ \E s \in Stat(f.src) :
                 /\ Took(s)
                 /\ IF argon_is_directory(s)
                    THEN Goto(p, [f EXCEPT !.at = "dst"]) ELSE Return(p, FALSE)
        \/ /\ At(p, "move_contents_native", "dst")
           /\ \E s \in Stat(f.dst) :
                 /\ Took(s)
                 /\ IF argon_is_directory(s)
                    THEN Goto(p, [f EXCEPT !.at = "opendir"])
                    ELSE Return(p, FALSE)
        \/ /\ At(p, "move_contents_native", "opendir")
           /\ \E o \in Opendir(f.src) :
                 /\ Took(o)
                 /\ IF o.err = "" THEN Goto(p, Opened(f)) ELSE Return(p, FALSE)
        \/ /\ At(p, "move_contents_native", "next")
           /\ \/ \E name \in Unread(f) :
                    Goto(p, Entry(f, name, "rename")) /\ UNCHANGED <<fs, faults>>
              \/ \E o \in EndOfDirectory(f) : Took(o) /\ Return(p, TRUE)

move_contents(p) ==
    \/ /\ At(p, "move_contents", "call")
       /\ CallNative(p, Frame("move_contents_native", "src", Top(p).src, Top(p).dst),
                     [Top(p) EXCEPT !.at = "moved"])
       /\ UNCHANGED <<fs, faults>>
    \/ /\ At(p, "move_contents", "moved")
       /\ Answer(p, ret[p], {})
       /\ UNCHANGED <<fs, faults>>

-----------------------------------------------------------------------------
\* tree_dir: the paths below a directory, links to directories gone into.
argon_tree_directory_native(p) ==
    LET f == Top(p)
    IN  \/ /\ At(p, "tree_directory_native", "opendir")
           /\ \E o \in Opendir(f.src) :
                 /\ Took(o)
                 /\ IF o.err = "" THEN Goto(p, Opened(f)) ELSE Return(p, FALSE)
        \/ /\ At(p, "tree_directory_native", "next")
           /\ \/ \E name \in Unread(f) :
                    /\ stack' = [stack EXCEPT ![p] =
                                    <<Entry(f, name, "isdir")>> \o Tail(@)]
                    /\ items' = [items EXCEPT ![p] = @ \cup {Append(f.src, name)}]
                    /\ UNCHANGED <<start, todo, done, ret, fs, faults>>
              \/ \E o \in EndOfDirectory(f) : Took(o) /\ Return(p, TRUE)
        \/ /\ At(p, "tree_directory_native", "isdir")
           /\ \E s \in Stat(Source(f)) :
                 /\ Took(s)
                 /\ IF argon_is_directory(s)
                    THEN CallNative(p, Frame("tree_directory_native", "opendir",
                                             Source(f), Source(f)),
                                    [f EXCEPT !.at = "listed"])
                    ELSE Goto(p, [f EXCEPT !.at = "next"])
        \/ /\ At(p, "tree_directory_native", "listed")
           /\ IF ret[p] THEN Goto(p, [f EXCEPT !.at = "next"])
              ELSE Return(p, FALSE)
           /\ UNCHANGED <<fs, faults>>

tree_dir(p) ==
    \/ /\ At(p, "tree_dir", "stat")
       /\ \E s \in Stat(Top(p).src) :
             /\ Took(s)
             /\ IF argon_is_directory(s)
                THEN CallNative(p, Frame("tree_directory_native", "opendir",
                                         Top(p).src, Top(p).src),
                                [Top(p) EXCEPT !.at = "listed"])
                ELSE Answer(p, FALSE, {})
    \/ /\ At(p, "tree_dir", "listed")
       /\ Answer(p, ret[p], IF ret[p] THEN items[p] ELSE {})
       /\ UNCHANGED <<fs, faults>>

-----------------------------------------------------------------------------
\* mkdir makes one directory, mkdir_p one after the other from the first
\* name on; a directory that is there already will do.
Made(p) ==
    LET f == Top(p)
    IN  IF f.pos = Len(f.src) THEN Answer(p, TRUE, {})
        ELSE Goto(p, [f EXCEPT !.pos = @ + 1, !.at = "make"])

Making(p, at) == At(p, "mkdir", at) \/ At(p, "mkdir_p", at)

Make(p) ==
    /\ Making(p, "make")
    /\ \E o \in Try("mkdir", sys_mkdir(fs, SubSeq(Top(p).src, 1, Top(p).pos))) :
          /\ Took(o)
          /\ IF o.err = "" THEN Made(p) ELSE Goto(p, [Top(p) EXCEPT !.at = "stat"])

AlreadyThere(p) ==
    /\ Making(p, "stat")
    /\ \E s \in Stat(SubSeq(Top(p).src, 1, Top(p).pos)) :
          /\ Took(s)
          /\ IF argon_is_directory(s) THEN Made(p) ELSE Answer(p, FALSE, {})

-----------------------------------------------------------------------------
\* Temporary entries: the pattern lies in the temporary directory unless it
\* is absolute (here: begins with "/"); a name "*" stands for a random one.
argon_get_temp_directory ==
    CASE start.env.TMPDIR # <<>> -> start.env.TMPDIR
      [] start.env.TMPDIR = <<>> /\ start.env.TMP # <<>> -> start.env.TMP
      [] OTHER -> <<"tmp">>

argon_path_is_absolute(pattern) == Head(pattern) = "/"

\* The random characters; a failure to get them goes unnoticed.
argon_temp_fill_random == Random

argon_temp_make_candidate(pattern) ==
    IF Last(pattern) = "*"
    THEN {Append(Front(pattern), r) : r \in argon_temp_fill_random}
    ELSE {pattern}

argon_temp_join_path(directory, pattern) ==
    IF argon_path_is_absolute(pattern) THEN Tail(pattern)
    ELSE directory \o pattern

CreateTemp(fn, path) ==
    IF fn = "temp_file" THEN Try("create", sys_create(fs, path))
    ELSE Try("mkdir", sys_mkdir(fs, path))

Mut_NextAttempt_forgets(f) == f

NextAttempt(f) == [f EXCEPT !.pos = @ + 1]

Temporary(p, fn) ==
    /\ At(p, fn, "create")
    /\ LET f == Top(p)
       IN  IF f.pos = Attempts
           THEN Answer(p, FALSE, {}) /\ UNCHANGED <<fs, faults>>
           ELSE \E candidate \in argon_temp_make_candidate(f.src) :
                LET path == argon_temp_join_path(argon_get_temp_directory, candidate)
                IN  \E o \in CreateTemp(fn, path) :
                       /\ Took(o)
                       /\ CASE o.err = "" -> Answer(p, TRUE, {path})
                            [] o.err = "EEXIST" -> Goto(p, NextAttempt(f))
                            [] OTHER -> Answer(p, FALSE, {})

temp_file(p) == Temporary(p, "temp_file")
temp_dir(p) == Temporary(p, "temp_dir")

-----------------------------------------------------------------------------
\* What each call does first.
FirstStep ==
    [copy_file |-> "stat", copy_dir |-> "stat", delete_dir |-> "stat",
     delete_file |-> "stat", path_type |-> "stat", move |-> "rename",
     move_contents |-> "call", tree_dir |-> "stat", mkdir |-> "make",
     mkdir_p |-> "make", temp_file |-> "create", temp_dir |-> "create"]

TreeCalls == DOMAIN FirstStep

BeginTreeCall(p) ==
    /\ stack[p] = <<>> /\ todo[p] # <<>>
    /\ \E c \in Head(todo[p]) :
          /\ c.op \in TreeCalls
          /\ stack' = [stack EXCEPT ![p] = <<
                 [Frame(c.op, FirstStep[c.op], c.src, c.dst) EXCEPT
                     !.pos = IF c.op = "mkdir" THEN Len(c.src)
                             ELSE IF c.op = "mkdir_p" THEN 1 ELSE 0]>>]
    /\ todo' = [todo EXCEPT ![p] = Tail(@)]
    /\ items' = [items EXCEPT ![p] = {}]
    /\ UNCHANGED <<start, fs, faults, done, ret>>

TreeStep(p) ==
    \/ BeginTreeCall(p)
    \/ argon_copy_file_native(p) \/ argon_copy_directory_native(p)
    \/ argon_remove_directory_native(p) \/ argon_move_contents_native(p)
    \/ argon_tree_directory_native(p)
    \/ copy_file(p) \/ copy_dir(p) \/ delete_file(p) \/ delete_dir(p)
    \/ move(p) \/ move_contents(p) \/ tree_dir(p) \/ path_type(p)
    \/ Make(p) \/ AlreadyThere(p) \/ temp_file(p) \/ temp_dir(p)

=============================================================================
