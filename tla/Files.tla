-------------------------------- MODULE Files --------------------------------
(***************************************************************************)
(* The file module as programs use it: processes that call the functions   *)
(* of FileTree and work on an open File of FileStream, on one file system. *)
(*                                                                         *)
(* A scene says how it begins: the files, for each process the sequence of *)
(* its calls (a set of calls where it may choose), the system calls that   *)
(* may fail and the environment's temporary directories.                   *)
(***************************************************************************)
EXTENDS FileStream

CONSTANTS
    Scenes,         \* the ways it may begin
    MaxFaults       \* failures of system calls in one behaviour

\* A scene gives every process its calls.
ASSUME ScenesAssumption == \A scene \in Scenes : DOMAIN scene.calls = Procs

vars == <<treeVars, streamVars>>

Init ==
    /\ \E scene \in Scenes :
          /\ start = [fs |-> scene.fs, mayFail |-> scene.mayFail, env |-> scene.env]
          /\ todo = scene.calls
    /\ fs = start.fs
    /\ faults = IF start.mayFail = {} THEN 0 ELSE MaxFaults
    /\ done = [p \in Procs |-> <<>>]
    /\ stack = [p \in Procs |-> <<>>]
    /\ ret = [p \in Procs |-> FALSE]
    /\ items = [p \in Procs |-> {}]
    /\ handle = [p \in Procs |-> NoFile]

Step(p) ==
    \/ TreeStep(p) /\ UNCHANGED handle
    \/ StreamStep(p)

Over(p) == stack[p] = <<>> /\ todo[p] = <<>>

\* Every program has ended.
AllOver == (\A p \in Procs : Over(p)) /\ UNCHANGED vars

Next == (\E p \in Procs : Step(p)) \/ AllOver

Spec == Init /\ [][Next]_vars

\* A process goes on: no call waits for another process.
FairSpec == Spec /\ \A p \in Procs : WF_vars(Step(p))

-----------------------------------------------------------------------------
\* What there is below a path, as stat shows it: links are gone into.
AllBelow(f, path) ==
    LET below[n \in 0..PathMax] ==
            IF n = 0 THEN {<<>>}
            ELSE UNION {{Append(r, name) : name \in Names(f.tree, Target(f.tree, path \o r))} :
                           r \in {s \in below[n - 1] : Kind(f, path \o s) = "dir"}}
    IN  UNION {below[n] : n \in 0..PathMax}

View(f, path) ==
    [r \in {s \in AllBelow(f, path) : Kind(f, path \o s) \in {"dir", "file"}} |->
        <<Kind(f, path \o r),
          IF Kind(f, path \o r) = "file" THEN Content(f, path \o r) ELSE <<>>>>]

Reached(f, path) == {Target(f.tree, path \o r) : r \in AllBelow(f, path)}

Covers(big, small) ==
    \A r \in DOMAIN small : r \in DOMAIN big /\ big[r] = small[r]

\* The entries of the beginning that are there, unchanged, out of a set.
Kept(paths) ==
    \A q \in DOMAIN start.fs.tree \cap paths :
       /\ q \in DOMAIN fs.tree
       /\ fs.tree[q] = start.fs.tree[q]
       /\ fs.tree[q].kind = "file" =>
             fs.data[fs.tree[q].ino] = start.fs.data[fs.tree[q].ino]

Everything == DOMAIN start.fs.tree

\* The calls a process has made.
CallsOf(p) ==
    {[op |-> done[p][i].op, src |-> done[p][i].src, dst |-> done[p][i].dst] :
        i \in DOMAIN done[p]}
    \cup {[op |-> Last(s).fn, src |-> Last(s).src, dst |-> Last(s).dst] :
             s \in {stack[p]} \ {<<>>}}
Alone(p) == \A q \in Procs \ {p} : Over(q) /\ done[q] = <<>>

Before(path) == View(start.fs, path)
Now(path) == View(fs, path)

-----------------------------------------------------------------------------
\* What a finished call means, for a program that is alone with it.  The
\* removal of a copy that failed is taken to succeed.
CopyPromise(c) ==
    /\ Kept(Everything)
    /\ c.ok => Covers(Now(c.dst), Before(c.src))
    /\ ~c.ok /\ c.op = "copy_file" => fs.tree = start.fs.tree

Under(path) == {q \in Everything : Within(q, Place(start.fs.tree, path))}
Outside(path) == Everything \ Under(path)

MovedWhole(src, dst) == Covers(Now(dst), Before(src))

MovePromise(c) ==
    /\ Kept(Everything \ (Reached(start.fs, c.src) \cup Under(c.src)
                          \cup Under(c.dst)))
    /\ c.ok => /\ MovedWhole(c.src, c.dst)
               /\ Place(fs.tree, c.src) \notin DOMAIN fs.tree \/ c.src = c.dst
    /\ ~c.ok => Now(c.src) = Before(c.src) \/ MovedWhole(c.src, c.dst)

MoveContentsPromise(c) ==
    /\ c.ok => Names(fs.tree, Target(fs.tree, c.src)) = {} \/ c.src = c.dst
    /\ \A name \in Names(start.fs.tree, Target(start.fs.tree, c.src)) :
          LET from == Append(c.src, name)
              to == Append(c.dst, name)
          IN  \/ ~c.ok /\ Now(from) = Before(from)
              \/ MovedWhole(from, to)

DeletePromise(c) ==
    /\ Kept(Everything \ (Reached(start.fs, c.src) \cup {Place(start.fs.tree, c.src)}))
    /\ c.ok => Kept(Outside(c.src)) /\ Place(fs.tree, c.src) \notin DOMAIN fs.tree

MakePromise(c) == Kept(Everything) /\ (c.ok => Kind(fs, c.src) = "dir")

ListPromise(c) ==
    /\ Kept(Everything)
    /\ c.op = "tree_dir" /\ c.ok =>
          c.value = {c.src \o r : r \in AllBelow(fs, c.src) \ {<<>>}}
    /\ c.op = "path_type" => c.value = {<<Kind(fs, c.src)>>}

Promise(c) ==
    CASE c.op \in {"copy_file", "copy_dir"} -> CopyPromise(c)
      [] c.op = "move" -> MovePromise(c)
      [] c.op = "move_contents" -> MoveContentsPromise(c)
      [] c.op \in {"delete_file", "delete_dir"} -> DeletePromise(c)
      [] c.op \in {"mkdir", "mkdir_p"} -> MakePromise(c)
      [] c.op \in {"tree_dir", "path_type"} -> ListPromise(c)
      [] OTHER -> TRUE

\* A temporary entry is there since this call and no other was given it.
Temporaries ==
    {t \in Procs \X (1..2) :
        LET d == done[t[1]]
            i == t[2]
        IN  i \in DOMAIN d /\ d[i].op \in {"temp_file", "temp_dir"} /\ d[i].ok}

TemporaryIsNew ==
    /\ \A t \in Temporaries : done[t[1]][t[2]].value \cap Everything = {}
    /\ \A t, u \in Temporaries :
          t # u => done[t[1]][t[2]].value \cap done[u[1]][u[2]].value = {}

\* Of the calls of a program since its last open, when all succeeded.
LastOpen(d) ==
    LET opened == {i \in DOMAIN d : d[i].op = "open" /\ d[i].ok}
    IN  IF opened = {} THEN 0 ELSE CHOOSE i \in opened : \A j \in opened : j <= i

Wrote(d) ==
    FlattenSeq([i \in 1..(Len(d) - LastOpen(d)) |->
        IF d[LastOpen(d) + i].op = "write" THEN d[LastOpen(d) + i].src ELSE <<>>])

WrittenWhenClosed(p) ==
    LET d == done[p]
        o == LastOpen(d)
    IN  /\ o # 0 /\ Last(d).op \in {"close", "flush"}
        /\ d[o].dst[1] \in {"w", "a"}
        /\ \A i \in o..Len(d) : d[i].ok /\ d[i].op # "seek"
        => fs.data[handle[p].ino] =
              (IF d[o].dst[1] = "a" /\ handle[p].ino \in DOMAIN start.fs.data
               THEN start.fs.data[handle[p].ino] ELSE <<>>)
              \o Wrote(d)

\* A stat or a readdir that fails is not told from an entry of no interest
\* or from the end of the directory.
Unseen == {"stat", "readdir"}

\* What a call answers is so.  A program alone with its call: a copy that
\* succeeds is complete and touches nothing that was there, one of a file
\* that fails leaves no trace; what is moved is whole at one of the two
\* places; a deletion changes nothing but what the path leads to, and when it
\* succeeds nothing but what lies below it; a directory reported made is
\* there; a listing is complete.  Programs together: a temporary entry is
\* new, and given to one of them; what was written without an error and
\* flushed or closed is in the file.  But for failures of stat and readdir,
\* which copying, moving and listing do not notice, and for what is neither
\* file nor directory, which is not copied.
OkMeansDoneBut ==
    /\ \A p \in Procs :
          Alone(p) /\ Over(p) /\ Len(done[p]) = 1
             /\ start.mayFail \cap Unseen = {}
          => Promise(done[p][1])
    /\ TemporaryIsNew
    /\ \A p \in Procs : done[p] # <<>> => WrittenWhenClosed(p)

-----------------------------------------------------------------------------
Moves == {"move", "move_contents"}
Deletes == {"delete_file", "delete_dir"}

\* The files a call is asked to do away with: to delete, to write, or to put
\* another in the place of by a rename.
Expendable(c) ==
    CASE c.op \in Deletes -> Reached(start.fs, c.src)
      [] c.op = "open" -> {Target(start.fs.tree, c.src)}
      [] c.op = "move" -> {Place(start.fs.tree, c.dst)}
      [] c.op = "move_contents"
         -> {q \in Everything : Within(q, Target(start.fs.tree, c.dst))}
      [] OTHER -> {}

\* One process puts the file where another one moves, copies or deletes.
Crossing(q) ==
    \E p1, p2 \in Procs : \E c1 \in CallsOf(p1), c2 \in CallsOf(p2) :
       /\ p1 # p2 /\ c1.op \in Moves /\ Within(q, c1.src)
       /\ \/ c2.op \in Moves \cup Deletes /\ Within(c1.dst, c2.src)
          \/ c2.op \in Moves \cup {"copy_file", "copy_dir"} /\ Within(c1.dst, c2.dst)

\* No file is lost, wherever the processes stand and whichever system calls
\* failed (so a crash at that point loses none either): what a file held at
\* the beginning some path leads to, unless a call was asked to do away with
\* it.  But for a move across devices that does not notice a failure of stat
\* or readdir (what it did not copy is removed), and one whose directories
\* another process uses at the same time.
NothingLostBut ==
    \A q \in Everything :
       start.fs.tree[q].kind = "file" =>
          \/ \E r \in DOMAIN fs.tree :
                /\ fs.tree[r].kind = "file"
                /\ fs.data[fs.tree[r].ino] = start.fs.data[start.fs.tree[q].ino]
          \/ \E p \in Procs : \E c \in CallsOf(p) :
                \/ q \in Expendable(c)
                \/ c.op \in Moves /\ start.mayFail \cap Unseen # {}
          \/ Crossing(q)

\* A FILE is used after it is closed only when its closing had failed, and a
\* NULL one only when /dev/null could not be opened.
OnlyFailedCloseDangles ==
    \A p \in Procs : handle[p].gone =>
       LET d == done[p]
       IN  \/ \E i \in (LastOpen(d) + 1)..Len(d) : d[i].op = "close" /\ ~d[i].ok
           \/ handle[p].type = "NULL" /\ handle[p].fp = "null"

\* Every call returns and every program ends: the copy of a directory into
\* itself at the longest path, a temporary name that is taken after the last
\* attempt.
EveryCallReturns == <>(\A p \in Procs : Over(p))

=============================================================================
