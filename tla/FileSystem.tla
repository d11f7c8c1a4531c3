----------------------------- MODULE FileSystem -----------------------------
(***************************************************************************)
(* The operating system's files, as far as src/stdlib/file/native/main.c   *)
(* calls for them (POSIX build).  Nothing here is code of the repository:  *)
(* every operator is a system call, a function from a file system and the  *)
(* call's arguments to an errno and the file system after it.              *)
(*                                                                         *)
(* A file system is a record: tree maps the path of every entry to what    *)
(* the entry is, data lists the contents of the inodes.  A path is the     *)
(* sequence of its names; the first one tells the device it is on.         *)
(***************************************************************************)
EXTENDS Naturals, Sequences, FiniteSets, SequencesExt, FiniteSetsExt

CONSTANTS
    PathMax     \* names in the longest path the system takes

ASSUME PathMaxAssumption == PathMax \in Nat \ {0}

Dir == [kind |-> "dir"]
Special == [kind |-> "special"]         \* a socket: it cannot be opened
FileOf(ino) == [kind |-> "file", ino |-> ino]
LinkTo(path) == [kind |-> "link", to |-> path]

\* A path that names nothing.
NoPath == <<"">>

-----------------------------------------------------------------------------
\* Lookup of a path: the first link on it is replaced by what it leads to,
\* and so on, for at most two links.
FollowOne(tree, path) ==
    LET links == {i \in 1..Len(path) : /\ SubSeq(path, 1, i) \in DOMAIN tree
                                       /\ tree[SubSeq(path, 1, i)].kind = "link"}
        i == Min(links)
    IN  IF links = {} THEN path
        ELSE tree[SubSeq(path, 1, i)].to \o SubSeq(path, i + 1, Len(path))

Follow(tree, path) == FollowOne(tree, FollowOne(tree, path))

Target(tree, path) ==
    IF Len(path) > PathMax THEN NoPath ELSE Follow(tree, path)

\* The entry itself: its last name is not followed.
Place(tree, path) ==
    IF path = <<>> \/ Len(path) > PathMax THEN NoPath
    ELSE Append(Follow(tree, Front(path)), Last(path))

IsDirAt(tree, at) == at \in DOMAIN tree /\ tree[at].kind = "dir"

Names(tree, at) ==
    {Last(path) : path \in {q \in DOMAIN tree : q # <<>> /\ Front(q) = at}}

Within(path, dir) == IsPrefix(dir, path)

\* stat: what a path leads to, "none" when it fails.
Kind(fs, path) ==
    LET at == Target(fs.tree, path)
    IN  IF at \notin DOMAIN fs.tree \/ fs.tree[at].kind = "link"
        THEN "none" ELSE fs.tree[at].kind

\* What a regular file holds.
Content(fs, path) == fs.data[fs.tree[Target(fs.tree, path)].ino]

-----------------------------------------------------------------------------
Done(fs) == [err |-> "", fs |-> fs]
Refused(err, fs) == [err |-> err, fs |-> fs]

\* What creates an entry at a path finds first.
CreateError(fs, path) ==
    LET at == Place(fs.tree, path)
    IN  IF Len(path) > PathMax THEN "ENAMETOOLONG"
        ELSE IF at \in DOMAIN fs.tree THEN "EEXIST"
        ELSE IF ~IsDirAt(fs.tree, Front(at)) THEN "ENOENT"
        ELSE ""

WithEntry(fs, path, entry) ==
    [fs EXCEPT !.tree = [q \in {Place(@, path)} |-> entry] @@ @]

sys_mkdir(fs, path) ==
    LET err == CreateError(fs, path)
    IN  IF err # "" THEN Refused(err, fs) ELSE Done(WithEntry(fs, path, Dir))

\* open with O_CREAT | O_EXCL: a new, empty inode, the last of fs.data.
sys_create(fs, path) ==
    LET err == CreateError(fs, path)
        new == WithEntry(fs, path, FileOf(Len(fs.data) + 1))
    IN  IF err # "" THEN Refused(err, fs)
        ELSE Done([new EXCEPT !.data = Append(@, <<>>)])

\* open with O_RDONLY; a directory may be opened, but not read.
sys_open(fs, path) ==
    CASE Kind(fs, path) = "none" -> Refused("ENOENT", fs)
      [] Kind(fs, path) = "special" -> Refused("ENXIO", fs)
      [] OTHER -> Done(fs)

Inode(fs, path) ==
    IF Kind(fs, path) = "file" THEN fs.tree[Target(fs.tree, path)].ino ELSE 0

Without(fs, at) ==
    [fs EXCEPT !.tree = [q \in DOMAIN @ \ {at} |-> @[q]]]

sys_unlink(fs, path) ==
    LET at == Place(fs.tree, path)
    IN  IF at \notin DOMAIN fs.tree THEN Refused("ENOENT", fs)
        ELSE IF IsDirAt(fs.tree, at) THEN Refused("EISDIR", fs)
        ELSE Done(Without(fs, at))

sys_rmdir(fs, path) ==
    LET at == Place(fs.tree, path)
    IN  IF at \notin DOMAIN fs.tree THEN Refused("ENOENT", fs)
        ELSE IF ~IsDirAt(fs.tree, at) THEN Refused("ENOTDIR", fs)
        ELSE IF Names(fs.tree, at) # {} THEN Refused("ENOTEMPTY", fs)
        ELSE Done(Without(fs, at))

\* The tree with what is at one place moved, with all below it, to another.
Moved(tree, from, to) ==
    LET kept == {q \in DOMAIN tree : ~Within(q, from) /\ q # to}
        gone == {q \in DOMAIN tree : Within(q, from)}
        New(q) == to \o SubSeq(q, Len(from) + 1, Len(q))
    IN  [q \in kept |-> tree[q]] @@
        [r \in {New(q) : q \in gone} |->
            tree[CHOOSE q \in gone : New(q) = r]]

sys_rename(fs, src, dst) ==
    LET from == Place(fs.tree, src)
        to == Place(fs.tree, dst)
    IN  CASE NoPath \in {from, to} -> Refused("ENAMETOOLONG", fs)
          [] ~(IsDirAt(fs.tree, Front(from)) /\ IsDirAt(fs.tree, Front(to)))
             -> Refused("ENOENT", fs)
          [] Head(from) # Head(to) -> Refused("EXDEV", fs)
          [] from \notin DOMAIN fs.tree -> Refused("ENOENT", fs)
          [] from = to -> Done(fs)
          [] Within(to, from) -> Refused("EINVAL", fs)
          [] Within(from, to) -> Refused("ENOTEMPTY", fs)
          [] to \in DOMAIN fs.tree /\ IsDirAt(fs.tree, from)
                /\ ~IsDirAt(fs.tree, to) -> Refused("ENOTDIR", fs)
          [] ~IsDirAt(fs.tree, from) /\ IsDirAt(fs.tree, to)
             -> Refused("EISDIR", fs)
          [] Names(fs.tree, to) # {} -> Refused("ENOTEMPTY", fs)
          [] OTHER -> Done([fs EXCEPT !.tree = Moved(@, from, to)])

\* write at the end of what an inode holds (a copy writes nothing else).
sys_append(fs, ino, bytes) == Done([fs EXCEPT !.data[ino] = @ \o bytes])

=============================================================================
