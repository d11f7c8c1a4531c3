------------------------------- MODULE MCFiles -------------------------------
(***************************************************************************)
(* Files for TLC: three devices (a, b and tmp), two processes, and the     *)
(* scenes they begin in.                                                   *)
(***************************************************************************)
EXTENDS Files

Node(names, kind) == names :> kind
Devices ==
    Node(<<>>, Dir) @@ Node(<<"a">>, Dir) @@ Node(<<"b">>, Dir)
    @@ Node(<<"tmp">>, Dir)

\* Two files in a directory, one of two blocks, and what may be in the way.
Plain ==
    [tree |-> Devices
        @@ Node(<<"a", "s">>, Dir) @@ Node(<<"a", "s", "f">>, FileOf(1))
        @@ Node(<<"a", "s", "d">>, Dir) @@ Node(<<"a", "s", "d", "g">>, FileOf(2))
        @@ Node(<<"a", "x">>, FileOf(3)) @@ Node(<<"b", "y">>, FileOf(4))
        @@ Node(<<"b", "e">>, Dir) @@ Node(<<"b", "t">>, Dir)
        @@ Node(<<"b", "t", "f">>, FileOf(5)),
     data |-> <<<<"1", "2">>, <<"3">>, <<"4">>, <<"5">>, <<"6">>>>]

\* A socket, and links to a directory, to a file and to nothing.
Odd ==
    [tree |-> Devices
        @@ Node(<<"a", "s">>, Dir) @@ Node(<<"a", "s", "f">>, FileOf(1))
        @@ Node(<<"a", "s", "p">>, Special)
        @@ Node(<<"a", "s", "l">>, LinkTo(<<"b", "o">>))
        @@ Node(<<"b", "o">>, Dir) @@ Node(<<"b", "o", "h">>, FileOf(2))
        @@ Node(<<"a", "k">>, LinkTo(<<"a", "x">>)) @@ Node(<<"a", "x">>, FileOf(3))
        @@ Node(<<"a", "z">>, LinkTo(<<"a", "none">>))
        @@ Node(<<"b", "t">>, Dir),
     data |-> <<<<"1">>, <<"2">>, <<"3">>>>]

Call(op, src, dst) == [op |-> op, src |-> src, dst |-> dst]
Calling(op, srcs, dsts) == {Call(op, src, dst) : src \in srcs, dst \in dsts}

NoEnv == [TMPDIR |-> <<>>, TMP |-> <<>>]
Scene(files, mine, theirs, mayFail) ==
    [fs |-> files, calls |-> [p |-> mine, q |-> theirs], mayFail |-> mayFail,
     env |-> NoEnv]

Faults == {"open", "create", "write", "close", "mkdir", "opendir", "unlink",
           "rmdir", "rename"}

\* Each call alone, on files and directories, with what may be in its way.
Relocating == {"copy_file", "copy_dir", "move", "move_contents"}
Places == {<<"a", "n">>, <<"b", "n">>, <<"b", "t">>, <<"b", "e">>, <<"b", "y">>,
           <<"a", "x">>, <<"a", "s", "d", "n">>, <<"b", "none", "n">>}
OneCall ==
    {Scene(Plain, <<UNION {Calling(op, {<<"a", "s">>, <<"a", "x">>, <<"b", "t">>}, Places) :
                              op \in Relocating}>>, <<>>, mayFail) :
        mayFail \in {{}, Faults}}
    \cup {Scene(Odd, <<UNION {Calling(op, {<<"a", "s">>, <<"a", "k">>, <<"a", "z">>},
                                      {<<"b", "n">>, <<"b", "t">>}) : op \in Relocating}>>,
                <<>>, mayFail) : mayFail \in {{}, Faults, Unseen}}
    \cup {Scene(files, <<UNION {Calling(op, {<<"a", "s">>, <<"a", "x">>, <<"a", "k">>,
                                             <<"a", "s", "f", "n">>, <<"a", "n", "m">>}, {<<>>}) :
                   op \in Deletes \cup {"tree_dir", "path_type", "mkdir", "mkdir_p"}}>>,
                <<>>, mayFail) : files \in {Plain, Odd}, mayFail \in {{}, Faults, Unseen}}

\* Two processes at work on the same directories.
TwoCalls ==
    {Scene(Plain, <<{Call(op, <<"a", "s">>, <<"b", "n">>)}>>,
           <<{Call("copy_file", <<"b", "y">>, <<"b", "n", "f">>),
              Call("copy_file", <<"a", "x">>, <<"a", "s", "n">>),
              Call("move", <<"a", "x">>, <<"a", "s", "n">>),
              Call("delete_file", <<"a", "s", "f">>, <<>>),
              Call("mkdir_p", <<"b", "n", "d">>, <<>>),
              Call("tree_dir", <<"a", "s">>, <<>>)}>>, mayFail) :
        op \in {"copy_dir", "move"}, mayFail \in {{}, {"write"}}}
    \cup {Scene(Plain, <<{Call("move_contents", <<"a", "s">>, <<"b", "t">>)}>>,
                <<{Call("delete_file", <<"b", "t", "f">>, <<>>),
                   Call("delete_dir", <<"a", "s", "d">>, <<>>),
                   Call("move_contents", <<"a", "s">>, <<"b", "e">>)}>>, {})}
    \cup {Scene(Plain, <<{Call("mkdir_p", <<"a", "n", "m">>, <<>>)}>>,
                <<{Call("mkdir_p", <<"a", "n", "m">>, <<>>),
                   Call("copy_file", <<"a", "x">>, <<"a", "n">>)}>>, {})}

\* Temporary names asked for by two processes.
Patterns == {<<"n">>, <<"*">>, <<"/", "a", "*">>, <<"none", "*">>}
Temporary2 == UNION {Calling(op, Patterns, {<<>>}) : op \in {"temp_file", "temp_dir"}}
Temporarily ==
    {[Scene([Plain EXCEPT !.tree = Node(<<"tmp", "n1">>, Dir) @@ @],
            <<Temporary2>>, <<Temporary2>>, {}) EXCEPT !.env = env] :
        env \in {NoEnv, [TMPDIR |-> <<>>, TMP |-> <<"b", "e">>],
                 [TMPDIR |-> <<"a">>, TMP |-> <<"b", "e">>]}}

\* An open file, which another process may move.
Open(path, modes) == {Call("open", path, mode) : mode \in modes}
Simple == {Call(op, <<>>, <<>>) : op \in {"read", "read_all", "close", "flush"}}
          \cup {Call("write", <<"w">>, <<>>)}
Every == Simple \cup {Call(op, <<>>, <<>>) : op \in {"seek", "tell", "size"}}
Standard == {Call(op, <<>>, <<>>) : op \in {"stdin", "stdout", "stdnull"}}
Opening ==
    {Scene(Plain, <<Open(<<"a", "x">>, {<<"w">>, <<"a", "b">>, <<"r", "+">>}),
                    Simple, Simple, Simple, {Call("close", <<>>, <<>>)}>>,
           <<{Call("move", <<"a", "x">>, <<"b", "n">>)}>>, {}),
     Scene(Plain, <<Open(<<"a", "x">>, {<<"w">>, <<"a">>, <<"r", "+">>}),
                    Every, Every, {Call("close", <<>>, <<>>)}, Simple>>,
           <<>>, {"write", "close", "fstat", "seek"}),
     Scene(Odd, <<UNION {Open(path, {<<"r">>, <<"w", "+">>, <<"x">>, <<>>, <<"r", "b", "b">>}) :
                     path \in {<<"a", "n">>, <<"a", "k">>, <<"a", "s">>, <<"a", "s", "p">>}},
                  Every, Every>>, <<>>, {"open", "fstat"}),
     Scene(Plain, <<Standard, Every, Every>>, <<>>, {"open"})}

MCScenes == OneCall \cup TwoCalls \cup Temporarily \cup Opening
MCProcs == {"p", "q"}
MCOffsets == {-1, 0, 2}

=============================================================================
