------------------------------ MODULE MCPrograms -----------------------------
(***************************************************************************)
(* The texts of the programs that are translated and run: every leaf       *)
(* statement inside one, two and three constructs, each followed by an     *)
(* effect.                                                                 *)
(***************************************************************************)
a == [k |-> "effect", v |-> "a"]
b == [k |-> "effect", v |-> "b"]

Do(list) == [k |-> "do", body |-> list]

Leaf ==
  {a, [k |-> "let"], [k |-> "break"], [k |-> "continue"], [k |-> "return", value |-> a]}
    \cup {[k |-> "throw", v |-> v] : v \in {"E", "null", "StopIteration"}}

\* Every construct with a statement of S in one of its places.
Loops(S) == {[k |-> k, body |-> s] : k \in {"while", "for"}, s \in S}
Tries(S) ==
  {[k |-> "try", class |-> c, body |-> s, handler |-> b] :
     c \in {"Exception", "StopIteration"}, s \in S}
    \cup {[k |-> "try", class |-> "Exception", body |-> a, handler |-> s] : s \in S}
Ifs(S)   == {[k |-> "if", then |-> s, else |-> b] : s \in S}
Calls(S) ==
  {[k |-> "call", arg |-> s, body |-> b] : s \in S}
    \cup {[k |-> "call", arg |-> a, body |-> s] : s \in S}

Around(S) == Loops(S) \cup Tries(S) \cup Ifs(S) \cup Calls(S)

\* A statement of S that is not the last of its block.
Within(S) == {Do(<<s, b>>) : s \in S}

One   == Around({Do(<<s>>) : s \in Leaf} \cup {[k |-> "break"]})
Two   == Around(Within(One))
Three == Loops(Within(Two)) \cup Tries(Within(Two)) \cup Calls(Within(Two))

Small == {<<s, b>> : s \in One \cup Two} \cup {<<Do(<<s, a>>), b>> : s \in One}
Large == Small \cup {<<s, b>> : s \in Three} \cup {<<Do(<<s, a>>), b>> : s \in Two}
=============================================================================
