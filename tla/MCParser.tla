------------------------------ MODULE MCParser ------------------------------
(***************************************************************************)
(* Texts for the parser: each source begins with the tokens that lead to   *)
(* one of the functions and goes on with every sequence of a few pieces    *)
(* that the function tells apart.                                          *)
(***************************************************************************)
EXTENDS Parser

T(type) == Token(type, "")
a == Token("identifier", "a")
b == Token("identifier", "b")
one == T("number")
NL == T("new_line")
Width1 == [T("indent") EXCEPT !.width = 1]
Width2 == [T("indent") EXCEPT !.width = 2]
Width3 == [T("indent") EXCEPT !.width = 3]
NotUnquotable(type) == Token(type, "not unquotable")

Types(types) == {T(type) : type \in types}
Text(begin, pieces, more) == [begin |-> begin, pieces |-> pieces, more |-> more]

OperationTexts ==
  { Text(<<a>>, {a} \cup Types({"+", "*", "-", "(", ")"}), 5),
    Text(<<a, T("-"), a>>, {a} \cup Types({"+", "*", "=", "to", "!"}), 4),
    Text(<<a, T("?")>>, {a, NL} \cup Types({"?", ":", "+"}), 4),
    Text(<<a>>, {a, NL} \cup Types({".", "[", "]", ":", ","}), 4) }

ParameterTexts ==
  { Text(<<T("("), a>>, {b, one} \cup Types({",", "*", "=", ")"}), 5),
    Text(<<T("("), a>>, {a, b, NL} \cup Types({",", "?", ")"}), 4),
    Text(<<T("("), T("*"), a, T(",")>>, {a, b} \cup Types({"*", ",", "?", ")"}), 4),
    Text(<<T("let"), a>>, {b, one, NL} \cup Types({"(", ")", ",", "="}), 5),
    Text(<<a, T("("), b>>, {one} \cup Types({"*", ",", "?", ")", "=", "."}), 5) }

BlockTexts ==
  { Text(<<T("do"), NL, indent>>, {a, T("do"), NL, Width1, Width2}, 6)
      : indent \in {Width1, Width2, Width3} }
  \cup { Text(<<T("do"), NL, Width1, T("do"), NL, Width2, a, NL>>, {a, NL, Width1, Width2, Width3}, 4) }

CollectionTexts ==
  { Text(<<T("[")>>, {a, NL} \cup Types({",", "]", "["}), 4),
    Text(<<T("{")>>, {a, T("string"), NL} \cup Types({",", ":", "}"}), 5),
    Text(<<T("{"), one>>, {a, one, NL} \cup Types({",", ":", "}"}), 4),
    Text(<<T("let"), T("[")>>, {a, one, NL} \cup Types({",", "*", "]", "="}), 4),
    Text(<<T("let"), T("{")>>, {a, NL} \cup Types({",", ":", "*", "}", "[", "]"}), 4) }

StatementTexts ==
  { Text(<<T("if"), T("("), a, T(")")>>, {a, NL} \cup Types({"else", "else if", "(", ")"}), 5),
    Text(<<T("if"), T("(")>>, {a, NL, T(")")}, 4),
    Text(<<T("while")>>, {a, NL} \cup Types({"do", "(", ")"}), 4),
    Text(<<T("for"), T("(")>>, {a, NL} \cup Types({"in", ")", "["}), 5),
    Text(<<T("try")>>, {a, NL} \cup Types({"catch", "(", "as", ")"}), 5),
    Text(<<T("try"), a, T("catch"), T("("), a>>, {b, NL} \cup Types({"as", ")"}), 5),
    Text(<<T("class")>>, {a, b} \cup Types({"(", ")", "."}), 5),
    Text(<<T("import"), a>>, {b, NL} \cup Types({"as", "expose", "*", ","}), 5) }
  \cup { Text(<<T(statement)>>, {a, one, NL} \cup Types({".", "-"}), 3)
           : statement \in {"return", "throw", "delete", "continue", "break"} }

TemplateTexts ==
  { Text(<<T("backtick")>>,
         {a, T("text"), NotUnquotable("text")} \cup Types({"backtick", "$(", "(", ")"}), 5),
    Text(<<a, T("backtick"), T("$(")>>, {a} \cup Types({"backtick", "$(", "(", ")"}), 4),
    Text(<<>>, {NotUnquotable("string"), T("string"), NL, Width1}, 3) }

MCSources ==
  OperationTexts \cup ParameterTexts \cup BlockTexts \cup CollectionTexts \cup StatementTexts
  \cup TemplateTexts
=============================================================================
