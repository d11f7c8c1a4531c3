------------------------------- MODULE Parser -------------------------------
(***************************************************************************)
(* The lexer (src/src/lexer) and the parser (src/src/parser): from a text  *)
(* to the tree the translator reads.  parse_x(t, i) is the function of     *)
(* that name on the tokens t from index i: it gives [err, value, index].   *)
(* An err is the exception, "exit" where darray_get is asked for a token   *)
(* past the end (it ends the process), or "undefined" where the code       *)
(* reads memory it has freed or takes a node for another type.  A token    *)
(* keeps its place in the text, at, and a node the tokens its leaves come  *)
(* from; the texts of strings are left out, but for whether they unquote.  *)
(***************************************************************************)
EXTENDS Integers, Sequences, FiniteSets, SequencesExt

CONSTANTS
  Sources,            \* texts: [begin |-> pieces, pieces |-> more of them, more |-> at most]
  TEMPLATE_STACK_MAX  \* nesting of templates

Operations == <<"^", "*", "/", "//", "%", "-", "+", "<", ">", "<=", ">=", "==", "!=",
                "not in", "in", "&&", "||">>   \* in the order of ArTokenType
SWITCH_OPERATIONS == Range(Operations)
Assignments == {"=", "+=", "-=", "*=", "/=", "//=", "%=", "^="}
Layout == {"new_line", "indent"}
Words == {"identifier", "number", "string", "true", "false", "null", "template_text"}

-----------------------------------------------------------------------------
(* Results and nodes *)

NULL == [type |-> "NULL"]

Ok(v, i) == [err |-> "none", value |-> v, index |-> i]
Err(e) == [err |-> e, value |-> NULL, index |-> 0]
SyntaxError == Err("SyntaxError")

Then(r, F(_, _)) == IF r.err # "none" THEN r ELSE F(r.value, r.index)
\* A parse that must give a value.
Value(r, F(_, _)) ==
  CASE r.err # "none" -> r
    [] r.err = "none" /\ r.value.type = "NULL" -> SyntaxError
    [] OTHER -> F(r.value, r.index)

Is(t, i, type) == i <= Len(t) /\ t[i].type = type

\* error_if_finished, then a token of that type.
Expect(t, i, type, r) == IF Is(t, i, type) THEN r ELSE SyntaxError
error_if_finished(t, i, r) == IF i > Len(t) THEN SyntaxError ELSE r
\* darray_get without error_if_finished before it.
darray_get(t, i, r) == IF i > Len(t) THEN Err("exit") ELSE r

skip_newlines_and_indents(t, i) ==
  CHOOSE j \in i .. (IF i > Len(t) THEN i ELSE Len(t) + 1) :
    /\ \A k \in i .. j - 1 : t[k].type \in Layout
    /\ j > Len(t) \/ t[j].type \notin Layout

\* skip_newlines_and_indents, then error_if_finished.
SkipTo(t, i, F(_)) ==
  LET j == skip_newlines_and_indents(t, i) IN error_if_finished(t, j, F(j))

Node(type, tag, at, kids) == [type |-> type, tag |-> tag, at |-> at, kids |-> kids]
Leaf(token) == Node(token.type, token.name, token.at, <<>>)
parse_null == Node("null", "", 0, <<>>)
Given(v) == IF v.type = "NULL" THEN <<>> ELSE <<v>>

\* A parameter with a default value or a keyword argument: its name and its value.
Pair(name, v) == Node("pair", "", 0, <<name, v>>)

create_parsed_function(name, ps, body) ==
  Node("function",
       [name |-> name, parameters |-> [k \in DOMAIN ps.positional |-> ps.positional[k].tag],
        defaults |-> [k \in DOMAIN ps.defaults |-> ps.defaults[k].kids[1].tag],
        v_parameter |-> [k \in DOMAIN ps.v |-> ps.v[k].tag],
        kw_parameter |-> [k \in DOMAIN ps.kw |-> ps.kw[k].tag]],
       0, ps.positional \o ps.defaults \o ps.v \o ps.kw \o <<body>>)

parse_string(token, to_unquote) ==
  IF to_unquote /\ token.name = "not unquotable" THEN Err("InternalError")
  ELSE Ok(Node("string", token.name, token.at, <<>>), 0)

-----------------------------------------------------------------------------
\* The functions call one another.
RECURSIVE
  convert_to_operation(_, _), parse_operations(_, _, _, _), parse_negation(_, _),
  parse_not(_, _), parse_conditional_expression(_, _, _), parse_range(_, _, _),
  ParamEnd(_, _, _), StarParam(_, _, _), NamedParam(_, _, _), parse_param_list(_, _, _),
  ArgEnd(_, _, _), StarArg(_, _, _), KeywordArg(_, _, _), PositionalArg(_, _, _),
  parse_arg_list(_, _, _), parse_call(_, _, _), parse_assign(_, _, _), parse_subscript(_, _, _),
  ItemAccess(_, _, _), parse_item_access(_, _, _), ArrayItems(_, _, _), parse_array(_, _),
  EntryEnd(_, _, _), DictionaryEntries(_, _, _), parse_dictionary(_, _), AnonymousFunction(_, _),
  ParenthesisedItems(_, _, _), parse_parentheses(_, _), TemplateValues(_, _, _),
  parse_template(_, _, _), DestructureRest(_, _, _, _), DestructureEnd(_, _, _, _),
  DestructureKey(_, _, _), DestructureItems(_, _, _, _), parse_destructure(_, _),
  Condition(_, _), parse_while(_, _), Branch(_, _, _, _), Branches(_, _, _), parse_if(_, _),
  parse_for(_, _), CatchHead(_, _), parse_try(_, _), parse_class(_, _), Exposed(_, _, _),
  parse_import(_, _), parse_throw(_, _), parse_return(_, _), parse_delete(_, _),
  DeclarationEnd(_, _, _), DeclarationBody(_, _, _, _, _), Declarations(_, _, _),
  parse_declaration(_, _), parse_dowrap(_, _), Statement(_, _), First(_, _), Postfix(_, _, _),
  parse_token_full(_, _, _, _), parser(_, _)

parse_token(t, i, inline) == parse_token_full(t, i, inline, TRUE)

-----------------------------------------------------------------------------
(* Operations *)

Rank(op) == CHOOSE k \in DOMAIN Operations : Operations[k] = op
Mut_Loosest_tightest(ops) == CHOOSE op \in Range(ops) : \A o \in Range(ops) : Rank(o) >= Rank(op)
Loosest(ops) == CHOOSE op \in Range(ops) : \A o \in Range(ops) : Rank(o) <= Rank(op)

convert_to_operation(vals, ops) ==
  IF Len(vals) = 1 THEN vals[1] ELSE
  LET operation == Loosest(ops)
      positions == SelectSeq([k \in DOMAIN ops |-> k], LAMBDA k : ops[k] = operation)
      cuts == <<0>> \o positions \o <<Len(vals)>>
  IN Node("operation", operation, 0,
          [k \in 1 .. Len(cuts) - 1 |->
             convert_to_operation(SubSeq(vals, cuts[k] + 1, cuts[k + 1]),
                                  SubSeq(ops, cuts[k] + 1, cuts[k + 1] - 1))])

parse_operations(t, i, vals, ops) ==
  IF i > Len(t) \/ t[i].type \notin SWITCH_OPERATIONS
    THEN Ok(convert_to_operation(vals, ops), i)
    ELSE SkipTo(t, i + 1, LAMBDA s :
           Value(parse_token_full(t, s, TRUE, FALSE), LAMBDA v, j :
             parse_operations(t, j, Append(vals, v), Append(ops, t[i].type))))

parse_negation(t, i) ==
  darray_get(t, i + 1,
    Value(parse_token_full(t, i + 1, TRUE, FALSE), LAMBDA v, j :
      Ok(IF v.type = "number" THEN v ELSE Node("negation", "", t[i].at, <<v>>), j)))

parse_not(t, i) ==
  LET j == CHOOSE k \in i + 1 .. Len(t) + 1 :
             (\A l \in i .. k - 1 : t[l].type = "!") /\ ~Is(t, k, "!")
  IN error_if_finished(t, j,
       Value(parse_token_full(t, j, TRUE, FALSE), LAMBDA v, k :
         Ok(Node("to_bool", (j - i) % 2 = 1, t[i].at, <<v>>), k)))

parse_conditional_expression(t, i, condition) ==
  darray_get(t, i + 1,
    Value(parse_token(t, i + 1, TRUE), LAMBDA true_body, j :
      darray_get(t, j, Expect(t, j, ":",
        Value(parse_token(t, j + 1, TRUE), LAMBDA false_body, k :
          Ok(Node("conditional", "", 0, <<condition, true_body, false_body>>), k))))))

parse_range(t, i, start) ==
  error_if_finished(t, i + 1,
    Value(parse_token(t, i + 1, TRUE), LAMBDA stop, j :
      Ok(Node("range", t[i].type, 0, <<start, stop>>), j)))

-----------------------------------------------------------------------------
(* Parameters of a declaration or an anonymous function.  A list of at most *)
(* one node stands for a pointer that may be NULL.                          *)

param_state_init ==
  [type |-> "params", seen |-> {}, positional |-> <<>>, defaults |-> <<>>,
   v |-> <<>>, kw |-> <<>>, stage |-> 0]

\* The comma or the parenthesis after a parameter.
ParamEnd(t, i, ps) ==
  CASE Is(t, i, ")") -> Ok(ps, i + 1)
    [] Is(t, i, ",") -> error_if_finished(t, i + 1, parse_param_list(t, i + 1, ps))
    [] OTHER -> SyntaxError

StarParam(t, i, ps) ==
  LET kw == Is(t, i + 1, "*")
      n == IF kw THEN i + 2 ELSE i + 1
      After(q) == SkipTo(t, n + 1, LAMBDA u : ParamEnd(t, u, q))
  IN IF (IF kw THEN ps.kw # <<>> ELSE ps.stage >= 2) \/ ~Is(t, n, "identifier")
          \/ t[n].name \in ps.seen
       THEN SyntaxError
     ELSE IF kw THEN After([ps EXCEPT !.kw = <<Leaf(t[n])>>, !.stage = 3])
     ELSE After([ps EXCEPT !.v = <<Leaf(t[n])>>, !.stage = 2])

NamedParam(t, i, ps) ==
  LET name == Leaf(t[i])
      seen == [ps EXCEPT !.seen = @ \cup {name.tag}]
      WithDefault(v) == [seen EXCEPT !.defaults = Append(@, Pair(name, v)), !.stage = 1]
  IN IF ps.stage = 3 \/ name.tag \in ps.seen THEN SyntaxError ELSE
     SkipTo(t, i + 1, LAMBDA u :
       CASE t[u].type = "?" ->
              IF ps.stage >= 2 THEN SyntaxError
              ELSE darray_get(t, u + 1, ParamEnd(t, u + 1, WithDefault(parse_null)))
         [] t[u].type = "=" ->
              IF ps.stage = 2 THEN SyntaxError
              ELSE SkipTo(t, u + 1, LAMBDA w :
                     Value(parse_token(t, w, TRUE), LAMBDA v, j :
                       SkipTo(t, j, LAMBDA x : ParamEnd(t, x, WithDefault(v)))))
         [] OTHER ->
              IF ps.stage >= 1 THEN SyntaxError
              ELSE ParamEnd(t, u, [seen EXCEPT !.positional = Append(@, name)]))

parse_param_list(t, i, ps) ==
  SkipTo(t, i, LAMBDA s :
    CASE t[s].type = ")" -> Ok(ps, s + 1)
      [] t[s].type = "*" -> StarParam(t, s, ps)
      [] t[s].type = "identifier" -> NamedParam(t, s, ps)
      [] OTHER -> SyntaxError)

-----------------------------------------------------------------------------
(* Arguments of a call, which an assignment may turn into parameters *)

call_arg_state_init ==
  [type |-> "args", args |-> <<>>, kwargs |-> <<>>, v_arg |-> <<>>, kw_arg |-> <<>>,
   stage |-> 0, assign_mode |-> "ASSIGN_ALLOWED"]

\* ASSIGN_ALLOWED goes with an argument that is not a name alone.
ModeAfter(cs, token, v) ==
  IF cs.assign_mode = "ASSIGN_ALLOWED" /\ ~(token.type = "identifier" /\ v.type = "identifier")
    THEN "ASSIGN_NOT_ALLOWED" ELSE cs.assign_mode

\* RETURN_CHECKS: the data of every argument read, up to the first name seen before, is
\* taken for that of an identifier.
ArgChecks(t, i, cs) ==
  LET read == cs.args
      Again(k) == \E l \in 1 .. k - 1 : read[l].tag = read[k].tag
      upto == CHOOSE n \in 0 .. Len(read) :
                /\ n = Len(read) \/ read[n + 1].type # "identifier" \/ Again(n + 1)
                /\ \A k \in 1 .. n : read[k].type = "identifier" /\ ~Again(k)
      confused == \/ upto < Len(read) /\ read[upto + 1].type # "identifier"
                  \/ \E a \in Range(cs.v_arg \o cs.kw_arg) : a.type # "identifier"
      names == SubSeq(read, 1, upto) \o cs.v_arg \o cs.kw_arg
      twice == upto < Len(read) \/ \E k, l \in DOMAIN names : k < l /\ names[k].tag = names[l].tag
  IN IF cs.assign_mode = "ASSIGN_NOT_ALLOWED" THEN Ok(cs, i + 1)
     ELSE IF confused THEN Err("undefined")
     ELSE Ok(IF twice THEN [cs EXCEPT !.assign_mode = "ASSIGN_NOT_ALLOWED"] ELSE cs, i + 1)

ArgEnd(t, i, cs) ==
  SkipTo(t, i, LAMBDA u :
    CASE t[u].type = ")" -> ArgChecks(t, u, cs)
      [] t[u].type = "," -> error_if_finished(t, u + 1, parse_arg_list(t, u + 1, cs))
      [] OTHER -> SyntaxError)

StarArg(t, i, cs) ==
  LET kw == Is(t, i + 1, "*") IN
  IF (IF kw THEN cs.kw_arg ELSE cs.v_arg) # <<>> THEN SyntaxError
  ELSE IF kw
    THEN Value(parse_token(t, i + 2, TRUE), LAMBDA v, j :
           ArgEnd(t, j, [cs EXCEPT !.kw_arg = <<v>>, !.stage = 3,
                                   !.assign_mode = ModeAfter(cs, t[i + 2], v)]))
    ELSE error_if_finished(t, i + 1, Value(parse_token(t, i + 1, TRUE), LAMBDA v, j :
           ArgEnd(t, j, [cs EXCEPT !.v_arg = <<v>>, !.stage = 1,
                                   !.assign_mode = ModeAfter(cs, t[i + 1], v)])))

KeywordArg(t, i, cs) ==
  LET With(v) == [cs EXCEPT !.kwargs = Append(@, Pair(Leaf(t[i]), v)),
                            !.stage = IF @ = 0 THEN 2 ELSE @]
  IN IF Is(t, i + 1, "=")
       THEN SkipTo(t, i + 2, LAMBDA s :
              Value(parse_token(t, s, TRUE), LAMBDA v, j : ArgEnd(t, j, With(v))))
     ELSE IF cs.assign_mode = "ASSIGN_NOT_ALLOWED" \/ cs.stage = 3 THEN SyntaxError
     ELSE ArgEnd(t, i + 2, [With(parse_null) EXCEPT !.assign_mode = "ASSIGN_REQUIRED"])

Mut_PositionalArg_anywhere(t, i, cs) ==
  Value(parse_token(t, i, TRUE), LAMBDA v, j :
    ArgEnd(t, j, [cs EXCEPT !.args = Append(@, v), !.assign_mode = ModeAfter(cs, t[i], v)]))

PositionalArg(t, i, cs) ==
  IF cs.stage >= 2 THEN SyntaxError ELSE
  Value(parse_token(t, i, TRUE), LAMBDA v, j :
    ArgEnd(t, j, [cs EXCEPT !.args = Append(@, v), !.assign_mode = ModeAfter(cs, t[i], v)]))

parse_arg_list(t, i, cs) ==
  SkipTo(t, i, LAMBDA s :
    CASE t[s].type = ")" -> Ok(cs, s + 1)
      [] t[s].type = "*" -> StarArg(t, s, cs)
      [] t[s].type = "identifier" /\ ( \/ cs.stage # 3 /\ Is(t, s + 1, "=")
                                      \/ Is(t, s + 1, "?")) -> KeywordArg(t, s, cs)
      [] OTHER -> PositionalArg(t, s, cs))

Call(to_call, at, cs) ==
  Node("call", cs, at, <<to_call>> \o cs.args \o cs.kwargs \o cs.v_arg \o cs.kw_arg)

parse_call(t, i, to_call) ==
  error_if_finished(t, i + 1,
    IF Is(t, i + 1, ")") THEN Ok(Call(to_call, t[i].at, call_arg_state_init), i + 2)
    ELSE Then(parse_arg_list(t, i + 1, call_arg_state_init), LAMBDA cs, j :
           Ok(Call(to_call, t[i].at, cs), j)))

-----------------------------------------------------------------------------
(* Assignments, accesses *)

\* A call assigned to is a function; its starred names are freed before the body is parsed, and
\* again with the call when there is no body.
parse_assign(t, i, to) ==
  LET call == to.tag
      function == to.type = "call"
      freed == function /\ call.v_arg \o call.kw_arg # <<>>
      to_call == to.kids[1]
      name == CASE to_call.type = "identifier" -> to_call.tag
                [] to_call.type = "access" -> to_call.kids[2].tag
                [] OTHER -> "anonymous"
      ps == [positional |-> call.args, defaults |-> call.kwargs, v |-> call.v_arg,
             kw |-> call.kw_arg]
      from == error_if_finished(t, i + 1,
                Value(parse_token(t, i + 1, TRUE), LAMBDA v, j : Ok(v, j)))
      assignable == IF function THEN /\ call.assign_mode # "ASSIGN_NOT_ALLOWED"
                                     /\ \A a \in Range(call.args) : a.type = "identifier"
                    ELSE to.type \in {"identifier", "access", "item_access"}
  IN IF ~assignable THEN SyntaxError
     ELSE IF function /\ \E a \in Range(call.v_arg \o call.kw_arg) : a.type # "identifier"
       THEN Err("undefined")
     ELSE IF from.err \notin {"none", "exit"} /\ freed THEN Err("undefined")
     ELSE Then(from, LAMBDA v, j :
            Ok(Node("assign", t[i].type, 0,
                    IF function THEN <<to_call, create_parsed_function(name, ps, v)>>
                    ELSE <<to, v>>), j))

parse_access(t, i, to) ==
  Expect(t, i + 1, "identifier",
    Ok(Node("access", "", 0, <<to, parse_string(t[i + 1], FALSE).value>>), i + 2))

Item(subscript) == Node("subscript", [k \in DOMAIN subscript |-> subscript[k].type], 0,
                        SelectSeq(subscript, LAMBDA v : v.type # "NULL"))

parse_subscript(t, i, subscript) ==
  SkipTo(t, i, LAMBDA s :
    CASE t[s].type = ":" -> parse_subscript(t, s + 1, Append(subscript, NULL))
      [] t[s].type = "]" -> Ok(Item(Append(subscript, NULL)), s)
      [] OTHER ->
           Then(parse_token(t, s, TRUE), LAMBDA v, j :
             SkipTo(t, j, LAMBDA u :
               IF t[u].type = ":" THEN parse_subscript(t, u + 1, Append(subscript, v))
               ELSE Ok(Item(Append(subscript, v)), u))))

ItemAccess(t, i, kids) ==
  SkipTo(t, i, LAMBDA s :
    Then(parse_subscript(t, s, <<>>), LAMBDA item, j :
      SkipTo(t, j, LAMBDA u :
        CASE t[u].type = "]" -> Ok(Node("item_access", "", 0, Append(kids, item)), u + 1)
          [] t[u].type = "," -> ItemAccess(t, u + 1, Append(kids, item))
          [] OTHER -> SyntaxError)))
parse_item_access(t, i, to) == ItemAccess(t, i + 1, <<to>>)

-----------------------------------------------------------------------------
(* Arrays, dictionaries, parentheses, templates *)

ArrayItems(t, i, items) ==
  Value(parse_token(t, i, TRUE), LAMBDA v, j :
    SkipTo(t, j, LAMBDA u :
      CASE t[u].type = "]" -> Ok(Append(items, v), u + 1)
        [] t[u].type = "," ->
             SkipTo(t, u + 1, LAMBDA w :
               IF t[w].type = "]" THEN Ok(Append(items, v), w + 1)
               ELSE ArrayItems(t, w, Append(items, v)))
        [] OTHER -> SyntaxError))

parse_array(t, i) ==
  SkipTo(t, i + 1, LAMBDA s :
    IF t[s].type = "]" THEN Ok(Node("array", "", t[i].at, <<>>), s + 1)
    ELSE Then(ArrayItems(t, s, <<>>), LAMBDA items, j : Ok(Node("array", "", t[i].at, items), j)))

\* After an entry that does not end the dictionary: a second comma is skipped.
EntryEnd(t, i, entries) ==
  SkipTo(t, i + 1, LAMBDA y :
    LET After(z) == IF t[z].type = "}" THEN Ok(entries, z + 1)
                    ELSE DictionaryEntries(t, z, entries)
    IN IF t[y].type = "," THEN SkipTo(t, y + 1, After) ELSE After(y))

\* Without a colon the value is what is parsed, once more, where the key began.
DictionaryEntries(t, i, entries) ==
  LET key == IF t[i].type = "identifier" THEN Ok(parse_string(t[i], FALSE).value, i + 1)
             ELSE parse_token(t, i, TRUE)
      With(v) == Append(entries, Pair(key.value, v))
      End(u, v) == CASE t[u].type = "}" -> Ok(With(v), u + 1)
                     [] t[u].type = "," -> EntryEnd(t, u, With(v))
                     [] OTHER -> SyntaxError
  IN Value(key, LAMBDA k, j :
       SkipTo(t, j, LAMBDA u :
         IF t[u].type = ":"
           THEN SkipTo(t, u + 1, LAMBDA w :
                  Value(parse_token(t, w, TRUE), LAMBDA v, x :
                    SkipTo(t, x, LAMBDA y : End(y, v))))
           ELSE End(u, parse_token(t, i, TRUE).value)))

parse_dictionary(t, i) ==
  SkipTo(t, i + 1, LAMBDA s :
    IF t[s].type = "}" THEN Ok(Node("dictionary", "", t[i].at, <<>>), s + 1)
    ELSE Then(DictionaryEntries(t, s, <<>>), LAMBDA entries, j :
           Ok(Node("dictionary", "", t[i].at, entries), j)))

\* What tells (...) = body from a parenthesised expression, at the token after the parenthesis.
IsAnonymous(t, i) ==
  LET AssignAfter(j) == Is(t, skip_newlines_and_indents(t, j), "=") IN
  \/ t[i].type = ")" /\ AssignAfter(i + 1)
  \/ t[i].type = "*"
  \/ /\ t[i].type = "identifier"
     /\ \/ \E type \in {"=", "?", ","} : Is(t, i + 1, type)
        \/ Is(t, i + 1, ")") /\ AssignAfter(i + 2)

AnonymousFunction(t, i) ==
  Then(IF t[i].type = ")" THEN Ok(param_state_init, i + 1)
       ELSE parse_param_list(t, i, param_state_init), LAMBDA ps, j :
    SkipTo(t, j, LAMBDA u :
      Expect(t, u, "=", error_if_finished(t, u + 1,
        Value(parse_token(t, u + 1, TRUE), LAMBDA body, k :
          Ok(create_parsed_function("anonymous", ps, body), k))))))

ParenthesisedItems(t, i, list) ==
  IF t[i].type = ")" /\ list = <<>> THEN Ok(list, i + 1) ELSE
  Value(parse_token(t, i, TRUE), LAMBDA v, j :
    SkipTo(t, j, LAMBDA u :
      CASE t[u].type = ")" -> Ok(Append(list, v), u + 1)
        [] t[u].type = "," -> SkipTo(t, u + 1, LAMBDA w : ParenthesisedItems(t, w, Append(list, v)))
        [] OTHER -> SyntaxError))

parse_parentheses(t, i) ==
  SkipTo(t, i + 1, LAMBDA s :
    IF IsAnonymous(t, s) THEN AnonymousFunction(t, s)
    ELSE Then(ParenthesisedItems(t, s, <<>>), LAMBDA list, j :
           IF Len(list) # 1 THEN SyntaxError ELSE Ok(list[1], j)))

Mut_AddText_replaces(values, token) ==
  LET n == Len(values) IN
  IF n > 0 /\ values[n].type = "text" THEN [values EXCEPT ![n].kids = <<Leaf(token)>>]
  ELSE Append(values, Node("text", "", 0, <<Leaf(token)>>))

\* Pieces of text one after the other are one string.
AddText(values, token) ==
  LET n == Len(values) IN
  IF n > 0 /\ values[n].type = "text"
    THEN [values EXCEPT ![n].kids = Append(@, Leaf(token))]
    ELSE Append(values, Node("text", "", 0, <<Leaf(token)>>))

TemplateValues(t, i, values) ==
  error_if_finished(t, i,
    CASE t[i].type = "template_end" -> Ok(values, i + 1)
      [] t[i].type = "template_text" ->
           IF t[i].name = "not unquotable" THEN SyntaxError
           ELSE TemplateValues(t, i + 1, AddText(values, t[i]))
      [] t[i].type = "template_expr_start" ->
           SkipTo(t, i + 1, LAMBDA s :
             Value(parse_token(t, s, TRUE), LAMBDA v, j :
               error_if_finished(t, j,
                 LET u == skip_newlines_and_indents(t, j) IN
                 darray_get(t, u, Expect(t, u, "template_expr_end",
                   TemplateValues(t, u + 1, Append(values, v)))))))
      [] OTHER -> SyntaxError)

parse_template(t, i, templater) ==
  Then(TemplateValues(t, i + 1, <<>>), LAMBDA values, j :
    Ok(Node("template", "", t[i].at, Given(templater) \o values), j))

-----------------------------------------------------------------------------
(* Destructuring patterns *)

\* * and the rest, which must be the last item before the closing token.
DestructureRest(t, i, close, items) ==
  Then(parse_destructure(t, i + 1), LAMBDA rest, j :
    SkipTo(t, j, LAMBDA u : Expect(t, u, close, Ok(Append(items, rest), u + 1))))

DestructureEnd(t, i, close, items) ==
  SkipTo(t, i, LAMBDA x :
    CASE t[x].type = close -> Ok(items, x + 1)
      [] t[x].type = "," -> DestructureItems(t, x + 1, close, items)
      [] OTHER -> SyntaxError)

\* {name} is {name: name}.
DestructureKey(t, i, items) ==
  Value(parse_token(t, i, TRUE), LAMBDA key, j :
    SkipTo(t, j, LAMBDA u :
      CASE t[u].type = ":" ->
             Then(parse_destructure(t, u + 1), LAMBDA d, k :
               DestructureEnd(t, k, "}", Append(items, Pair(key, d))))
        [] t[u].type # ":" /\ key.type = "identifier" ->
             DestructureEnd(t, u, "}", Append(items, Pair(key, key)))
        [] OTHER -> SyntaxError))

\* The items of [...] and of {...}; a comma alone skips an item of [...].
DestructureItems(t, i, close, items) ==
  SkipTo(t, i, LAMBDA s :
    CASE t[s].type = close -> Ok(items, s + 1)
      [] t[s].type = "," /\ close = "]" ->
           DestructureItems(t, s + 1, close, Append(items, Node("skipped", "", 0, <<>>)))
      [] t[s].type = "*" -> DestructureRest(t, s, close, items)
      [] OTHER ->
           IF close = "}" THEN DestructureKey(t, s, items)
           ELSE Then(parse_destructure(t, s), LAMBDA d, j :
                  DestructureEnd(t, j, close, Append(items, d))))

parse_destructure(t, i) ==
  SkipTo(t, i, LAMBDA s :
    CASE t[s].type = "identifier" -> Ok(Leaf(t[s]), s + 1)
      [] t[s].type \in {"[", "{"} ->
           LET close == IF t[s].type = "[" THEN "]" ELSE "}" IN
           Then(DestructureItems(t, s + 1, close, <<>>), LAMBDA items, j :
             Ok(Node("destructure", t[s].type, t[s].at, items), j))
      [] OTHER -> SyntaxError)

-----------------------------------------------------------------------------
(* Statements *)

\* ( condition ) of if and while, up to where the body begins.
Condition(t, i) ==
  Expect(t, i, "(", error_if_finished(t, i + 1,
    Value(parse_token(t, skip_newlines_and_indents(t, i + 1), TRUE), LAMBDA condition, j :
      LET u == skip_newlines_and_indents(t, j) IN
      darray_get(t, u, Expect(t, u, ")", error_if_finished(t, u + 1, Ok(condition, u + 1)))))))

parse_while(t, i) ==
  Then(Condition(t, i + 1), LAMBDA condition, j :
    Value(parse_token(t, j, FALSE), LAMBDA content, k :
      Ok(Node("while", "", 0, <<condition, content>>), k)))

\* i is where the condition of the branch begins, or its body after else.
Branch(t, i, else, branches) ==
  Then(IF else THEN Ok(NULL, i) ELSE Condition(t, i), LAMBDA condition, j :
    Value(parse_token(t, j, FALSE), LAMBDA content, k :
      Branches(t, k, Append(branches, Node("branch", "", 0, Given(condition) \o <<content>>)))))

\* What follows a branch: a new line, then else or else if; an else may be followed too.
Branches(t, i, branches) ==
  LET s == skip_newlines_and_indents(t, i) IN
  CASE ~Is(t, i, "new_line") -> Ok(Node("if", "", 0, branches), i)
    [] Is(t, i, "new_line") /\ s > Len(t) -> Ok(Node("if", "", 0, branches), s)
    [] OTHER ->
         IF t[s].type \notin {"else", "else if"} THEN Ok(Node("if", "", 0, branches), i)
         ELSE error_if_finished(t, s + 1, Branch(t, s + 1, t[s].type = "else", branches))

parse_if(t, i) == error_if_finished(t, i + 1, Branch(t, i + 1, FALSE, <<>>))

parse_for(t, i) ==
  darray_get(t, i + 1, Expect(t, i + 1, "(",
    Then(parse_destructure(t, i + 2), LAMBDA value, j :
      SkipTo(t, j, LAMBDA u : Expect(t, u, "in",
        SkipTo(t, u + 1, LAMBDA w :
          Value(parse_token(t, w, TRUE), LAMBDA iterator, k :
            SkipTo(t, k, LAMBDA x : Expect(t, x, ")",
              SkipTo(t, x + 1, LAMBDA y :
                Value(parse_token(t, y, FALSE), LAMBDA content, l :
                  Ok(Node("for", "", 0, <<value, iterator, content>>), l))))))))))))

\* ( type as name ) after catch; the name may be left out.
CatchHead(t, i) ==
  SkipTo(t, i + 1, LAMBDA s :
    Value(parse_token(t, s, FALSE), LAMBDA type, j :
      SkipTo(t, j, LAMBDA u :
        LET End(x, kids) == Expect(t, x, ")", SkipTo(t, x + 1, LAMBDA y : Ok(kids, y))) IN
        IF t[u].type # "as" THEN End(u, <<type>>)
        ELSE SkipTo(t, u + 1, LAMBDA w : Expect(t, w, "identifier",
               SkipTo(t, w + 1, LAMBDA x : End(x, <<type, Leaf(t[w])>>)))))))

parse_try(t, i) ==
  SkipTo(t, i + 1, LAMBDA s :
    Value(parse_token(t, s, FALSE), LAMBDA try_body, j :
      SkipTo(t, j, LAMBDA u : Expect(t, u, "catch",
        error_if_finished(t, u + 1,
          Then(IF Is(t, u + 1, "(") THEN CatchHead(t, u + 1) ELSE Ok(<<>>, u + 1), LAMBDA head, w :
            Value(parse_token(t, w, FALSE), LAMBDA catch_body, k :
              Ok(Node("try", "", 0, <<try_body>> \o head \o <<catch_body>>), k))))))))

parse_class(t, i) ==
  LET Body(kids, j) == Value(parse_token(t, j, TRUE), LAMBDA body, k :
                         Ok(Node("class", t[i + 1].name, 0, kids \o <<body>>), k))
      name == Leaf(t[i + 1])
  IN Expect(t, i + 1, "identifier", error_if_finished(t, i + 2,
       IF ~Is(t, i + 2, "(") THEN Body(<<name>>, i + 2)
       ELSE SkipTo(t, i + 3, LAMBDA s :
              Value(parse_token(t, s, TRUE), LAMBDA parent, j :
                SkipTo(t, j, LAMBDA u : Expect(t, u, ")", Body(<<name, parent>>, u + 1)))))))

\* The list after expose.  An error after its first entry frees an entry as if it had been
\* allocated on its own, except where no identifier follows a comma.
Exposed(t, i, kids) ==
  LET After(j, names) ==
        IF ~Is(t, j, ",") THEN Ok(kids \o names, j)
        ELSE IF j + 1 > Len(t) THEN Err("undefined")
        ELSE Exposed(t, j + 1, kids \o names)
  IN CASE ~Is(t, i, "identifier") -> SyntaxError
       [] Is(t, i, "identifier") /\ ~Is(t, i + 1, "as") -> After(i + 1, <<Leaf(t[i])>>)
       [] OTHER ->
            IF Is(t, i + 2, "identifier") THEN After(i + 3, <<Leaf(t[i]), Leaf(t[i + 2])>>)
            ELSE IF kids # <<>> THEN Err("undefined")
            ELSE SyntaxError

parse_import(t, i) ==
  LET Import(kids, expose_all, j) == Ok(Node("import", expose_all, 0, kids), j)
      Expose(kids, j) ==
        IF ~Is(t, j, "expose") THEN Import(kids, FALSE, j)
        ELSE error_if_finished(t, j + 1,
               IF Is(t, j + 1, "*") THEN Import(kids, TRUE, j + 2)
               ELSE Then(Exposed(t, j + 1, <<>>), LAMBDA names, k : Import(kids \o names, FALSE, k)))
  IN error_if_finished(t, i + 1,
       Value(parse_token(t, i + 1, TRUE), LAMBDA file, j :
         error_if_finished(t, j,
           IF Is(t, j, "as")
             THEN Expect(t, j + 1, "identifier", Expose(<<file, Leaf(t[j + 1])>>, j + 2))
             ELSE Expose(<<file>>, j))))

parse_throw(t, i) ==
  Value(parse_token(t, i + 1, TRUE), LAMBDA v, j : Ok(Node("throw", "", 0, <<v>>), j))

parse_return(t, i) ==
  IF i + 1 > Len(t) \/ Is(t, i + 1, "new_line") THEN Ok(Node("return", "", 0, <<parse_null>>), i + 1)
  ELSE Value(parse_token(t, i + 1, TRUE), LAMBDA v, j : Ok(Node("return", "", 0, <<v>>), j))

parse_delete(t, i) ==
  Value(parse_token(t, i + 1, TRUE), LAMBDA v, j :
    IF v.type \in {"identifier", "access", "item_access"} THEN Ok(Node("delete", "", 0, <<v>>), j)
    ELSE Err("TypeError"))

parse_continue(t, i) == Ok(Node("continue", "", 0, <<>>), i + 1)
parse_break(t, i) == Ok(Node("break", "", 0, <<>>), i + 1)

-----------------------------------------------------------------------------
(* Declarations *)

\* What follows a declaration: a comma, maybe on a later line, and another one.
DeclarationEnd(t, i, declarations) ==
  LET s == skip_newlines_and_indents(t, i)
      All == Node("declaration", "", 0, declarations)
  IN CASE s > Len(t) -> Ok(All, s)
       [] Is(t, s, ",") -> error_if_finished(t, s + 1,
                             SkipTo(t, s + 1, LAMBDA w : Declarations(t, w, declarations)))
       [] OTHER -> Ok(All, i)

\* = and the body, null without; function holds the parameters when there are any.
DeclarationBody(t, i, declarations, target, function) ==
  LET With(v) ==
        Append(declarations, Pair(target,
          IF function = <<>> THEN v ELSE create_parsed_function(target.tag, function[1], v)))
  IN IF ~Is(t, i, "=") THEN DeclarationEnd(t, i, With(parse_null))
     ELSE error_if_finished(t, i + 1,
            Value(parse_token(t, i + 1, TRUE), LAMBDA v, j : DeclarationEnd(t, j, With(v))))

Declarations(t, i, declarations) ==
  Then(parse_destructure(t, i), LAMBDA target, j :
    IF ~Is(t, j, "(") THEN DeclarationBody(t, j, declarations, target, <<>>)
    ELSE IF target.type # "identifier" THEN SyntaxError
    ELSE error_if_finished(t, j + 1,
           Then(IF Is(t, j + 1, ")") THEN Ok(param_state_init, j + 2)
                ELSE parse_param_list(t, j + 1, param_state_init), LAMBDA ps, k :
             DeclarationBody(t, k, declarations, target, <<ps>>))))

parse_declaration(t, i) == error_if_finished(t, i + 1, Declarations(t, i + 1, <<>>))

-----------------------------------------------------------------------------
(* Blocks: do, a new line and the lines indented as far as the first of them *)

Dowrap == [tokens |-> <<>>, indent_depth |-> 0, has_body_started |-> FALSE,
           inside_body |-> FALSE, pass |-> FALSE, last |-> 0]

\* A line that is indented less does not end the block.
Mut_Indent_shallower(b, token) ==
  IF (b.inside_body \/ b.has_body_started) /\ b.indent_depth > token.width
    THEN [b EXCEPT !.inside_body = TRUE]
    ELSE [b EXCEPT !.indent_depth = IF b.has_body_started THEN @ ELSE token.width,
                   !.inside_body = TRUE]

\* An indent in the block: what it has more than the first line stays.
Indent(b, token) ==
  LET extra == [token EXCEPT !.width = token.width - b.indent_depth] IN
  CASE ~b.inside_body /\ ~b.has_body_started ->
         [b EXCEPT !.indent_depth = token.width, !.inside_body = TRUE]
    [] (b.inside_body \/ b.has_body_started) /\ b.indent_depth < token.width ->
         [b EXCEPT !.tokens = Append(@, extra), !.inside_body = TRUE]
    [] (b.inside_body \/ b.has_body_started) /\ b.indent_depth = token.width ->
         [b EXCEPT !.inside_body = TRUE]
    [] OTHER -> [b EXCEPT !.inside_body = FALSE]

DowrapToken(b, token, i) ==
  CASE b.pass -> b
    [] ~b.pass /\ token.type = "new_line" ->
         [b EXCEPT !.tokens = Append(@, token), !.inside_body = FALSE]
    [] ~b.pass /\ token.type = "indent" -> Indent(b, token)
    [] OTHER ->
         IF ~b.inside_body THEN [b EXCEPT !.pass = TRUE]
         ELSE [b EXCEPT !.last = i, !.has_body_started = TRUE, !.tokens = Append(@, token)]

\* i is the index of do.
DowrapBody(t, i) ==
  FoldLeft(LAMBDA b, k : DowrapToken(b, t[k], k), [Dowrap EXCEPT !.last = i],
           [k \in 1 .. Len(t) - i - 1 |-> i + 1 + k])

AfterBody(b) == b.last + 1

parse_dowrap(t, i) ==
  LET b == DowrapBody(t, i)
      body == parser(b.tokens, [index |-> 1, parsed |-> <<>>, expecting_new_line |-> FALSE,
                                err |-> "none"])
  IN CASE i + 1 > Len(t) -> Ok(Node("dowrap", "", t[i].at, <<>>), i + 1)
       [] i + 1 <= Len(t) /\ ~Is(t, i + 1, "new_line") -> SyntaxError
       [] OTHER -> IF body.err # "none" THEN Err(body.err)
                   ELSE Ok(Node("dowrap", "", t[i].at, body.parsed), AfterBody(b))

-----------------------------------------------------------------------------
(* A token: a statement, or a value and what it is continued with *)

Statement(t, i) ==
  CASE t[i].type = "if" -> parse_if(t, i)
    [] t[i].type = "try" -> parse_try(t, i)
    [] t[i].type = "while" -> parse_while(t, i)
    [] t[i].type = "for" -> parse_for(t, i)
    [] t[i].type = "throw" -> parse_throw(t, i)
    [] t[i].type = "return" -> parse_return(t, i)
    [] t[i].type = "continue" -> parse_continue(t, i)
    [] t[i].type = "break" -> parse_break(t, i)
    [] t[i].type = "delete" -> parse_delete(t, i)
    [] t[i].type = "let" -> parse_declaration(t, i)
    [] t[i].type = "class" -> parse_class(t, i)
    [] t[i].type = "import" -> parse_import(t, i)

Statements == {"if", "try", "while", "for", "throw", "return", "continue", "break",
               "delete", "let", "class", "import"}

Mut_LayoutToken_stays(t, i) ==
  IF t[i].type = "indent" /\ i < Len(t) /\ t[i + 1].type # "new_line" THEN SyntaxError
  ELSE Ok(NULL, i)

\* An indent before a token that is not a new line is unexpected.
LayoutToken(t, i) ==
  IF t[i].type = "indent" /\ i < Len(t) /\ t[i + 1].type # "new_line" THEN SyntaxError
  ELSE Ok(NULL, i + 1)

First(t, i) ==
  CASE t[i].type \in {"true", "false", "null", "identifier", "number"} -> Ok(Leaf(t[i]), i + 1)
    [] t[i].type = "string" -> Then(parse_string(t[i], TRUE), LAMBDA v, j : Ok(v, i + 1))
    [] t[i].type = "do" -> parse_dowrap(t, i)
    [] t[i].type = "-" -> parse_negation(t, i)
    [] t[i].type = "[" -> parse_array(t, i)
    [] t[i].type = "(" -> parse_parentheses(t, i)
    [] t[i].type = "{" -> parse_dictionary(t, i)
    [] t[i].type = "!" -> parse_not(t, i)
    [] t[i].type = "template_start" -> parse_template(t, i, NULL)
    [] OTHER -> SyntaxError

\* The value goes on with the next token that continues one, on whatever line it is.
Postfix(t, r, process_operations) ==
  LET s == skip_newlines_and_indents(t, r.index)
      type == t[s].type
      More(next) == Postfix(t, next, process_operations)
  IN CASE r.err # "none" \/ r.index > Len(t) -> r
       [] r.err = "none" /\ r.index <= Len(t) /\ s > Len(t) -> r
       [] OTHER ->
            CASE type \in Assignments -> More(parse_assign(t, s, r.value))
              [] type = "(" -> More(parse_call(t, s, r.value))
              [] type = "." -> More(parse_access(t, s, r.value))
              [] type \in {"to", "until"} -> More(parse_range(t, s, r.value))
              [] type = "template_start" -> More(parse_template(t, s, r.value))
              [] type = "[" -> More(parse_item_access(t, s, r.value))
              [] type = "?" /\ process_operations ->
                   More(parse_conditional_expression(t, s, r.value))
              [] type \in SWITCH_OPERATIONS /\ process_operations ->
                   More(parse_operations(t, s, <<r.value>>, <<>>))
              [] type \in SWITCH_OPERATIONS \cup {"?"} /\ ~process_operations -> Ok(r.value, s)
              [] OTHER -> r

parse_token_full(t, i, inline, process_operations) ==
  darray_get(t, i,
    IF ~inline /\ t[i].type \in Statements THEN Statement(t, i)
    ELSE IF t[i].type \in Layout THEN LayoutToken(t, i)
    ELSE Postfix(t, First(t, i), process_operations))

\* One round of the loop of parser: two values need a new line between them.
Round(t, p, inline) ==
  LET r == parse_token(t, p.index, inline)
      given == r.value.type # "NULL"
  IN CASE r.err # "none" -> [p EXCEPT !.err = r.err]
       [] r.err = "none" /\ given /\ p.expecting_new_line -> [p EXCEPT !.err = "SyntaxError"]
       [] OTHER -> [p EXCEPT !.index = r.index, !.expecting_new_line = given,
                             !.parsed = @ \o Given(r.value)]

parser(t, p) ==
  IF p.err # "none" \/ p.index > Len(t) THEN p ELSE parser(t, Round(t, p, FALSE))

-----------------------------------------------------------------------------
(* The lexer.  A piece is what one rule matches; text is what has none of   *)
(* the signs of a template.                                                 *)

VARIABLES
  source, read,          \* the text, and the pieces read of it
  tokens,
  template_paren_stack,  \* an entry for each template open: parentheses open in its expression
  start,                 \* start condition: INITIAL or TEMPLATE
  current_column,        \* 0 at the beginning of a line
  phase,                 \* lexing, parsing, or the outcome
  p                      \* the locals of parser

vars == <<source, read, tokens, template_paren_stack, start, current_column, phase, p>>

Top == Len(template_paren_stack)
InExpression == Top > 0 /\ template_paren_stack[Top] > 0

\* The type of the token, "" for none, and the stack and start condition after it.
Lexed(piece, stack, condition) == [type |-> piece, stack |-> stack, start |-> condition]

OpenParen ==
  Lexed("(", IF InExpression THEN [template_paren_stack EXCEPT ![Top] = @ + 1]
             ELSE template_paren_stack, "INITIAL")
CloseParen ==
  LET closed == [template_paren_stack EXCEPT ![Top] = @ - 1] IN
  CASE ~InExpression -> Lexed(")", template_paren_stack, "INITIAL")
    [] InExpression /\ closed[Top] = 0 -> Lexed("template_expr_end", closed, "TEMPLATE")
    [] OTHER -> Lexed(")", closed, "INITIAL")
Backtick ==
  CASE start = "TEMPLATE" -> Lexed("template_end", Front(template_paren_stack), "INITIAL")
    [] start = "INITIAL" /\ Top = TEMPLATE_STACK_MAX ->
         Lexed("invalid", template_paren_stack, "INITIAL")
    [] OTHER -> Lexed("template_start", Append(template_paren_stack, 0), "TEMPLATE")

yylex(piece) ==
  CASE piece.type = "backtick" -> Backtick
    [] start = "TEMPLATE" /\ piece.type = "$(" ->
         Lexed("template_expr_start", [template_paren_stack EXCEPT ![Top] = 1], "INITIAL")
    [] start = "TEMPLATE" /\ piece.type \notin {"backtick", "$("} ->
         Lexed("template_text", template_paren_stack, "TEMPLATE")
    [] start = "INITIAL" /\ piece.type = "(" -> OpenParen
    [] start = "INITIAL" /\ piece.type = ")" -> CloseParen
    [] start = "INITIAL" /\ piece.type = "indent" /\ current_column > 0 ->
         Lexed("", template_paren_stack, "INITIAL")
    [] OTHER -> Lexed(piece.type, template_paren_stack, "INITIAL")

Lex(piece) ==
  LET l == yylex(piece) IN
  /\ phase = "lexing"
  /\ IF read < Len(source.begin) THEN piece = source.begin[read + 1]
     ELSE piece \in source.pieces /\ read < Len(source.begin) + source.more
  /\ start = "INITIAL" => piece.type \notin {"$(", "text"}
  /\ read' = read + 1
  /\ template_paren_stack' = l.stack
  /\ start' = l.start
  /\ IF l.type = "invalid" THEN phase' = "SyntaxError" ELSE UNCHANGED phase
  /\ IF l.type \in {"", "invalid"} THEN UNCHANGED tokens
     ELSE tokens' = Append(tokens, [type |-> l.type, name |-> piece.name, width |-> piece.width,
                                    at |-> Len(tokens) + 1])
  /\ current_column' = IF piece.type = "new_line" THEN 0 ELSE 1
  /\ UNCHANGED <<source, p>>

EndOfText ==
  /\ phase = "lexing" /\ read >= Len(source.begin)
  /\ phase' = "parsing"
  /\ UNCHANGED <<source, read, tokens, template_paren_stack, start, current_column, p>>

Parse ==
  /\ phase = "parsing" /\ p.index <= Len(tokens)
  /\ p' \in {Round(tokens, p, FALSE)}
  /\ phase' = IF p'.err = "none" THEN "parsing" ELSE p'.err
  /\ UNCHANGED <<source, read, tokens, template_paren_stack, start, current_column>>

Parsed ==
  /\ phase = "parsing" /\ p.index > Len(tokens)
  /\ phase' = "parsed"
  /\ UNCHANGED <<source, read, tokens, template_paren_stack, start, current_column, p>>

Init ==
  /\ source \in Sources
  /\ read = 0 /\ tokens = <<>> /\ template_paren_stack = <<>>
  /\ start = "INITIAL" /\ current_column = 0 /\ phase = "lexing"
  /\ p = [index |-> 1, parsed |-> <<>>, expecting_new_line |-> FALSE, err |-> "none"]

Next ==
  \/ \E piece \in source.pieces \cup Range(source.begin) : Lex(piece)
  \/ EndOfText
  \/ Parse
  \/ Parsed

Spec == Init /\ [][Next]_vars

-----------------------------------------------------------------------------
(* Properties *)

\* The nodes of a tree.  {name} makes a key and a value of one token: these count once.
RECURSIVE NodesOf(_)
NodesOf(n) ==
  LET below == [k \in DOMAIN n.kids |-> NodesOf(n.kids[k])]
      Of(k) == {m.at : m \in Range(below[k])} \ {0}
      shorthand == n.type = "pair" /\ Of(1) \cap Of(2) # {}
  IN <<n>> \o IF shorthand THEN below[2] ELSE FlattenSeq(below)

Nodes == FlattenSeq([k \in DOMAIN p.parsed |-> NodesOf(p.parsed[k])])

\* Where the leaves among some nodes stand in the text, and where words do in a part of it.
Places(nodes) ==
  LET leaves == SelectSeq(nodes, LAMBDA n : n.type \in Words /\ n.at > 0)
  IN [k \in DOMAIN leaves |-> leaves[k].at]
WordsAt(S) == {k \in S : tokens[k].type \in Words}

\* The parser neither drops nor repeats what is written: the names, numbers and strings of an
\* accepted text are the leaves of its tree, each once, whatever statements and blocks they are
\* in (the index each parse_ function leaves behind, and the one parse_dowrap works out).
EveryAtomOnce ==
  phase = "parsed" =>
    LET places == Places(Nodes) IN
    /\ IsInjective(places)
    /\ Range(places) = WordsAt(DOMAIN tokens)

Opening == {"(", "[", "{", "template_start", "template_expr_start"}
Closing == {")", "]", "}", "template_end", "template_expr_end"}
Depth(k) == Cardinality({l \in 1 .. k - 1 : tokens[l].type \in Opening})
            - Cardinality({l \in 1 .. k - 1 : tokens[l].type \in Closing})

\* From the first to the last token a node comes from, parentheses around it left out.
Span(n) == LET at == {m.at : m \in Range(NodesOf(n))} \ {0} IN Min(at) .. Max(at)

\* An operator after the end of a value, not a sign before one.
Binary(k) ==
  LET before == {l \in 1 .. k - 1 : tokens[l].type \notin Layout} IN
  /\ tokens[k].type \in SWITCH_OPERATIONS
  /\ before # {} /\ tokens[Max(before)].type \in Words \cup Closing

\* The operators in an operation that no parentheses hold; an assignment or a range in it takes
\* all that follows.
Chain(n) ==
  LET level == Min({Depth(k) : k \in Span(n)})
      taken == {l \in Span(n) : Depth(l) = level
                                /\ tokens[l].type \in Assignments \cup {"to", "until"}}
  IN {k \in Span(n) : Binary(k) /\ Depth(k) = level /\ \A l \in taken : k < l}

\* What parse_operations and convert_to_operation make of a chain: between two operands of a node
\* stands its operator, and no operator of the chain binds less.
OperandsBind ==
  phase = "parsed" =>
    \A n \in {m \in Range(Nodes) : m.type = "operation" /\ \A k \in Range(NodesOf(m)) : k.type # "dowrap"} :
      /\ \A k \in Chain(n) : Rank(tokens[k].type) <= Rank(n.tag)
      /\ \A j \in 1 .. Len(n.kids) - 1 :
           {tokens[k].type : k \in {k \in Chain(n) : /\ Max(Span(n.kids[j])) < k
                                                     /\ k < Min(Span(n.kids[j + 1]))}} = {n.tag}

\* The lines after token d that hold more than an indent, by the place they begin at.
LinesAfter(d) ==
  {k \in d + 2 .. Len(tokens) :
     /\ tokens[k - 1].type = "new_line" /\ tokens[k].type # "new_line"
     /\ tokens[k].type = "indent" => k < Len(tokens) /\ tokens[k + 1].type # "new_line"}
Width(k) == IF tokens[k].type = "indent" THEN tokens[k].width ELSE 0

\* The tokens of the block of a do at d, in a block of that width.
BlockWidth(d) == Width(Min(LinesAfter(d)))
Block(d, width) ==
  LET out == {k \in LinesAfter(d) : Width(k) < BlockWidth(d)} IN
  IF LinesAfter(d) = {} \/ BlockWidth(d) <= width THEN {}
  ELSE d + 1 .. (IF out = {} THEN Len(tokens) ELSE Min(out) - 1)

RECURSIVE Indented(_, _)
Indented(n, width) ==
  IF n.type # "dowrap" THEN \A k \in DOMAIN n.kids : Indented(n.kids[k], width) ELSE
  /\ Range(Places(NodesOf(n))) = WordsAt(Block(n.at, width))
  /\ \A k \in DOMAIN n.kids : Indented(n.kids[k], BlockWidth(n.at))

\* What is indented is what runs: a do holds the lines that follow it as long as they are indented
\* no less than the first of them, blocks in blocks and blank lines included (parse_dowrap cuts
\* the width of its block off each line and parses what is left on its own).
BlocksAreIndented == phase = "parsed" => \A k \in DOMAIN p.parsed : Indented(p.parsed[k], 0)

\* ( parameters ) as a declaration, an assignment and a value make a function of it.
Token(type, name) == [type |-> type, name |-> name, width |-> 0, at |-> 0]
Whole(t) == parser(t, [index |-> 1, parsed |-> <<>>, expecting_new_line |-> FALSE, err |-> "none"])
Body == <<Token("=", ""), Token("null", "")>>
Declared == <<Token("let", ""), Token("identifier", "f")>> \o tokens \o Body
Assigned == <<Token("identifier", "f")>> \o tokens \o Body
Anonymous == tokens \o Body

\* The parameters of the function a text makes, none when it is refused.
FunctionOf(q) ==
  LET nodes == FlattenSeq([k \in DOMAIN q.parsed |-> NodesOf(q.parsed[k])])
      functions == SelectSeq(nodes, LAMBDA n : n.type = "function")
  IN IF q.err # "none" \/ functions = <<>> THEN <<>>
     ELSE <<[functions[1].tag EXCEPT !.name = ""], functions[1].kids>>

AreParameters ==
  /\ phase = "parsing" /\ p.index = 1 /\ tokens # <<>>
  /\ tokens[1].type = "(" /\ tokens[Len(tokens)].type = ")"
  /\ \A k \in 2 .. Len(tokens) - 1 : tokens[k].type \notin {"(", ")"}

\* What the three do not treat alike: a name given twice (let tells all but the starred names, an
\* assignment tells them unless a comma ends the list), a name after a starred one (let refuses
\* it), a new line after a name or ? (only some of the ways of reading a name skip it).
Names == {k \in DOMAIN tokens : tokens[k].type = "identifier"}
TreatedApart ==
  \/ \E k, l \in Names : k # l /\ tokens[k].name = tokens[l].name
  \/ \E k, l \in Names : k < l /\ tokens[k - 1].type = "*" /\ tokens[l - 1].type # "*"
  \/ \E k \in DOMAIN tokens : tokens[k].type = "new_line" /\ tokens[k - 1].type \in {"identifier", "?"}

\* let f(...) = x, f(...) = x and (...) = x are read by three different functions
\* (parse_param_list, parse_arg_list with parse_assign, and the test that tells a function from a
\* parenthesised value): they make functions of the same parameters, and take the same lists but
\* for those treated apart.
SameParametersBut ==
  AreParameters =>
    \E functions \in {{FunctionOf(Whole(t)) : t \in {Declared, Assigned, Anonymous}}} :
      /\ Cardinality(functions \ {<<>>}) <= 1
      /\ <<>> \in functions => TreatedApart \/ functions = {<<>>}

\* parser comes to an end: a round that does not fail consumes a token and stays within the text.
Advances ==
  [][phase = "parsing" /\ phase' = "parsing" =>
       p'.index \in p.index + 1 .. Len(tokens) + 1]_vars
=============================================================================
