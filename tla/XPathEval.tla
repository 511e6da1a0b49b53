------------------------------ MODULE XPathEval -----------------------------
(***************************************************************************)
(* From an XPath expression to its result, src/src/xpath.c: parse_expr     *)
(* splits it into tokens, reparse_expr checks the grammar and notes for    *)
(* every operand which operators follow it (the "repeat" stacks), and      *)
(* eval_expr walks the tokens once more with nothing but these stacks to   *)
(* tell it where an operand of which operator begins.                      *)
(*                                                                         *)
(* The text of an expression is a sequence of lexemes [c, s, m, n]: c is   *)
(* "sym", "name" (s with prefix m), "lit" (s) or "num" (n).  A token       *)
(* replaces the class c by the token's type.  Cursors count from 1; the    *)
(* stacks hold indices that count from 0, as in the code, where 0 is the   *)
(* end of a stack.                                                         *)
(***************************************************************************)
EXTENDS XPathSet

CONSTANT RepeatMod   \* an entry of a stack is a uint8_t

Symbols == [x \in {"(", ")", "[", "]", "..", ".", "@", ",", "/", "//", "|", "+", "-",
                   "=", "!=", "<", "<=", ">", ">="} |->
             CASE x = "(" -> "par1" [] x = ")" -> "par2" [] x = "[" -> "brack1"
               [] x = "]" -> "brack2" [] x = ".." -> "ddot" [] x = "." -> "dot"
               [] x = "@" -> "at" [] x = "," -> "comma" [] x \in {"/", "//"} -> "path"
               [] x = "|" -> "uni" [] x \in {"+", "-"} -> "math" [] OTHER -> "comp"]

\* after these a name or a star begins an operand, otherwise it is an operator
BeforeOperand == {"at", "par1", "brack1", "comma", "log", "comp", "math", "uni", "path"}

\* a name in front of a parenthesis becomes a node type or a function
MaybeFunction(x) ==
  LET k == Len(x.toks)
  IN IF x.toks = <<>> THEN x
     ELSE IF ~x.fn \/ x.toks[k].c # "nametest" THEN x
     ELSE [x EXCEPT !.fn = FALSE,
                    !.toks[k].c = IF x.toks[k].s \in {"node", "text", "comment"}
                                  THEN "nodetype"
                                  ELSE "funcname"]

\* one turn of the loop of parse_expr; x.fn is prev_function_check
LexOne(x, l) ==
  LET add(y, c) == [y EXCEPT !.toks = Append(y.toks, [l EXCEPT !.c = c])]
      operator  == x.toks # <<>> /\ Last(x.toks).c \notin BeforeOperand
  IN CASE ~x.ok -> x
       [] x.ok /\ l.c = "lit" -> add(x, "literal")
       [] x.ok /\ l.c = "num" -> add(x, "number")
       [] x.ok /\ l.c = "sym" /\ l.s = "(" -> add(MaybeFunction(x), "par1")
       [] x.ok /\ l.c = "sym" /\ l.s \notin {"(", "*"} -> add(x, Symbols[l.s])
       [] x.ok /\ l.c = "sym" /\ l.s = "*" -> add(x, IF operator THEN "math" ELSE "nametest")
       [] x.ok /\ l.c = "name" /\ operator ->
            IF l.m = "" /\ l.s \in {"and", "or"} THEN add(x, "log")
            ELSE IF l.m = "" /\ l.s = "mod" THEN add(x, "math")
            ELSE [x EXCEPT !.ok = FALSE]
       [] x.ok /\ l.c = "name" /\ ~operator -> add([x EXCEPT !.fn = (l.m = "")], "nametest")

parse_expr(text) == FoldLeft(LexOne, [toks |-> <<>>, fn |-> FALSE, ok |-> TRUE], text)

----------------------------------------------------------------------------
(***************************************************************************)
(* The stacks of operators.  A level is a class of operators; the highest  *)
(* binds least.                                                            *)
(***************************************************************************)
IsOp(level, t) ==
  CASE level = "or"  -> t.c = "log" /\ t.s = "or"
    [] level = "and" -> t.c = "log" /\ t.s = "and"
    [] level = "eq"  -> t.c = "comp" /\ t.s \in {"=", "!="}
    [] level = "rel" -> t.c = "comp" /\ t.s \in {"<", "<=", ">", ">="}
    [] level = "add" -> t.c = "math" /\ t.s \in {"+", "-"}
    [] level = "mul" -> t.c = "math" /\ t.s \in {"*", "mod"}
    [] level = "uni" -> t.c = "uni"

exp_repeat_peek(rep, i) ==
  IF i \notin DOMAIN rep THEN 0 ELSE IF rep[i] = <<>> THEN 0 ELSE Last(rep[i])

exp_repeat_pop(rep, i) == [rep EXCEPT ![i] = Front(rep[i])]

exp_repeat_push(rep, i, op) ==
  LET v == (op - 1) % RepeatMod
  IN IF v = 0 THEN rep ELSE [rep EXCEPT ![i] = Append(rep[i], v)]

exp_check_token(T, i, c) == i <= Len(T) /\ (c = "none" \/ T[i].c = c)

Is(T, i, c) == i <= Len(T) /\ T[i].c = c

----------------------------------------------------------------------------
(***************************************************************************)
(* The check of the grammar; the state is [i, rep, ok].                    *)
(***************************************************************************)
Refuse(st) == [st EXCEPT !.ok = FALSE]
Skip(st, k) == [st EXCEPT !.i = st.i + k]
Expect(T, st, c) == IF exp_check_token(T, st.i, c) THEN Skip(st, 1) ELSE Refuse(st)

StartsStep == {"dot", "ddot", "at", "nametest", "nodetype"}

IfOk(st, F(_)) == IF st.ok THEN F(st) ELSE st

RECURSIVE ReparseRule(_, _, _), ReparseUnion(_, _, _), ReparseLevels(_, _, _, _, _),
          reparse_predicates(_, _), ReparseArgs(_, _)

reparse_predicate(T, st) ==
  IF ~exp_check_token(T, st.i, "brack1") THEN Refuse(st)
  ELSE IfOk(ReparseRule("expr", T, Skip(st, 1)), LAMBDA inner : Expect(T, inner, "brack2"))

reparse_predicates(T, st) ==
  IF st.ok /\ Is(T, st.i, "brack1") THEN reparse_predicates(T, reparse_predicate(T, st)) ELSE st

\* the steps that follow the one which ended in st
ReparseMore(T, st) ==
  IF st.ok /\ Is(T, st.i, "path") THEN ReparseRule("relative", T, Skip(st, 1)) ELSE st

\* a name test or node type of k tokens and the predicates after it
ReparseTest(T, st, good, k) == IF good THEN reparse_predicates(T, Skip(st, k)) ELSE Refuse(st)

reparse_relative_location_path(T, st) ==
  LET Then1(c) == Is(T, st.i + 1, c)
      step == CASE T[st.i].c \in {"dot", "ddot"} -> Skip(st, 1)
                [] T[st.i].c = "at" -> ReparseTest(T, st, Then1("nametest") \/ Then1("nodetype"), 2)
                [] T[st.i].c = "nametest" -> ReparseTest(T, st, TRUE, 1)
                [] T[st.i].c = "nodetype" ->
                     ReparseTest(T, st, Then1("par1") /\ Is(T, st.i + 2, "par2"), 3)
                [] T[st.i].c \notin StartsStep -> Refuse(st)
  IN IF ~exp_check_token(T, st.i, "none") THEN Refuse(st) ELSE ReparseMore(T, step)

reparse_absolute_location_path(T, st) ==
  IF \/ T[st.i].s = "//"
     \/ exp_check_token(T, st.i + 1, "none") /\ T[st.i + 1].c \in StartsStep
  THEN ReparseRule("relative", T, Skip(st, 1)) ELSE Skip(st, 1)

ReparseArgs(T, st) ==
  IfOk(ReparseRule("expr", T, st),
       LAMBDA arg : IF Is(T, arg.i, "comma") THEN ReparseArgs(T, Skip(arg, 1)) ELSE arg)

reparse_function_call(T, st) ==
  IfOk(Expect(T, Skip(st, 1), "par1"), LAMBDA open :
    IF ~exp_check_token(T, open.i, "none") THEN Refuse(open)
    ELSE IfOk(IF Is(T, open.i, "par2") THEN open ELSE ReparseArgs(T, open),
              LAMBDA args : Expect(T, args, "par2")))

reparse_path_expr(T, st) ==
  LET primary == CASE T[st.i].c = "par1" ->
                        IfOk(ReparseRule("expr", T, Skip(st, 1)),
                             LAMBDA inner : Expect(T, inner, "par2"))
                   [] T[st.i].c = "funcname" -> reparse_function_call(T, st)
                   [] T[st.i].c \in {"literal", "number"} -> Skip(st, 1)
  IN IF ~exp_check_token(T, st.i, "none") THEN Refuse(st)
     ELSE CASE T[st.i].c \in StartsStep -> ReparseRule("relative", T, st)
            [] T[st.i].c = "path" -> reparse_absolute_location_path(T, st)
            [] T[st.i].c \in {"par1", "funcname", "literal", "number"} ->
                 ReparseMore(T, reparse_predicates(T, primary))
            [] OTHER -> Refuse(st)

\* the operator at the cursor joins an operand that began at prev
Joined(st, prev) == [st EXCEPT !.rep = exp_repeat_push(@, prev, st.i), !.i = @ + 1]

ReparseUnion(T, st, prev) ==
  IfOk(reparse_path_expr(T, st), LAMBDA path :
    IF Is(T, path.i, "uni") THEN ReparseUnion(T, Joined(path, prev), path.i + 1) ELSE path)

reparse_unary_expr(T, st) ==
  IF Is(T, st.i, "math") /\ T[st.i].s = "-" THEN ReparseRule("unary", T, Skip(st, 1))
  ELSE ReparseUnion(T, st, st.i)

\* two nested loops: operators of the level lo join operands that began at
\* prev_lo, those of the level hi operands that began at prev_hi
ReparseLevels(T, st, hi, prev_hi, prev_lo) ==
  LET lo == CASE hi = "or" -> "and" [] hi = "eq" -> "rel" [] hi = "add" -> "mul"
      operand == CASE hi = "or" -> "equality" [] hi = "eq" -> "additive" [] hi = "add" -> "unary"
  IN IfOk(ReparseRule(operand, T, st), LAMBDA r :
       IF ~exp_check_token(T, r.i, "none") THEN r
       ELSE IF IsOp(lo, T[r.i]) THEN ReparseLevels(T, Joined(r, prev_lo), hi, prev_hi, r.i + 1)
       ELSE IF IsOp(hi, T[r.i]) THEN ReparseLevels(T, Joined(r, prev_hi), hi, r.i + 1, r.i + 1)
       ELSE r)

reparse_additive_expr(T, st) == ReparseLevels(T, st, "add", st.i, st.i)
reparse_equality_expr(T, st) == ReparseLevels(T, st, "eq", st.i, st.i)
reparse_expr(T, st) == ReparseLevels(T, st, "or", st.i, st.i)

\* the rules that other rules refer to
ReparseRule(rule, T, st) ==
  CASE rule = "expr"     -> reparse_expr(T, st)
    [] rule = "equality" -> reparse_equality_expr(T, st)
    [] rule = "additive" -> reparse_additive_expr(T, st)
    [] rule = "unary"    -> reparse_unary_expr(T, st)
    [] rule = "relative" -> reparse_relative_location_path(T, st)

\* the first Expr of the tokens is taken for all of them
ReparsedHead(T) ==
  reparse_expr(T, [i |-> 1, rep |-> [j \in DOMAIN T |-> <<>>], ok |-> TRUE])

\* lyxp_syntax_check: all of the expression is one Expr
Reparsed(T) ==
  IfOk(reparse_expr(T, [i |-> 1, rep |-> [j \in DOMAIN T |-> <<>>], ok |-> TRUE]),
       LAMBDA st : IF st.i <= Len(T) THEN Refuse(st) ELSE st)

----------------------------------------------------------------------------
(***************************************************************************)
(* The functions: args the values of the arguments, set the context.  The  *)
(* functions on the characters of strings, floor, ceiling, round, lang and *)
(* namespace-uri are not modelled.                                         *)
(***************************************************************************)
xpath_boolean(e, args, set) ==
  IF Len(args) # 1 THEN Error ELSE Done(lyxp_set_cast(e, args[1], "bool"))

xpath_not(e, args, set) ==
  IF Len(args) # 1 THEN Error ELSE Done(Boolean(~lyxp_set_cast(e, args[1], "bool").bool))

xpath_true(e, args, set) == IF args # <<>> THEN Error ELSE Done(Boolean(TRUE))
xpath_false(e, args, set) == IF args # <<>> THEN Error ELSE Done(Boolean(FALSE))

xpath_number(e, args, set) ==
  IF Len(args) > 1 THEN Error
  ELSE Done(lyxp_set_cast(e, IF args = <<>> THEN set ELSE args[1], "num"))

xpath_string(e, args, set) ==
  IF Len(args) > 1 THEN Error
  ELSE Done(lyxp_set_cast(e, IF args = <<>> THEN set ELSE args[1], "str"))

xpath_count(e, args, set) ==
  CASE Len(args) # 1 -> Error
    [] Len(args) = 1 /\ args[1].type = "empty" -> Done(Number(<<0>>))
    [] Len(args) = 1 /\ args[1].type = "nodes" -> Done(Number(<<Len(args[1].items)>>))
    [] OTHER -> Error

xpath_sum(e, args, set) ==
  LET one(i) == cast_string_to_number(cast_node_set_to_string(e, NodeSet(<<args[1].items[i]>>, 0)))
      add(a, i) == IF NaN \in {a, one(i)} THEN NaN ELSE <<a[1] + one(i)[1]>>
  IN CASE Len(args) # 1 -> Error
       [] Len(args) = 1 /\ args[1].type = "empty" -> Done(Number(<<0>>))
       [] Len(args) = 1 /\ args[1].type = "nodes" ->
            Done(Number(FoldLeft(add, <<0>>, [i \in DOMAIN args[1].items |-> i])))
       [] OTHER -> Error

xpath_current(e, args, set) ==
  IF args # <<>> THEN Error ELSE Done(set_insert_node(EmptySet, <<e.cur, "elem">>, 0))

xpath_last(e, args, set) ==
  CASE args # <<>> -> Error
    [] args = <<>> /\ set.type = "empty" -> Done(Number(<<0>>))
    [] args = <<>> /\ set.type = "nodes" -> Done(Number(<<Len(set.items)>>))
    [] OTHER -> Error

xpath_position(e, args, set) ==
  CASE args # <<>> -> Error
    [] args = <<>> /\ set.type = "empty" -> Done(Number(<<0>>))
    [] args = <<>> /\ set.type = "nodes" -> Done(Number(<<set.pos>>))
    [] OTHER -> Error

xpath_local_name(e, args, set) ==
  LET from == IF args = <<>> THEN set ELSE args[1]
      item == from.items[IF args # <<>> \/ set.pos = 0 THEN 1 ELSE set.pos]
  IN CASE Len(args) > 1 -> Error
       [] Len(args) <= 1 /\ from.type = "empty" -> Done(String(<<>>))
       [] Len(args) <= 1 /\ from.type = "nodes" ->
            Done(String(CASE item[2] = "elem" -> <<Name[item[1]]>>
                          [] item[2] = "attr" -> <<AttrName[item[1]]>>
                          [] OTHER -> <<>>))
       [] OTHER -> Error

\* node() leaves the node set as it is
xpath_node(set) == Done(IF set.type = "nodes" THEN set ELSE EmptySet)

RECURSIVE TextItems(_, _)
TextItems(set, i) ==
  IF set.type # "nodes" THEN set
  ELSE IF i >= Len(set.items) THEN set
  ELSE LET item == set.items[i + 1]
       IN IF item[2] = "elem" /\ Kind[item[1]] \in {"leaf", "leaflist"} /\ Text[item[1]] # <<>>
          THEN TextItems(NodeSet([set.items EXCEPT ![i + 1] = <<item[1], "text">>], set.pos), i + 1)
          ELSE TextItems(set_remove_node(set, i), i)

xpath_text(set) ==
  IF set.type \in {"empty", "nodes"} THEN Done(TextItems(set, 0)) ELSE Error

FunctionNames == {"boolean", "not", "true", "false", "number", "string", "count", "sum",
                  "current", "last", "position", "local-name"}

Call(f, e, args, set) ==
  CASE f = "boolean" -> xpath_boolean(e, args, set) [] f = "not" -> xpath_not(e, args, set)
    [] f = "true" -> xpath_true(e, args, set) [] f = "false" -> xpath_false(e, args, set)
    [] f = "number" -> xpath_number(e, args, set) [] f = "string" -> xpath_string(e, args, set)
    [] f = "count" -> xpath_count(e, args, set) [] f = "sum" -> xpath_sum(e, args, set)
    [] f = "current" -> xpath_current(e, args, set) [] f = "last" -> xpath_last(e, args, set)
    [] f = "position" -> xpath_position(e, args, set)
    [] f = "local-name" -> xpath_local_name(e, args, set)

----------------------------------------------------------------------------
(***************************************************************************)
(* The evaluation; the state is [i, rep, set, rc].                         *)
(***************************************************************************)
\* k tokens are consumed and the set is the result r
Take(st, k, r) == [st EXCEPT !.i = st.i + k, !.set = r.set, !.rc = r.rc]
Fails(st, rc) == [st EXCEPT !.rc = rc]

IfDone(st, F(_)) == IF st.rc = "ok" THEN F(st) ELSE st

RECURSIVE Eval(_, _, _, _), EvalRest(_, _, _, _, _), EvalLogicRest(_, _, _, _, _),
          PredicateLoop(_, _, _, _, _, _, _), EvalPredicates(_, _, _), EvalArgs(_, _, _, _),
          eval_relative_location_path(_, _, _, _)

eval_literal(T, st) == Take(st, 1, Done(String(IF T[st.i].s = "" THEN <<>> ELSE <<T[st.i].s>>)))

eval_number(T, st) == Take(st, 1, Done(Number(<<T[st.i].n>>)))

eval_node_test(e, T, st, attr_axis, all_desc) ==
  LET test == [module |-> T[st.i].m, name |-> T[st.i].s]
  IN IF T[st.i].c = "nametest"
     THEN Take(st, 1, CASE attr_axis /\ all_desc -> moveto_attr_alldesc(e, st.set, test)
                        [] attr_axis /\ ~all_desc -> moveto_attr(e, st.set, test)
                        [] ~attr_axis /\ all_desc -> moveto_node_alldesc(e, st.set, test)
                        [] ~attr_axis /\ ~all_desc -> moveto_node(e, st.set, test))
     ELSE Take(st, 3, CASE T[st.i].s = "node" -> xpath_node(st.set)
                        [] T[st.i].s = "text" -> xpath_text(st.set)
                        [] T[st.i].s = "comment" -> Abort)

\* the predicate for the k-th node evaluated to out; i nodes are kept so far
NodeKept(e, T, st, out, orig, k, i, pred) ==
  LET holds == IF out.set.type = "num" THEN out.set.num = <<k>>
               ELSE lyxp_set_cast(e, out.set, "bool").bool
  IN IF holds THEN PredicateLoop(e, T, [out EXCEPT !.set = st.set], orig, k + 1, i + 1, pred)
     ELSE IF st.set.type # "nodes" THEN Fails(st, "abort")
     ELSE PredicateLoop(e, T, [out EXCEPT !.set = set_remove_node(st.set, i)], orig, k + 1, i, pred)

\* the stacks that the predicate of the node before used up are not restored
PredicateLoopOnce(e, T, st, orig, k, i, pred) ==
  IF k > Len(orig) THEN st
  ELSE IfDone(Eval("or", e, T, [st EXCEPT !.i = pred.b1, !.set = NodeSet(orig, k)]),
              LAMBDA out : NodeKept(e, T, st, out, orig, k, i, pred))

\* the predicate at b1 is evaluated for the k-th of the nodes orig; saved are the
\* stacks, restored up to the first ']'
PredicateLoop(e, T, st, orig, k, i, pred) ==
  IF k > Len(orig) THEN st
  ELSE IfDone(Eval("or", e, T,
                   [st EXCEPT !.i = pred.b1, !.set = NodeSet(orig, k),
                      !.rep = [j \in DOMAIN T |-> IF j \in pred.b1 .. pred.b2 - 1 THEN pred.saved[j]
                                                  ELSE st.rep[j]]]),
              LAMBDA out : NodeKept(e, T, st, out, orig, k, i, pred))

eval_predicate(e, T, st) ==
  LET b1   == st.i + 1
      ends == {j \in b1 .. Len(T) : T[j].c = "brack2"}
      b2   == CHOOSE j \in ends : \A k \in ends : j <= k
      loop == PredicateLoop(e, T, st, st.set.items, 1, 0, [b1 |-> b1, b2 |-> b2, saved |-> st.rep])
      once == IfDone(Eval("or", e, T, [st EXCEPT !.i = b1]),
                     LAMBDA x : [x EXCEPT !.set = IF lyxp_set_cast(e, x.set, "bool").bool THEN st.set
                                                  ELSE EmptySet])
  IN IfDone(IF st.set.type = "nodes" THEN loop ELSE once, LAMBDA x : Skip(x, 1))

EvalPredicates(e, T, st) ==
  IF st.rc = "ok" /\ Is(T, st.i, "brack1") THEN EvalPredicates(e, T, eval_predicate(e, T, st)) ELSE st

eval_step(e, T, st, all_desc) ==
  LET c == IF st.i <= Len(T) THEN T[st.i].c ELSE "none"
  IN CASE c = "dot" -> Take(st, 1, moveto_self(e, st.set, all_desc))
       [] c = "ddot" -> Take(st, 1, moveto_parent(e, st.set, all_desc))
       [] c \in {"at", "nametest", "nodetype"} ->
            EvalPredicates(e, T, eval_node_test(e, T, Skip(st, IF c = "at" THEN 1 ELSE 0), c = "at",
                                                all_desc))
       [] c \notin StartsStep -> Fails(st, "error")

\* the steps that follow the one which ended in st
MoreSteps(e, T, st) ==
  IF st.rc = "ok" /\ Is(T, st.i, "path")
  THEN eval_relative_location_path(e, T, Skip(st, 1), T[st.i].s = "//")
  ELSE st

eval_relative_location_path(e, T, st, all_desc) == MoreSteps(e, T, eval_step(e, T, st, all_desc))

eval_absolute_location_path(e, T, st) ==
  LET root == Take(st, 1, Done(moveto_root(e)))
  IN IF \/ T[st.i].s = "//"
        \/ exp_check_token(T, st.i + 1, "none") /\ T[st.i + 1].c \in StartsStep
     THEN eval_relative_location_path(e, T, root, T[st.i].s = "//") ELSE root

\* every argument is evaluated with an empty context
EvalArgs(e, T, st, args) ==
  LET arg == Eval("or", e, T, [st EXCEPT !.set = EmptySet])
  IN IF arg.rc # "ok" THEN [st |-> arg, args |-> args]
     ELSE IF Is(T, arg.i, "comma") THEN EvalArgs(e, T, Skip(arg, 1), Append(args, arg.set))
     ELSE [st |-> arg, args |-> Append(args, arg.set)]

eval_function_call(e, T, st) ==
  LET open == Skip(st, 2)
      a    == IF Is(T, open.i, "par2") THEN [st |-> open, args |-> <<>>]
              ELSE EvalArgs(e, T, open, <<>>)
  IN IF T[st.i].s \notin FunctionNames THEN Fails(st, "error")
     ELSE IF a.st.rc # "ok" THEN a.st
     ELSE Take(a.st, 1, Call(T[st.i].s, e, a.args, st.set))

eval_path_expr(e, T, st) ==
  LET c == IF st.i <= Len(T) THEN T[st.i].c ELSE "none"
      primary == CASE c = "par1" -> IfDone(Eval("or", e, T, Skip(st, 1)), LAMBDA x : Skip(x, 1))
                   [] c = "funcname" -> eval_function_call(e, T, st)
                   [] c = "literal" -> eval_literal(T, st)
                   [] c = "number" -> eval_number(T, st)
  IN CASE c \in StartsStep -> eval_relative_location_path(e, T, st, FALSE)
       [] c = "path" -> eval_absolute_location_path(e, T, st)
       [] c \in {"par1", "funcname", "literal", "number"} ->
            MoreSteps(e, T, EvalPredicates(e, T, primary))
       [] OTHER -> Fails(st, "error")

Follows(level, T, rep, i) ==
  LET op == exp_repeat_peek(rep, i) IN op # 0 /\ IsOp(level, T[op + 1])

Apply(level, e, set1, set2, op) ==
  CASE level \in {"eq", "rel"} -> moveto_op_comp(e, set1, set2, op)
    [] level \in {"add", "mul"} -> moveto_op_math(e, set1, set2, op)
    [] level = "uni" -> moveto_union(e, set1, set2)

Popped(level, T, rep, i) == IF Follows(level, T, rep, i) THEN exp_repeat_pop(rep, i) ELSE rep

\* the operand of an operator of a level is an expression of the next level
EvalOperand(level, e, T, st, i, set) ==
  LET next == CASE level = "or" -> "and" [] level = "and" -> "eq" [] level = "eq" -> "rel"
                [] level = "rel" -> "add" [] level = "add" -> "mul" [] level = "mul" -> "unary"
                [] level = "uni" -> "path"
  IN Eval(next, e, T, [st EXCEPT !.i = i, !.rep = Popped(level, T, @, i), !.set = set])

\* the cursor is at the operator; its right operand gets the original context
EvalRest(level, e, T, st, orig) ==
  LET more == Follows(level, T, st.rep, st.i + 1)
  IN IfDone(IfDone(EvalOperand(level, e, T, st, st.i + 1, orig),
                   LAMBDA right : Take(right, 0, Apply(level, e, st.set, right.set, T[st.i].s))),
            LAMBDA res : IF more THEN EvalRest(level, e, T, res, orig) ELSE res)

EvalBinary(level, e, T, st) ==
  IfDone(EvalOperand(level, e, T, st, st.i, st.set), LAMBDA left :
    IF Follows(level, T, st.rep, st.i) THEN EvalRest(level, e, T, left, st.set) ELSE left)

Cast(e, st) == [st EXCEPT !.set = lyxp_set_cast(e, @, "bool")]

\* once the result is known the operator is consumed, its operand is not
EvalLogicRest(level, e, T, st, orig) ==
  LET more  == Follows(level, T, st.rep, st.i + 1)
      known == st.set.bool = (level = "or")
  IN IfDone(IF known THEN [st EXCEPT !.i = @ + 1, !.rep = Popped(level, T, @, st.i + 1)]
            ELSE IfDone(EvalOperand(level, e, T, st, st.i + 1, orig), LAMBDA right : Cast(e, right)),
            LAMBDA res : IF more THEN EvalLogicRest(level, e, T, res, orig) ELSE res)

EvalLogic(level, e, T, st) ==
  IfDone(EvalOperand(level, e, T, st, st.i, st.set), LAMBDA left :
    IF Follows(level, T, st.rep, st.i) THEN EvalLogicRest(level, e, T, Cast(e, left), st.set) ELSE left)

RECURSIVE Minuses(_, _)
Minuses(T, i) == IF Is(T, i, "math") /\ T[i].s = "-" THEN 1 + Minuses(T, i + 1) ELSE 0

eval_unary_expr(e, T, st) ==
  LET k == Minuses(T, st.i)
  IN IfDone(EvalBinary("uni", e, T, Skip(st, k)), LAMBDA union :
       IF k % 2 = 1 THEN [union EXCEPT !.set = Negated(e, @)] ELSE union)

eval_multiplicative_expr(e, T, st) == EvalBinary("mul", e, T, st)
eval_additive_expr(e, T, st) == EvalBinary("add", e, T, st)
eval_relational_expr(e, T, st) == EvalBinary("rel", e, T, st)
eval_equality_expr(e, T, st) == EvalBinary("eq", e, T, st)
eval_and_expr(e, T, st) == EvalLogic("and", e, T, st)
eval_expr(e, T, st) == EvalLogic("or", e, T, st)

\* the function that evaluates the operands of a level
Eval(level, e, T, st) ==
  CASE level = "or"  -> eval_expr(e, T, st)
    [] level = "and" -> eval_and_expr(e, T, st)
    [] level = "eq"  -> eval_equality_expr(e, T, st)
    [] level = "rel" -> eval_relational_expr(e, T, st)
    [] level = "add" -> eval_additive_expr(e, T, st)
    [] level = "mul" -> eval_multiplicative_expr(e, T, st)
    [] level = "unary" -> eval_unary_expr(e, T, st)
    [] level = "path"  -> eval_path_expr(e, T, st)

\* the evaluation of an accepted expression from the context node
Evaluate(e, T, rep) ==
  Eval("or", e, T, [i |-> 1, rep |-> rep, rc |-> "ok",
                    set |-> set_insert_node(EmptySet, <<e.cur, "elem">>, 0)])
=============================================================================
