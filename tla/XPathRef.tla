------------------------------ MODULE XPathRef ------------------------------
(***************************************************************************)
(* What an XPath expression means, without tokens, stacks and sets that    *)
(* change in place: the grammar in the head of src/src/xpath.h read as it  *)
(* stands, and the value XPath 1.0 gives to the tree of an expression over *)
(* the part of the data that the context may see.  No definition of this   *)
(* module models code; XPath compares the code with them.                  *)
(*                                                                         *)
(* The tree of an expression is a record with a field op:                  *)
(*   "num" n, "lit" s, "bin" b l r, "neg" x, "call" f args,                *)
(*   "abs" steps, "rel" steps, "from" x preds steps,                       *)
(* and a step is [desc, axis, test, preds]: desc for "//" in front of it,  *)
(* axis one of "child", "attr", "text", "self", "parent".                  *)
(***************************************************************************)
EXTENDS XPathEval

Sym(s) == [c |-> "sym", s |-> s, m |-> "", n |-> 0]
NameLex(m, s) == [c |-> "name", s |-> s, m |-> m, n |-> 0]
LitLex(s) == [c |-> "lit", s |-> s, m |-> "", n |-> 0]
NumLex(n) == [c |-> "num", s |-> "", m |-> "", n |-> n]

Precedence == [b \in {"or", "and", "=", "!=", "<", "<=", ">", ">=", "+", "-", "*", "mod", "|"} |->
                CASE b = "or" -> 1 [] b = "and" -> 2 [] b \in {"=", "!="} -> 3
                  [] b \in {"<", "<=", ">", ">="} -> 4 [] b \in {"+", "-"} -> 5
                  [] b \in {"*", "mod"} -> 6 [] b = "|" -> 8]

OpLex(b) == IF b \in {"or", "and", "mod"} THEN NameLex("", b) ELSE Sym(b)

RECURSIVE TextOf(_, _), StepsText(_, _)
PredsText(preds) ==
  FlattenSeq([i \in DOMAIN preds |-> <<Sym("[")>> \o TextOf(preds[i], 0) \o <<Sym("]")>>])

TestLex(t) == IF t = AnyName THEN Sym("*") ELSE NameLex(t.module, t.name)

StepText(s) ==
  (CASE s.axis = "child" -> <<TestLex(s.test)>>
     [] s.axis = "attr" -> <<Sym("@"), TestLex(s.test)>>
     [] s.axis = "text" -> <<NameLex("", "text"), Sym("("), Sym(")")>>
     [] s.axis = "self" -> <<Sym(".")>>
     [] s.axis = "parent" -> <<Sym("..")>>) \o PredsText(s.preds)

StepsText(steps, first) ==
  IF steps = <<>> THEN <<>>
  ELSE (IF first THEN <<>> ELSE <<Sym(IF steps[1].desc THEN "//" ELSE "/")>>)
       \o StepText(steps[1]) \o StepsText(Tail(steps), FALSE)

\* the text of a tree where an expression of at least the precedence min may stand
TextOf(a, min) ==
  LET par(t, p) == IF p < min THEN <<Sym("(")>> \o t \o <<Sym(")")>> ELSE t
      arg(i) == (IF i = 1 THEN <<>> ELSE <<Sym(",")>>) \o TextOf(a.args[i], 0)
  IN CASE a.op = "num" -> <<NumLex(a.n)>>
       [] a.op = "lit" -> <<LitLex(a.s)>>
       [] a.op = "bin" -> par(TextOf(a.l, Precedence[a.b]) \o <<OpLex(a.b)>>
                              \o TextOf(a.r, Precedence[a.b] + 1), Precedence[a.b])
       [] a.op = "neg" -> par(<<Sym("-")>> \o TextOf(a.x, 7), 7)
       [] a.op = "call" -> <<NameLex("", a.f), Sym("(")>>
                           \o FlattenSeq([i \in DOMAIN a.args |-> arg(i)]) \o <<Sym(")")>>
       [] a.op = "abs" -> IF a.steps = <<>> THEN <<Sym("/")>> ELSE StepsText(a.steps, FALSE)
       [] a.op = "rel" -> StepsText(a.steps, TRUE)
       [] a.op = "from" -> TextOf(a.x, 9) \o PredsText(a.preds) \o StepsText(a.steps, FALSE)

----------------------------------------------------------------------------
(***************************************************************************)
(* The grammar of xpath.h.  Every operator is the set of positions where a *)
(* phrase that begins at i may end in the text X.  A name or a star is an  *)
(* operand or an operator, whatever fits.                                  *)
(***************************************************************************)
IsSym(X, i, s) == i <= Len(X) /\ X[i].c = "sym" /\ X[i].s = s
IsName(X, i) == i <= Len(X) /\ X[i].c = "name"
NodeTypes == {"node", "text", "comment"}

After(X, S, s) == {i + 1 : i \in {j \in S : IsSym(X, j, s)}}

BinaryOps == {"=", "!=", "<", "<=", ">", ">=", "+", "-"}
\* after "/" a star or a name belongs to the path (XPath 1.0, 3.7)
IsBinary(X, i) ==
  \/ \E b \in BinaryOps : IsSym(X, i, b)
  \/ /\ \/ IsSym(X, i, "*")
        \/ IsName(X, i) /\ X[i].m = "" /\ X[i].s \in {"or", "and", "mod"}
     /\ ~IsSym(X, i - 1, "/") /\ ~IsSym(X, i - 1, "//")

RECURSIVE GExpr(_, _), GPreds(_, _), GSteps(_, _), GArgs(_, _), GUnions(_, _), GTerms(_, _)

GNodeTest(X, i) ==
  (IF IsName(X, i) \/ IsSym(X, i, "*") THEN {i + 1} ELSE {})
  \cup (IF IsName(X, i) /\ X[i].m = "" /\ X[i].s \in NodeTypes
        THEN After(X, After(X, {i + 1}, "("), ")") ELSE {})

\* S and the ends of any number of predicates from S
GPreds(X, S) ==
  LET one == UNION {After(X, GExpr(X, i), "]") : i \in After(X, S, "[")}
  IN IF one \subseteq S THEN S ELSE GPreds(X, S \cup one)

GStep(X, i) ==
  After(X, {i}, ".") \cup After(X, {i}, "..")
  \cup GPreds(X, UNION {GNodeTest(X, j) : j \in {i} \cup After(X, {i}, "@")})

\* S and the ends of further steps from S
GSteps(X, S) ==
  LET more == UNION {GStep(X, i) : i \in After(X, S, "/") \cup After(X, S, "//")}
  IN IF more \subseteq S THEN S ELSE GSteps(X, S \cup more)

GRelative(X, i) == GSteps(X, GStep(X, i))

GAbsolute(X, i) ==
  After(X, {i}, "/")
  \cup UNION {GRelative(X, j) : j \in After(X, {i}, "/") \cup After(X, {i}, "//")}

\* arguments up to the closing parenthesis
GArgs(X, i) ==
  LET ends == GExpr(X, i)
  IN After(X, ends, ")") \cup UNION {GArgs(X, j) : j \in After(X, ends, ",")}

GPrimary(X, i) ==
  (IF i <= Len(X) /\ X[i].c \in {"lit", "num"} THEN {i + 1} ELSE {})
  \cup UNION {After(X, GExpr(X, j), ")") : j \in After(X, {i}, "(")}
  \cup (IF IsName(X, i) /\ X[i].m = "" /\ X[i].s \notin NodeTypes
        THEN UNION {After(X, {j}, ")") \cup GArgs(X, j) : j \in After(X, {i + 1}, "(")} ELSE {})

GPath(X, i) ==
  GRelative(X, i) \cup GAbsolute(X, i) \cup GSteps(X, GPreds(X, GPrimary(X, i)))

GUnions(X, S) ==
  LET more == UNION {GPath(X, i) : i \in After(X, S, "|")}
  IN IF more \subseteq S THEN S ELSE GUnions(X, S \cup more)

RECURSIVE GUnary(_, _)
GUnary(X, i) == GUnions(X, GPath(X, i)) \cup UNION {GUnary(X, j) : j \in After(X, {i}, "-")}

GTerms(X, S) ==
  LET more == UNION {GUnary(X, i + 1) : i \in {j \in S : IsBinary(X, j)}}
  IN IF more \subseteq S THEN S ELSE GTerms(X, S \cup more)

GExpr(X, i) == GTerms(X, GUnary(X, i))

InGrammar(X) == Len(X) + 1 \in GExpr(X, 1)

----------------------------------------------------------------------------
(***************************************************************************)
(* The data a context sees (RFC 6020, 7.5.3 and 7.19.5): a configuration   *)
(* node sees the configuration only, a node of an rpc's output its output. *)
(* Without the rules of when and must everything is seen.                  *)
(***************************************************************************)
TheRoot == <<"document", "root">>

InOutput(n) == \E i \in DOMAIN Ancestors(n) : Ancestors(n)[i] \in Output
InInput(n) == \E i \in DOMAIN Ancestors(n) : Ancestors(n)[i] \in Input
TopOf(n) == Last(Ancestors(n))
Seen(e, n) ==
  e.wm => /\ e.cur \in Config /\ Kind[TopOf(e.cur)] \notin {"rpc", "notif"} => n \in Config
          /\ InOutput(e.cur) => ~InInput(n)

TopNodes(e) ==
  IF e.wm /\ InOutput(e.cur) THEN Kids[TopOf(e.cur)] ELSE TopSiblings(TopOf(e.cur))

KidsOf(e, x) ==
  {<<n, "elem">> : n \in {m \in ToSet(CASE x = TheRoot -> TopNodes(e)
                                        [] x # TheRoot /\ x[2] = "elem" -> Children(x[1])
                                        [] OTHER -> <<>>) : Seen(e, m)}}

TextsOf(x) ==
  IF x[2] = "elem" THEN IF Kind[x[1]] \in {"leaf", "leaflist"} /\ Text[x[1]] # <<>>
                        THEN {<<x[1], "text">>} ELSE {}
  ELSE {}

AttrsOf(x) == IF x[2] = "elem" THEN {<<a, "attr">> : a \in ToSet(Attrs[x[1]])} ELSE {}

ParentOf(e, x) ==
  CASE x = TheRoot -> {}
    [] x # TheRoot /\ x[2] = "text" -> {<<x[1], "elem">>}
    [] x # TheRoot /\ x[2] = "attr" -> {<<n, "elem">> : n \in {m \in Node : x[1] \in ToSet(Attrs[m])}}
    [] x # TheRoot /\ x[2] = "elem" ->
         IF x[1] \in ToSet(TopNodes(e)) THEN {TheRoot} ELSE {<<p, "elem">> : p \in Parents(x[1])}

RECURSIVE DescOrSelf(_, _)
DescOrSelf(e, x) == {x} \cup TextsOf(x) \cup UNION {DescOrSelf(e, k) : k \in KidsOf(e, x)}

\* document order: a node, its attributes, its text, its children
DocIndex == [n \in Node |-> IndexIn(Dfs(TopSiblings(TopOf(n)), [m \in Node |-> FALSE]), n)]

Rank(x) ==
  LET owner == CHOOSE n \in Node : x[1] \in ToSet(Attrs[n])
  IN CASE x = TheRoot -> 0
       [] x # TheRoot /\ x[2] = "elem" -> 10 * DocIndex[x[1]]
       [] x # TheRoot /\ x[2] = "attr" -> 10 * DocIndex[owner] + IndexIn(Attrs[owner], x[1])
       [] x # TheRoot /\ x[2] = "text" -> 10 * DocIndex[x[1]] + 9

RECURSIVE InDocOrder(_)
InDocOrder(S) ==
  IF S = {} THEN <<>>
  ELSE LET first == CHOOSE x \in S : \A y \in S : Rank(x) <= Rank(y)
       IN <<first>> \o InDocOrder(S \ {first})

----------------------------------------------------------------------------
(***************************************************************************)
(* Values: Boolean, Number and String of XPathSet, and sets of items.      *)
(***************************************************************************)
Items(S) == [type |-> "items", set |-> S]

StringValue(x) ==
  CASE x[2] = "attr" -> AttrText[x[1]]
    [] x[2] \in {"elem", "text"} ->
         IF Kind[x[1]] \in LeafKinds THEN Text[x[1]]
         ELSE FlattenSeq([i \in DOMAIN Dfs(<<x[1]>>, [m \in Node |-> FALSE]) |->
                            Text[Dfs(<<x[1]>>, [m \in Node |-> FALSE])[i]]])
    [] x[2] = "root" -> <<>>

ToStr(v) ==
  CASE v.type = "str" -> v.str
    [] v.type = "num" -> <<Digits(v.num)>>
    [] v.type = "bool" -> <<IF v.bool THEN "true" ELSE "false">>
    [] v.type = "items" -> IF v.set = {} THEN <<>> ELSE StringValue(InDocOrder(v.set)[1])

ToNum(v) ==
  CASE v.type = "num" -> v.num
    [] v.type = "bool" -> <<IF v.bool THEN 1 ELSE 0>>
    [] OTHER -> IF Len(ToStr(v)) = 1 THEN NumberOf[ToStr(v)[1]] ELSE NaN

ToBool(v) ==
  CASE v.type = "bool" -> v.bool
    [] v.type = "num" -> v.num \notin {NaN, <<0>>}
    [] v.type = "str" -> v.str # <<>>
    [] v.type = "items" -> v.set # {}

\* the scalars a side of a comparison stands for
Scalars(v, other) ==
  IF v.type # "items" THEN {v}
  ELSE IF other.type = "bool" THEN {Boolean(v.set # {})}
  ELSE {String(StringValue(x)) : x \in v.set}

CompareScalars(v, w, b) ==
  IF b \in {"=", "!="}
  THEN IF "bool" \in {v.type, w.type} THEN Compare(ToBool(v), ToBool(w), b)
       ELSE IF "num" \in {v.type, w.type} THEN CompareNumbers(ToNum(v), ToNum(w), b)
       ELSE Compare(ToStr(v), ToStr(w), b)
  ELSE CompareNumbers(ToNum(v), ToNum(w), b)

Arith(m, n, b) ==
  IF NaN \in {m, n} THEN NaN
  ELSE <<CASE b = "+" -> m[1] + n[1] [] b = "-" -> m[1] - n[1] [] b = "*" -> m[1] * n[1]
           [] b = "mod" -> Remainder(m[1], n[1])>>

Plus(m, n) == Arith(m, n, "+")

RECURSIVE Value(_, _, _), Steps(_, _, _), Filter(_, _, _)

\* the items of the sequence s that satisfy the predicates one after the other
Filter(e, s, preds) ==
  LET holds(i) == LET v == Value(e, preds[1], [x |-> s[i], pos |-> i, size |-> Len(s)])
                  IN IF v.type = "num" THEN v.num = <<i>> ELSE ToBool(v)
      kept == SelectSeq([i \in DOMAIN s |-> i], LAMBDA i : holds(i))
  IN IF preds = <<>> THEN s ELSE Filter(e, [i \in DOMAIN kept |-> s[kept[i]]], Tail(preds))

OneStep(e, s, x) ==
  LET named(S) == {y \in S : Matches(s.test, y[1])}
      axis(z) == CASE s.axis = "child" -> named(KidsOf(e, z))
                   [] s.axis = "attr" -> {y \in AttrsOf(z) : AttrMatches(s.test, y[1])}
                   [] s.axis = "text" -> TextsOf(z)
                   [] s.axis = "self" -> {z}
                   [] s.axis = "parent" -> ParentOf(e, z)
  IN UNION {ToSet(Filter(e, InDocOrder(axis(z)), s.preds)) :
              z \in IF s.desc THEN DescOrSelf(e, x) ELSE {x}}

Steps(e, steps, S) ==
  IF steps = <<>> THEN S ELSE Steps(e, Tail(steps), UNION {OneStep(e, steps[1], x) : x \in S})

Function(e, f, args, c) ==
  LET v == IF args = <<>> THEN Items({c.x}) ELSE args[1]
  IN CASE f = "true" -> Boolean(TRUE) [] f = "false" -> Boolean(FALSE)
       [] f = "not" -> Boolean(~ToBool(v)) [] f = "boolean" -> Boolean(ToBool(v))
       [] f = "number" -> Number(ToNum(v)) [] f = "string" -> String(ToStr(v))
       [] f = "count" -> Number(<<Cardinality(v.set)>>)
       [] f = "sum" -> LET s == InDocOrder(v.set)
                       IN Number(FoldLeft(Plus, <<0>>,
                                          [i \in DOMAIN s |-> ToNum(String(StringValue(s[i])))]))
       [] f = "current" -> Items({<<e.cur, "elem">>})
       [] f = "last" -> Number(<<c.size>>) [] f = "position" -> Number(<<c.pos>>)
       [] f = "local-name" ->
            String(IF v.set = {} THEN <<>>
                   ELSE LET x == InDocOrder(v.set)[1]
                        IN CASE x[2] = "elem" -> <<Name[x[1]]>> [] x[2] = "attr" -> <<AttrName[x[1]]>>
                             [] OTHER -> <<>>)

\* the value of the tree a in the context c: an item, its position and their number
Value(e, a, c) ==
  CASE a.op = "num" -> Number(<<a.n>>)
    [] a.op = "lit" -> String(IF a.s = "" THEN <<>> ELSE <<a.s>>)
    [] a.op = "neg" -> LET n == ToNum(Value(e, a.x, c)) IN Number(IF n = NaN THEN NaN ELSE <<-n[1]>>)
    [] a.op = "call" -> Function(e, a.f, [i \in DOMAIN a.args |-> Value(e, a.args[i], c)], c)
    [] a.op = "abs" -> Items(Steps(e, a.steps, {TheRoot}))
    [] a.op = "rel" -> Items(Steps(e, a.steps, {c.x}))
    [] a.op = "from" ->
         LET v == Value(e, a.x, c)
         IN IF a.preds = <<>> /\ a.steps = <<>> THEN v
            ELSE Items(Steps(e, a.steps, ToSet(Filter(e, InDocOrder(v.set), a.preds))))
    [] a.op = "bin" ->
         LET v == Value(e, a.l, c)
             w == Value(e, a.r, c)
         IN CASE a.b = "or" -> Boolean(ToBool(v) \/ ToBool(w))
              [] a.b = "and" -> Boolean(ToBool(v) /\ ToBool(w))
              [] a.b \in {"=", "!=", "<", "<=", ">", ">="} ->
                   Boolean(\E s \in Scalars(v, w), t \in Scalars(w, v) : CompareScalars(s, t, a.b))
              [] a.b \in {"+", "-", "*", "mod"} -> Number(Arith(ToNum(v), ToNum(w), a.b))
              [] a.b = "|" -> Items(v.set \cup w.set)
=============================================================================
