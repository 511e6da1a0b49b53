------------------------------ MODULE MCXPath -------------------------------
(***************************************************************************)
(* Three documents and the expressions evaluated on them.                  *)
(*                                                                         *)
(*   c  container             d  leaf "2"       r  rpc         n  notif    *)
(*     l1 list x                                  i1 in "1"      v leaf    *)
(*       a1 leaf a "1"                            q1 out "2"               *)
(*       b1 leaf b "2"                                                     *)
(*     l2 list x, @m:p                                                     *)
(*       a2 leaf a "2"                                                     *)
(*     s  container, state                                                 *)
(*       a3 leaf a "1", state                                              *)
(*     o  leaf named or, "1"                                               *)
(***************************************************************************)
EXTENDS XPath

MCTrees == {<<"c", "d">>, <<"r">>, <<"n">>}
MCNode == {"c", "l1", "a1", "b1", "l2", "a2", "s", "a3", "o", "d", "r", "i1", "q1", "n", "v"}
MCKids == [n \in MCNode |->
            CASE n = "c" -> <<"l1", "l2", "s", "o">> [] n = "l1" -> <<"a1", "b1">>
              [] n = "l2" -> <<"a2">> [] n = "s" -> <<"a3">> [] n = "r" -> <<"i1", "q1">>
              [] n = "n" -> <<"v">> [] OTHER -> <<>>]
MCName == [n \in MCNode |->
            CASE n \in {"a1", "a2", "a3"} -> "a" [] n = "b1" -> "b" [] n \in {"l1", "l2"} -> "x"
              [] n = "o" -> "or" [] n \in {"i1", "q1", "v"} -> "y" [] OTHER -> n]
MCKind == [n \in MCNode |->
            CASE n \in {"c", "s"} -> "container" [] n \in {"l1", "l2"} -> "list" [] n = "r" -> "rpc"
              [] n = "n" -> "notif" [] OTHER -> "leaf"]
MCModule == [n \in MCNode |-> IF n = "b1" THEN "k" ELSE "m"]
MCConfig == MCNode \ {"s", "a3", "r", "i1", "q1", "n", "v"}
MCText == [n \in MCNode |->
            CASE n \in {"a1", "a3", "o", "i1"} -> <<"1">> [] n \in {"b1", "a2", "d", "q1"} -> <<"2">>
              [] OTHER -> <<>>]
MCAttrs == [n \in MCNode |-> IF n = "l2" THEN <<"p">> ELSE <<>>]
MCInput == {"i1"}
MCOutput == {"q1"}
MCAttrName == [p \in {"p"} |-> "p"]
MCAttrModule == [p \in {"p"} |-> "m"]
MCAttrText == [p \in {"p"} |-> <<"7">>]
MCModels == {"m", "k"}
MCNumberOf == [p \in {"1", "2", "7", "z", "true", "false"} |->
                CASE p = "1" -> <<1>> [] p = "2" -> <<2>> [] p = "7" -> <<7>> [] OTHER -> <<>>]

Num(n) == [op |-> "num", n |-> n]
Lit(s) == [op |-> "lit", s |-> s]
Bin(l, b, r) == [op |-> "bin", b |-> b, l |-> l, r |-> r]
Neg(x) == [op |-> "neg", x |-> x]
Func(f, args) == [op |-> "call", f |-> f, args |-> args]
Abs(steps) == [op |-> "abs", steps |-> steps]
Rel(steps) == [op |-> "rel", steps |-> steps]
FromTo(x, steps) == [op |-> "from", x |-> x, preds |-> <<>>, steps |-> steps]

StepTo(desc, axis, m, s, preds) ==
  [desc |-> desc, axis |-> axis, test |-> [module |-> m, name |-> s], preds |-> preds]
Child(s) == StepTo(FALSE, "child", "", s, <<>>)
ChildIf(s, p) == StepTo(FALSE, "child", "", s, p)
Anywhere(s) == StepTo(TRUE, "child", "", s, <<>>)
Up == StepTo(FALSE, "parent", "", "*", <<>>)
Self == StepTo(FALSE, "self", "", "*", <<>>)
TextStep == StepTo(FALSE, "text", "", "*", <<>>)
AttrP == StepTo(FALSE, "attr", "m", "p", <<>>)
Deep(s) == [s EXCEPT !.desc = TRUE]

Written(a) == [text |-> TextOf(a, 0), tree |-> a]
Request(kind, cur, exprs) == [kind |-> kind, cur |-> cur, exprs |-> exprs]
Musts(contexts, trees) == {Request("must", n, <<Written(a)>>) : n \in contexts, a \in trees}
Gets(contexts, trees) == {Request("get", n, <<Written(a)>>) : n \in contexts, a \in trees}

MustContexts == {"c", "l1", "a1", "o", "d", "s", "a3", "i1", "q1", "v"}
GetContexts == {"c", "l1", "a1", "a3"}
Below2 == {"l1", "a1", "o", "a3"}    \* contexts below a container or a list

----------------------------------------------------------------------------
(***************************************************************************)
(* Paths.  Left out, because the code differs from XPath there: "//" in    *)
(* front of text(), node() and an attribute, "//." and "//.." from the     *)
(* root, and ".." to the root in lyd_get_node.                             *)
(***************************************************************************)
Forward == {Child("a"), Child("x"), Child("*"), Self, TextStep, AttrP}
Onward == Forward \cup {Up, Anywhere("a"), Anywhere("x"), Anywhere("*"), Deep(Self), Deep(Up)}
FirstAbs == {Child("c"), Child("r"), Child("*"), Anywhere("a"), Anywhere("x"), Anywhere("*")}

Paths == {Abs(<<>>)} \cup {Rel(<<s>>) : s \in Forward \cup {Up}} \cup {Abs(<<s>>) : s \in FirstAbs}
         \cup {Rel(<<s, t>>) : s \in Forward, t \in Onward} \cup {Abs(<<s, t>>) : s \in FirstAbs, t \in Onward}
UpPaths == {Rel(<<Up, t>>) : t \in Onward} \cup {Rel(<<Up, s, t>>) : s \in Forward, t \in Onward}
LongPaths == {Abs(<<Child("c"), s, t>>) : s \in Onward \ {Up, Deep(Up)}, t \in Onward}
NoUp(a) == \A i \in DOMAIN a.steps : a.steps[i].axis # "parent"

PathRequests ==
  Musts(MustContexts, Paths) \cup Musts(Below2, UpPaths) \cup Musts({"c", "a3"}, LongPaths)
  \cup Gets(GetContexts, {a \in Paths : NoUp(a)}) \cup Gets({"a1", "a3"}, {Rel(<<Up, t>>) : t \in Forward})

(***************************************************************************)
(* Predicates: on one step whose context is one node, or without a         *)
(* position; the paths in them have one step.                              *)
(***************************************************************************)
Here(s) == Rel(<<Child(s)>>)
Positions == {Num(1), Num(2), Func("last", <<>>), Bin(Func("position", <<>>), "=", Num(2)),
              Bin(Num(3), "-", Num(1)), Bin(Func("last", <<>>), "-", Num(1)),
              Bin(Func("position", <<>>), "<", Func("last", <<>>))}
Conditions == {Here("b"), Bin(Here("a"), "=", Lit("1")), Bin(Here("a"), "!=", Num(1)),
               Bin(Bin(Here("a"), "+", Num(1)), "=", Num(2)), Bin(Here("a"), "<", Bin(Num(1), "+", Num(1))),
               Bin(Num(1), "=", Here("a")), Func("true", <<>>), Func("false", <<>>)}
PredicatePaths ==
  {Rel(<<ChildIf("x", <<p>>)>>) : p \in Positions \cup Conditions}
  \cup {Abs(<<Child("c"), ChildIf(s, <<p>>)>>) : s \in {"x", "*"}, p \in Positions}
  \cup {Abs(<<Child("c"), ChildIf("x", <<p, q>>)>>) : p \in Conditions, q \in {Num(1), Func("last", <<>>)}}
  \cup {Abs(<<Child("c"), ChildIf("x", <<p>>), Child("a")>>) : p \in Positions \cup Conditions}

----------------------------------------------------------------------------
(***************************************************************************)
(* Operators on numbers.  Left out: an order of two booleans and mod by an *)
(* expression, which may be zero.                                          *)
(***************************************************************************)
MathOps == {"+", "-", "*", "mod"}
Orders == {"<", ">="}
Operators == MathOps \cup Orders \cup {"=", "!="}
Truth(a) == a.op = "bin" /\ a.b \in Orders \cup {"=", "!="}
Fine(a) == /\ a.b \in Orders => ~(Truth(a.l) /\ Truth(a.r))
           /\ a.b = "mod" => a.r.op = "num"
Leaves2 == {Num(1), Num(2)}
Pairs == {Bin(m, b, n) : m \in Leaves2, b \in Operators, n \in Leaves2}
Triples == {a \in {Bin(p, b, n) : p \in Pairs, b \in Operators, n \in Leaves2}
                  \cup {Bin(n, b, p) : p \in Pairs, b \in Operators, n \in Leaves2} : Fine(a)}
Fours == {a \in {Bin(Bin(Num(1), b, Num(2)), d, Bin(Num(2), f, Num(1))) :
                   b \in Operators, d \in Operators, f \in Operators} : Fine(a)}
Negatives == {Neg(a) : a \in Pairs} \cup {Bin(Num(1), b, Neg(Num(2))) : b \in MathOps \ {"mod"}}
             \cup {Neg(Neg(Bin(Num(2), "*", Neg(Num(2)))))}

----------------------------------------------------------------------------
(***************************************************************************)
(* Unions, functions and comparisons.  Left out: relative paths in the     *)
(* arguments of functions, comparisons of node sets with no or with more   *)
(* than one node, position() outside of predicates.                        *)
(***************************************************************************)
CPath(s, t) == Abs(<<Child("c"), s, t>>)
SomeSets == {Abs(<<Child("c"), Child("x")>>), Abs(<<Anywhere("a")>>), Abs(<<Child("c"), Child("*")>>),
             Abs(<<Child("d")>>), Abs(<<Child("z")>>)}
Unions == {Bin(p, "|", q) : p \in SomeSets, q \in SomeSets}
          \cup {Bin(p, "|", Rel(<<Self>>)) : p \in SomeSets} \cup {Bin(Rel(<<Self>>), "|", p) : p \in SomeSets}
          \cup {Bin(Bin(p, "|", q), "|", r) : p \in SomeSets, q \in SomeSets, r \in {Abs(<<Child("d")>>)}}
Single == {CPath(Child("s"), Child("a")), CPath(ChildIf("x", <<Num(2)>>), Child("a")), Abs(<<Child("d")>>)}
Calls == {Func(f, <<p>>) : f \in {"count", "boolean", "not"}, p \in SomeSets \cup {Bin(q, "|", r) : q \in SomeSets, r \in SomeSets}}
         \cup {Func(f, <<p>>) : f \in {"sum", "number", "string", "local-name"}, p \in Single}
         \cup {Func("sum", <<Abs(<<Anywhere("a")>>)>>), Func("string", <<Bin(Num(1), "+", Num(1))>>),
               Func("not", <<Func("not", <<Func("true", <<>>)>>)>>), Func("number", <<Lit("2")>>),
               FromTo(Func("current", <<>>), <<Up>>), Func("last", <<>>)}
         \cup {Bin(Func("count", <<p>>), b, Func("count", <<q>>)) :
                 p \in SomeSets, q \in SomeSets, b \in {"+", "<"}}
Comparisons == {Bin(p, b, q) : p \in Single, b \in {"=", "!=", "<"},
                               q \in Single \cup {Num(1), Lit("1"), Lit("z"), Bin(Num(1), "+", Num(1))}}
               \cup {Bin(q, b, p) : p \in Single, b \in {"=", ">="}, q \in {Num(1), Lit("1")}}
               \cup {Bin(p, "=", Func(f, <<>>)) : p \in SomeSets, f \in {"true", "false"}}
OfLeaf == {Func(f, <<>>) : f \in {"number", "string", "local-name", "last"}}

\* "and" and "or" of which no operand is skipped
Yes == {Func("true", <<>>), Bin(Num(1), "=", Num(1)), Abs(<<Child("c")>>)}
No == {Func("false", <<>>), Bin(Num(1), "=", Num(2)), Abs(<<Child("z")>>)}
NoSkip == {Bin(y, "and", x) : y \in Yes, x \in Yes \cup No} \cup {Bin(n, "or", x) : n \in No, x \in Yes \cup No}
Logic == NoSkip \cup {Bin(Bin(y, "and", z), "and", x) : y \in Yes, z \in Yes, x \in Yes \cup No}
         \cup {Bin(Bin(y, "and", n), "or", x) : y \in Yes, n \in No, x \in NoSkip}
         \cup {Bin(n, "or", x) : n \in No, x \in NoSkip} \cup {Func("not", <<x>>) : x \in NoSkip}

TwoMusts == {Request("must", "c", <<Written(x), Written(y)>>) :
               x \in {Here("x"), Here("z")}, y \in {Here("x"), Func("count", <<Abs(<<Anywhere("x")>>)>>), Here("z")}}

\* "and" and "or" with an operand that need not be evaluated, the last one as in
\* the example in xpath.h
Lazy == {Bin(Bin(n, "and", x), "or", y) : n \in No, x \in Yes \cup No, y \in Yes \cup No}
        \cup {Abs(<<Child("c"), ChildIf("x", <<Bin(Bin(Here("b"), "and", Here("a")), "or",
                                                 Bin(Here("a"), "<", Num(3)))>>)>>)}

----------------------------------------------------------------------------
(***************************************************************************)
(* Texts for the check of the grammar.  Left out: node() and text() after  *)
(* "@", which are refused, and a star in front of "(", which is accepted   *)
(* when a name stands somewhere before it.                                 *)
(***************************************************************************)
Lexemes == {Sym(s) : s \in {"(", ")", "[", "]", ".", "@", "/", "-", "*", "|", ","}}
           \cup {NameLex("", "a"), NameLex("", "or"), NameLex("", "text"), NumLex(1)}
FewLexemes == {Sym("("), Sym(")"), Sym("["), Sym("]"), NameLex("", "a"), NameLex("", "or")}
Texts == {t \in UNION {[1 .. k -> Lexemes] : k \in 1 .. 4} \cup [1 .. 5 -> FewLexemes] :
            \A i \in 1 .. Len(t) - 1 :
              /\ ~(IsSym(t, i, "@") /\ t[i + 1] = NameLex("", "text"))
              /\ ~(IsSym(t, i, "*") /\ IsSym(t, i + 1, "("))}

MCRequests ==
  PathRequests
  \cup Musts({"c"}, PredicatePaths) \cup Gets({"c"}, PredicatePaths)
  \cup Musts({"c"}, Triples \cup Fours \cup Negatives \cup Logic)
  \cup Musts({"s"}, Unions \cup Calls \cup Comparisons) \cup Musts({"c"}, Unions)
  \cup Musts({"a1", "d"}, OfLeaf) \cup TwoMusts
  \cup {Request("check", "c", <<[text |-> t, tree |-> [op |-> "none"]]>>) : t \in Texts}

LazyRequests == Musts({"c"}, Lazy)
=============================================================================
