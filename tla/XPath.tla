------------------------------- MODULE XPath --------------------------------
(***************************************************************************)
(* One use of the XPath evaluator at a time: lyxp_syntax_check of a text,  *)
(* lyd_get_node with an expression, or resolve_must with the musts of the  *)
(* schema of a data node.  Each of them splits the text, checks its        *)
(* grammar and evaluates it (lyxp_eval, src/src/xpath.c); a request        *)
(*   [kind, cur, exprs]                                                    *)
(* carries its expressions as records [text, tree]: the lexemes, and the   *)
(* tree they were written from ([op |-> "none"] for an arbitrary text).    *)
(***************************************************************************)
EXTENDS XPathRef

CONSTANTS
  Requests,
  Junk      \* what newly allocated memory may hold in a context position

VARIABLES
  req,     \* the request
  at,      \* the expression of req.exprs in use
  phase,   \* "text", "tokens", "checked", "evaluated", "done"
  toks,    \* struct lyxp_expr: the tokens
  rep,     \*   and the stacks of operators
  out,     \* the state the evaluation ended in: cursor, stacks, set and code
  answer   \* what the caller got: a verdict rc, and the nodes found

vars == <<req, at, phase, toks, rep, out, answer>>

Expression == req.exprs[at]
Env(junk) == [cur |-> req.cur, wm |-> (req.kind = "must"), junk |-> junk]
env == Env(0)
NoAnswer == [rc |-> "none", nodes |-> <<>>]
Nothing == [i |-> 1, rep |-> <<>>, set |-> EmptySet, rc |-> "none"]

Init ==
  /\ req \in Requests
  /\ at = 1 /\ phase = "text"
  /\ toks = <<>> /\ rep = <<>> /\ out = Nothing
  /\ answer = NoAnswer

\* the text is split into tokens
Split ==
  LET x == parse_expr(Expression.text)
  IN /\ phase = "text"
     /\ toks' = x.toks
     /\ phase' = IF x.ok THEN "tokens" ELSE "done"
     /\ answer' = [answer EXCEPT !.rc = IF x.ok THEN @ ELSE "refused"]
     /\ UNCHANGED <<req, at, rep, out>>

\* the tokens are checked and the stacks filled; a syntax check ends here
Reparse ==
  LET st == Reparsed(toks)
  IN /\ phase = "tokens"
     /\ rep' = IF st.ok THEN st.rep ELSE <<>>
     /\ phase' = IF st.ok /\ req.kind # "check" THEN "checked" ELSE "done"
     /\ answer' = [answer EXCEPT !.rc = IF ~st.ok THEN "refused"
                                        ELSE IF req.kind = "check" THEN "accepted" ELSE @]
     /\ UNCHANGED <<req, at, toks, out>>

lyxp_eval ==
  /\ phase = "checked"
  /\ \E junk \in Junk : out' = Evaluate(Env(junk), toks, rep)
  /\ phase' = "evaluated"
  /\ UNCHANGED <<req, at, toks, rep, answer>>

\* the nodes of a set, without attributes and roots and every one once
lyd_get_node ==
  LET nodes == SelectSeq(out.set.items, LAMBDA x : x[2] \in {"elem", "text"})
      add(s, x) == IF \E i \in DOMAIN s : s[i] = x[1] THEN s ELSE Append(s, x[1])
  IN /\ phase = "evaluated" /\ req.kind = "get"
     /\ answer' = [rc |-> out.rc,
                    nodes |-> IF out.rc = "ok" /\ out.set.type = "nodes"
                              THEN FoldLeft(add, <<>>, nodes) ELSE <<>>]
     /\ phase' = "done"
     /\ UNCHANGED <<req, at, toks, rep, out>>

\* a must that holds is followed by the next one
resolve_must ==
  LET holds == lyxp_set_cast(env, out.set, "bool").bool
      next  == out.rc = "ok" /\ holds /\ at < Len(req.exprs)
  IN /\ phase = "evaluated" /\ req.kind = "must"
     /\ answer' = [answer EXCEPT !.rc = IF out.rc # "ok" THEN out.rc
                                        ELSE IF ~holds THEN "violated"
                                        ELSE IF next THEN @ ELSE "satisfied"]
     /\ phase' = IF next THEN "text" ELSE "done"
     /\ at' = IF next THEN at + 1 ELSE at
     /\ IF next THEN toks' = <<>> /\ rep' = <<>> /\ out' = Nothing
                ELSE UNCHANGED <<toks, rep, out>>
     /\ UNCHANGED req

Terminated == phase = "done" /\ UNCHANGED vars

Next == Split \/ Reparse \/ lyxp_eval \/ lyd_get_node \/ resolve_must \/ Terminated

Spec == Init /\ [][Next]_vars

----------------------------------------------------------------------------
(***************************************************************************)
(* Properties.                                                             *)
(***************************************************************************)
IsTree == Expression.tree.op # "none"

\* The lexer decides from the token before it whether a name or a star is an
\* operator, and reparse_expr goes through the tokens once without going back;
\* together they accept exactly the texts that the grammar in xpath.h derives
\* under some reading of their names and stars.
GrammarExact ==
  /\ phase = "done" /\ req.kind = "check" => (answer.rc = "accepted") = InGrammar(Expression.text)
  /\ IsTree => answer.rc # "refused"

ItemOf(x) == IF x[2] \in Roots THEN TheRoot ELSE x

\* the value a set of the code stands for
Abstract(set) ==
  CASE set.type = "empty" -> Items({})
    [] set.type = "nodes" -> Items({ItemOf(x) : x \in ToSet(set.items)})
    [] OTHER -> set

\* eval_expr, which works on one set that changes in place and finds its operands
\* through the stacks only, yields the value XPath gives to the tree the text was
\* written from: precedence and associativity of the operators, the context of every
\* operand, step and predicate, and the nodes that the access rules hide.
EvalExact ==
  phase = "evaluated" /\ IsTree =>
    /\ out.rc = "ok"
    /\ Abstract(out.set) = Value(env, Expression.tree, [x |-> <<req.cur, "elem">>, pos |-> 1, size |-> 1])

\* The answer of lyd_get_node, and any resulting node set, is in document order and
\* has no node twice, however the moves replaced, appended and removed nodes: the
\* sort caches the positions of two nodes and guesses which one to compute again.
DocOrder ==
  /\ phase = "evaluated" /\ out.set.type = "nodes" =>
       \A i, j \in DOMAIN out.set.items :
         i < j => Rank(ItemOf(out.set.items[i])) < Rank(ItemOf(out.set.items[j]))
  /\ \A i, j \in DOMAIN answer.nodes :
       i < j => Rank(<<answer.nodes[i], "elem">>) < Rank(<<answer.nodes[j], "elem">>)

\* An evaluation that succeeds has read the whole text and used up every operator
\* that reparse_expr noted, also in the predicates it evaluated once for every node.
StacksUsed ==
  phase = "evaluated" /\ out.rc = "ok" =>
    /\ out.i = Len(toks) + 1
    /\ \A i \in DOMAIN out.rep : out.rep[i] = <<>>
=============================================================================
