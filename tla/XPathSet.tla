------------------------------ MODULE XPathSet ------------------------------
(***************************************************************************)
(* The partial results of the XPath evaluator (struct lyxp_set), the       *)
(* conversions between them, the moves along a path and the operators,     *)
(* src/src/xpath.c.  The build modelled is the default one of              *)
(* CMakeLists.txt (debug: an assert that fails aborts the program).        *)
(*                                                                         *)
(* A set is a record with a type:                                          *)
(*   "empty"; "nodes": a sequence of items with the context position pos   *)
(*   (from 1, 0 outside of predicates); "bool"; "num": <<n>> or <<>> for   *)
(*   NaN; "str": the sequence of the pieces of text it consists of.        *)
(* An item is <<node, "elem">>, <<node, "text">>, <<attribute, "attr">> or *)
(* <<node, root>> with one of the five kinds of root.  Numbers are         *)
(* integers: div is not modelled.                                          *)
(***************************************************************************)
EXTENDS Integers, Sequences, FiniteSets, SequencesExt

CONSTANTS
  Node,      \* data nodes, struct lyd_node
  Trees,     \* sequences of top level siblings
  Kids,      \* Kids[n]: the children of n, in order
  Name, Kind, Module,   \* name, nodetype and module of the schema of a node
  Config,    \* nodes with LYS_CONFIG_W; the others have LYS_CONFIG_R
  Input, Output,  \* nodes whose schema parent is an rpc's input, output
  Text,      \* Text[n]: the pieces of the value of a leaf, <<>> for none
  Attrs,     \* Attrs[n]: the attributes of n, in order
  AttrName, AttrModule, AttrText,
  NumberOf,  \* NumberOf[p]: what strtold reads from the piece of text p
  Models     \* the names of the modules of the context

LeafKinds == {"leaf", "leaflist", "anyxml"}
Roots == {"root_config", "root_state", "root_notif", "root_rpc", "root_output"}

Children(n) == IF Kind[n] \in LeafKinds THEN <<>> ELSE Kids[n]

ParentSets == [n \in Node |-> {p \in Node : \E i \in DOMAIN Kids[p] : Kids[p][i] = n}]
Parents(n) == ParentSets[n]

Parent(n) == CHOOSE p \in Parents(n) : TRUE

RECURSIVE Ancestors(_)
\* n, its parent, and so on to a top level node
Ancestors(n) == IF Parents(n) = {} THEN <<n>> ELSE <<n>> \o Ancestors(Parent(n))

TopSiblings(n) == CHOOSE t \in Trees : \E i \in DOMAIN t : t[i] = n

----------------------------------------------------------------------------
(***************************************************************************)
(* The values of a set.                                                    *)
(***************************************************************************)
EmptySet == [type |-> "empty"]
NodeSet(items, pos) == [type |-> "nodes", items |-> items, pos |-> pos]
Boolean(b) == [type |-> "bool", bool |-> b]
Number(n) == [type |-> "num", num |-> n]
String(s) == [type |-> "str", str |-> s]
NaN == <<>>

\* what a call returns: EXIT_SUCCESS with the set, -1, or an assert aborts
Done(set) == [rc |-> "ok", set |-> set]
Error == [rc |-> "error", set |-> EmptySet]
Abort == [rc |-> "abort", set |-> EmptySet]

\* an error is returned at once, a set is passed on to the next call
Then(r, F(_)) == IF r.rc = "ok" THEN F(r.set) ELSE r

----------------------------------------------------------------------------
(***************************************************************************)
(* The root an evaluation sees.  e is the environment of an evaluation:    *)
(* e.cur the original context node, e.wm whether the access rules of when  *)
(* and must apply, e.junk what newly allocated memory holds.               *)
(***************************************************************************)
StopAt(up) ==
  Min({Len(up)} \cup {i \in DOMAIN up : i > 1 /\ Kind[up[i]] \in {"rpc", "notif"}})

\* up are the context node and its ancestors, at is the one the search ends at
RootAt(e, up, at) ==
  CASE ~e.wm -> [node |-> Last(up), type |-> "root_state"]
    [] e.wm /\ Kind[up[at]] = "notif" -> [node |-> up[at], type |-> "root_notif"]
    [] e.wm /\ Kind[up[at]] = "rpc" ->
         [node |-> up[at],
          type |-> IF at > 1 /\ up[at - 1] \in Output THEN "root_output" ELSE "root_rpc"]
    [] OTHER ->
         [node |-> TopSiblings(Last(up))[1],
          type |-> IF e.cur \in Config THEN "root_config" ELSE "root_state"]

moveto_get_root(e) == RootAt(e, Ancestors(e.cur), StopAt(Ancestors(e.cur)))

\* state data is shown to a configuration context
HiddenButState(rt, n) ==
  \/ rt = "root_output" /\ n \in Input
  \/ rt # "root_notif" /\ Kind[n] = "notif"
  \/ rt # "root_rpc" /\ Kind[n] = "rpc"

\* the context check made wherever nodes are visited
Hidden(rt, n) ==
  \/ rt = "root_config" /\ n \notin Config
  \/ rt = "root_output" /\ n \in Input
  \/ rt # "root_notif" /\ Kind[n] = "notif"
  \/ rt # "root_rpc" /\ Kind[n] = "rpc"

\* n and its following siblings
From(n) ==
  LET sibs == IF Parents(n) = {} THEN TopSiblings(n) ELSE Kids[Parent(n)]
  IN SubSeq(sibs, CHOOSE i \in DOMAIN sibs : sibs[i] = n, Len(sibs))

RECURSIVE Dfs(_, _)
\* the nodes below the siblings ns in document order, those Skip[n] left out
Dfs(ns, Skip) ==
  IF ns = <<>> THEN <<>>
  ELSE (IF Skip[ns[1]] THEN <<>> ELSE <<ns[1]>> \o Dfs(Children(ns[1]), Skip))
       \o Dfs(Tail(ns), Skip)

IndexIn(s, x) == CHOOSE i \in DOMAIN s : s[i] = x

\* the walk get_node_pos makes to find a node, and what it returns: one past the
\* last position for a node that the walk misses
NodeWalk(r) ==
  LET ns == IF r.type = "root_output" THEN Children(r.node) ELSE From(r.node)
  IN Dfs(ns, [m \in Node |-> \/ r.type = "root_config" /\ m \notin Config
                             \/ r.type = "root_output" /\ m \in Input])

get_node_pos(n, type, r) ==
  IF type \in Roots THEN 0
  ELSE IF \E i \in DOMAIN r.walk : r.walk[i] = n THEN IndexIn(r.walk, n) ELSE Len(r.walk) + 1

get_attr_pos(a, n) == IndexIn(Attrs[n], a) - 1

\* lyd_attr_parent walks the tree below root only, not root's siblings
AttrParents(root, a) ==
  {n \in ToSet(Dfs(<<root>>, [m \in Node |-> FALSE])) : \E i \in DOMAIN Attrs[n] : Attrs[n][i] = a}

----------------------------------------------------------------------------
(***************************************************************************)
(* Node sets.                                                              *)
(***************************************************************************)
\* idx counts from 0 as in the code
set_insert_node(set, item, idx) ==
  IF set.type = "empty" THEN NodeSet(<<item>>, 0)
  ELSE LET at == IF idx > Len(set.items) THEN Len(set.items) ELSE idx
       IN NodeSet(InsertAt(set.items, at + 1, item),
                  IF at < Len(set.items) /\ set.pos >= at + 1 THEN set.pos + 1 ELSE set.pos)

\* taking out the node at the context position empties the whole set
set_remove_node(set, idx) ==
  IF Len(set.items) > 1 /\ set.pos # idx + 1
  THEN NodeSet(RemoveAt(set.items, idx + 1), IF idx + 1 < set.pos THEN set.pos - 1 ELSE set.pos)
  ELSE EmptySet

set_dup_node_check(set, item, skip) ==
  \E i \in DOMAIN set.items : i # skip + 1 /\ set.items[i] = item

RECURSIVE set_sorted_dup_node_clean(_, _)
set_sorted_dup_node_clean(set, i) ==
  IF set.type # "nodes" \/ i >= Len(set.items) THEN set
  ELSE IF set.items[i] = set.items[i + 1]
       THEN set_sorted_dup_node_clean(set_remove_node(set, i), i)
       ELSE set_sorted_dup_node_clean(set, i + 1)

HasDup(set) ==
  set.type = "nodes" /\ \E i \in 1 .. Len(set.items) - 1 : set.items[i] = set.items[i + 1]

\* x and y are <<node position, attribute position>> of the items p and q
set_sort_compare(x, y, p, q) ==
  CASE x[1] < y[1] -> -1
    [] x[1] > y[1] -> 1
    [] x[1] = y[1] /\ p[1] = q[1] /\ p[2] # q[2] -> IF p[2] = "elem" THEN -1 ELSE 1
    [] x[1] = y[1] /\ p = q -> 0
    [] x[1] = y[1] /\ p[1] # q[1] ->
         IF p[2] = "elem" THEN -1
         ELSE IF \/ p[2] = "text" /\ q[2] \in {"elem", "attr"}
                 \/ p[2] = "attr" /\ q[2] = "elem"
                 \/ p[2] = "attr" /\ q[2] = "attr" /\ x[2] > y[2]
              THEN 1 ELSE -1

\* node and attribute position of an item; old is what a variable held before
Place(item, r, old) ==
  IF item[2] = "attr"
  THEN LET n == CHOOSE m \in AttrParents(r.node, item[1]) : TRUE
       IN <<get_node_pos(n, "attr", r), get_attr_pos(item[1], n)>>
  ELSE <<get_node_pos(item[1], item[2], r), old[2]>>

Swapped(set, j) ==
  NodeSet([set.items EXCEPT ![j] = set.items[j - 1], ![j - 1] = set.items[j]],
          IF set.pos = j THEN j - 1 ELSE IF set.pos = j - 1 THEN j ELSE set.pos)

RECURSIVE SortPass(_, _, _, _, _, _, _, _), SortPasses(_, _, _)
\* the items at j - 1 and j, whose places are x and y (y and x if inverted)
SortPair(set, j, last, x, y, inverted, change, r) ==
  LET swap == IF inverted THEN set_sort_compare(x, y, set.items[j], set.items[j - 1]) < 0
              ELSE set_sort_compare(x, y, set.items[j - 1], set.items[j]) > 0
  IN IF swap THEN SortPass(Swapped(set, j), j + 1, last, x, y, inverted, TRUE, r)
     ELSE SortPass(set, j + 1, last, x, y, ~inverted, change, r)

\* the cached place of the item before is kept although no swap was made
SortPassStale(set, j, last, x0, y0, inverted, change, r) ==
  IF j > last THEN [set |-> set, change |-> change]
  ELSE SortPair(set, j, last, x0, Place(set.items[j], r, y0), FALSE, change, r)

\* one pass of the bubble sort over the items j .. last; x0 and y0 are the two
\* cached places, inverted tells that x0 belongs to the later item
SortPass(set, j, last, x0, y0, inverted, change, r) ==
  IF j > last THEN [set |-> set, change |-> change]
  ELSE IF inverted THEN SortPair(set, j, last, Place(set.items[j], r, x0), y0, TRUE, change, r)
  ELSE SortPair(set, j, last, x0, Place(set.items[j], r, y0), FALSE, change, r)

\* the i-th pass had the outcome p
SortAgain(p, i, r) ==
  IF p.change THEN SortPasses(p.set, i, r) ELSE [set |-> p.set, ret |-> i]

SortPasses(set, i, r) ==
  IF i >= Len(set.items) THEN [set |-> set, ret |-> i]
  ELSE SortAgain(SortPass(set, 2, Len(set.items) - i, Place(set.items[1], r, <<0, 0>>), <<0, 0>>,
                          FALSE, FALSE, r), i + 1, r)

\* ret: the number of passes, -1 when an attribute's node is not found (the code
\* stops in the middle of a pass then)
SortFrom(set, root) ==
  LET lost == \E i \in DOMAIN set.items :
                 set.items[i][2] = "attr" /\ AttrParents(root.node, set.items[i][1]) = {}
  IN IF set.type # "nodes" THEN [set |-> set, ret |-> 0]
     ELSE IF Len(set.items) = 1 THEN [set |-> set, ret |-> 0]
     ELSE IF lost THEN [set |-> set, ret |-> -1]
     ELSE SortPasses(set, 0, [node |-> root.node, type |-> root.type, walk |-> NodeWalk(root)])

set_sort(e, set) == SortFrom(set, moveto_get_root(e))

\* set_sort followed by the assert that it left no duplicates
NoDup(sorted) == IF HasDup(sorted) THEN Abort ELSE Done(sorted)
SortChecked(e, set) == NoDup(set_sort(e, set).set)

----------------------------------------------------------------------------
(***************************************************************************)
(* Conversions.  A string is a sequence of pieces; a value of a leaf is    *)
(* one piece, an element with children adds line breaks.                   *)
(***************************************************************************)
Newline == "\n"

RECURSIVE cast_string_recursive(_, _, _)
\* the text of the siblings ns below a root of kind rt; a value that is not the
\* first text gets a line of its own
cast_string_recursive(ns, rt, str) ==
  IF ns = <<>> THEN str
  ELSE LET n    == ns[1]
           skip == \/ rt = "root_config" /\ n \notin Config
                   \/ rt = "root_output" /\ n \in Input
           next == IF skip THEN str
                   ELSE IF Kind[n] \in LeafKinds
                        THEN IF str = <<>> THEN Text[n] ELSE str \o Text[n] \o <<Newline>>
                   ELSE cast_string_recursive(Kids[n], rt, Append(str, Newline))
       IN cast_string_recursive(Tail(ns), rt, next)

\* a root is put into a fake container: a line break before and after it
cast_string_elem(n, fake, rt) ==
  LET skip == \/ rt = "root_config" /\ n \notin Config
              \/ rt = "root_output" /\ n \in Input
  IN IF skip THEN <<>>
     ELSE IF fake THEN Append(cast_string_recursive(<<n>>, rt, <<Newline>>), Newline)
     ELSE cast_string_recursive(<<n>>, rt, <<>>)

ItemText(item, rt) ==
  CASE item[2] = "attr" -> AttrText[item[1]]
    [] item[2] \in {"elem", "text"} -> cast_string_elem(item[1], FALSE, rt)
    [] item[2] = "root_output" -> cast_string_elem(Kids[item[1]][1], TRUE, rt)
    [] OTHER -> cast_string_elem(item[1], TRUE, rt)

cast_node_set_to_string(e, set) ==
  ItemText(set.items[IF set.pos = 0 THEN 1 ELSE set.pos], moveto_get_root(e).type)

\* strtold reads 0 from an empty string
cast_string_to_number(s) ==
  IF s = <<>> THEN <<0>> ELSE IF Len(s) = 1 THEN NumberOf[s[1]] ELSE NaN

\* the piece of text a number is printed as
Digits(n) ==
  IF n = NaN THEN "NaN" ELSE ToString(n[1])

TextOfSet(e, set) ==
  CASE set.type = "num" -> <<Digits(set.num)>>
    [] set.type = "bool" -> <<IF set.bool THEN "true" ELSE "false">>
    [] set.type = "nodes" -> cast_node_set_to_string(e, set)
    [] set.type = "empty" -> <<>>
    [] set.type = "str" -> set.str

CastText(set, target, text) ==
  CASE set.type = target -> set
    [] set.type # target /\ target = "str" -> String(text)
    [] set.type # target /\ target = "num" ->
         Number(IF set.type = "bool" THEN <<IF set.bool THEN 1 ELSE 0>>
                ELSE cast_string_to_number(text))
    [] set.type # target /\ target = "bool" ->
         Boolean(CASE set.type = "num" -> set.num \notin {<<0>>, NaN}
                   [] set.type = "str" -> set.str # <<>>
                   [] set.type = "nodes" -> TRUE
                   [] set.type = "empty" -> FALSE)
    [] set.type # target /\ target = "empty" -> EmptySet

lyxp_set_cast(e, set, target) == CastText(set, target, TextOfSet(e, set))

----------------------------------------------------------------------------
(***************************************************************************)
(* Moves along a path.  test is a name test: [module, name], with "" for   *)
(* no prefix and "*" for every name.                                       *)
(***************************************************************************)
Matches(test, n) ==
  /\ test.module = "" \/ Module[n] = test.module
  /\ test.name = "*" \/ Name[n] = test.name

moveto_resolve_model(test) == test.module \in Models \cup {""}

AnyName == [module |-> "", name |-> "*"]

moveto_root(e) ==
  set_insert_node(EmptySet, <<moveto_get_root(e).node, moveto_get_root(e).type>>, 0)

\* the nodes of ns that the name test takes
moveto_node_check(ns, rt, test) == SelectSeq(ns, LAMBDA n : Matches(test, n) /\ ~Hidden(rt, n))

\* the nodes a move from an item to its children looks at
Below(item) ==
  CASE item[2] \in {"root_notif", "root_rpc"} -> <<item[1]>>
    [] item[2] \in {"root_config", "root_state"} -> From(item[1])
    [] item[2] \in {"elem", "text", "root_output"} -> Children(item[1])
    [] item[2] = "attr" -> <<>>

Elems(ns) == [i \in DOMAIN ns |-> <<ns[i], "elem">>]

RECURSIVE MoveNodes(_, _, _, _, _)
\* the first match replaces the item at i, the others go to the end of the set;
\* an item without a match is taken out
MoveNodes(set, i, orig, rt, test) ==
  IF set.type # "nodes" \/ i >= orig THEN set
  ELSE LET found == Elems(moveto_node_check(Below(set.items[i + 1]), rt, test))
       IN IF found = <<>> THEN MoveNodes(set_remove_node(set, i), i, orig - 1, rt, test)
          ELSE MoveNodes(NodeSet([set.items EXCEPT ![i + 1] = found[1]] \o Tail(found), set.pos),
                         i + 1, orig, rt, test)

HasAttr(set) == \E i \in DOMAIN set.items : set.items[i][2] = "attr"

\* an attribute in the set is read as if it were a node: undefined
moveto_node(e, set, test) ==
  CASE set.type = "empty" -> Done(set)
    [] set.type \in {"bool", "num", "str"} -> Error
    [] set.type = "nodes" ->
         IF ~moveto_resolve_model(test) THEN Error
         ELSE IF HasAttr(set) THEN Abort
         ELSE SortChecked(e, MoveNodes(set, 0, Len(set.items), moveto_get_root(e).type, test))

RECURSIVE WalkMatches(_, _, _, _, _, _)
\* the walk below the node at index i0 (from 0): ns are the siblings still to be
\* visited; a match that is elsewhere in the set is left to its own turn
WalkMatches(ns, set, i, replace, rt, test) ==
  IF ns = <<>> THEN [set |-> set, i |-> i, replace |-> replace]
  ELSE
  LET n    == ns[1]
      item == <<n, "elem">>
      later == Matches(test, n) /\ set_dup_node_check(set, item, i)
      new  == IF ~Matches(test, n) THEN [set |-> set, i |-> i, replace |-> replace]
              ELSE IF replace
                   THEN [set |-> NodeSet([set.items EXCEPT ![i + 1] = item], set.pos), i |-> i,
                         replace |-> FALSE]
              ELSE [set |-> set_insert_node(set, item, i + 1), i |-> i + 1, replace |-> FALSE]
      sub  == WalkMatches(Children(n), new.set, new.i, new.replace, rt, test)
  IN IF Hidden(rt, n) \/ later THEN WalkMatches(Tail(ns), set, i, replace, rt, test)
     ELSE WalkMatches(Tail(ns), sub.set, sub.i, sub.replace, rt, test)

RECURSIVE MoveDesc(_, _, _, _)
\* the walk below one node ended in w
AfterWalk(w, rt, test) ==
  IF w.replace THEN MoveDesc(set_remove_node(w.set, w.i), w.i, rt, test)
  ELSE MoveDesc(w.set, w.i + 1, rt, test)

MoveDesc(set, i, rt, test) ==
  IF set.type # "nodes" THEN set
  ELSE IF i >= Len(set.items) THEN set
  ELSE LET start == set.items[i + 1][1]
       IN AfterWalk(IF Hidden(rt, start) THEN [set |-> set, i |-> i, replace |-> FALSE]
                    ELSE WalkMatches(Children(start), set, i, ~Matches(test, start), rt, test), rt, test)

moveto_node_alldesc(e, set, test) ==
  IF set.type = "nodes" /\ ~moveto_resolve_model(test) THEN Error
  ELSE Then(moveto_node(e, set, AnyName),
            LAMBDA all : SortChecked(e, MoveDesc(all, 0, moveto_get_root(e).type, test)))

AttrMatches(test, a) ==
  /\ test.module # "" /\ AttrModule[a] = test.module
  /\ test.name = "*" \/ AttrName[a] = test.name

RECURSIVE MoveAttrs(_, _, _)
MoveAttrs(set, i, test) ==
  IF set.type # "nodes" THEN set
  ELSE IF i >= Len(set.items) THEN set
  ELSE LET item  == set.items[i + 1]
           found == IF item[2] # "elem" THEN <<>>
                    ELSE SelectSeq(Attrs[item[1]], LAMBDA a : AttrMatches(test, a))
           first == NodeSet([set.items EXCEPT ![i + 1] = <<found[1], "attr">>], set.pos)
           all   == FoldLeft(LAMBDA s, k : set_insert_node(s, <<found[k], "attr">>, i + k - 1),
                             first, [k \in 1 .. Len(found) - 1 |-> k + 1])
       IN IF found = <<>> THEN MoveAttrs(set_remove_node(set, i), i, test)
          ELSE MoveAttrs(all, i + Len(found), test)

\* the asserts that nothing needed sorting: set_sort returns the number of its
\* passes, which is 0 only for a set of at most one item
NotSorted(sorted) == IF sorted.ret # 0 THEN Abort ELSE NoDup(sorted.set)
AttrsChecked(e, set) == NotSorted(set_sort(e, set))

moveto_attr(e, set, test) ==
  CASE set.type = "empty" -> Done(set)
    [] set.type \in {"bool", "num", "str"} -> Error
    [] set.type = "nodes" ->
         IF moveto_resolve_model(test) THEN AttrsChecked(e, MoveAttrs(set, 0, test)) ELSE Error

\* a context position in only one of the sets fails an assert; with one in both
\* only the two context nodes are united
moveto_union(e, set1, set2) ==
  LET only(s) == IF set1.pos = 0 /\ set2.pos = 0 THEN s.items ELSE <<s.items[s.pos]>>
      both    == NodeSet(only(set1) \o only(set2), set1.pos)
  IN IF {set1.type, set2.type} \cap {"bool", "num", "str"} # {} THEN Error
     ELSE IF set2.type = "empty" THEN Done(set1)
     ELSE IF set1.type = "empty" THEN Done(set2)
     ELSE IF (set1.pos = 0) # (set2.pos = 0) THEN Abort
     ELSE Done(set_sorted_dup_node_clean(set_sort(e, both).set, 1))

\* the context position is not copied: junk is what the new memory holds
set_copy(set, junk) == IF set.type = "nodes" THEN NodeSet(set.items, junk) ELSE set

moveto_attr_alldesc(e, set, test) ==
  CASE set.type = "empty" -> Done(set)
    [] set.type \in {"bool", "num", "str"} -> Error
    [] set.type = "nodes" ->
         IF ~moveto_resolve_model(test) THEN Error
         ELSE Then(Then(moveto_node_alldesc(e, set_copy(set, e.junk), AnyName),
                        LAMBDA desc : moveto_union(e, set, desc)),
                   LAMBDA all : AttrsChecked(e, MoveAttrs(all, 0, test)))

RECURSIVE SelfDesc(_, _, _)
\* the children of the item at i follow it, and get their own turn; a leaf is
\* followed by its text
SelfDesc(set, i, rt) ==
  IF i >= Len(set.items) THEN set
  ELSE
  LET item == set.items[i + 1]
      n    == item[1]
      new  == IF item[2] \in {"text", "attr"} THEN <<>>
              ELSE IF Kind[n] = "anyxml" THEN <<>>
              ELSE IF Kind[n] \in {"leaf", "leaflist"}
                   THEN IF Text[n] = <<>> THEN <<>> ELSE <<<<n, "text">>>>
              ELSE Elems(SelectSeq(Kids[n], LAMBDA k : ~Hidden(rt, k)))
      fresh == SelectSeq(new, LAMBDA x : ~set_dup_node_check(set, x, -1))
      added == FoldLeft(LAMBDA s, k : set_insert_node(s, fresh[k], i + k), set,
                        [k \in DOMAIN fresh |-> k])
  IN SelfDesc(added, i + 1, rt)

moveto_self(e, set, all_desc) ==
  CASE set.type = "empty" -> Done(set)
    [] set.type \in {"bool", "num", "str"} -> Error
    [] set.type = "nodes" ->
         IF all_desc THEN SortChecked(e, SelfDesc(set, 0, moveto_get_root(e).type)) ELSE Done(set)

\* the item that is the parent of an item: a node without a parent, and the node
\* the root stands on, have the root
ParentItem(e, r, item) ==
  LET top == IF e.cur \in Config THEN "root_config" ELSE "root_state"
      up  == CASE item[2] = "elem" -> Parents(item[1])
               [] item[2] = "text" -> {item[1]}
               [] item[2] = "attr" -> AttrParents(r.node, item[1])
      p   == CHOOSE x \in up : TRUE
  IN CASE item[1] = r.node ->
            <<r.node, CASE Kind[r.node] = "rpc" -> "root_rpc"
                        [] Kind[r.node] = "notif" -> "root_notif"
                        [] OTHER -> top>>
       [] item[1] # r.node /\ up = {} -> <<r.node, top>>
       [] item[1] # r.node /\ up # {} ->
            <<p, IF p = r.node /\ r.type = "root_output" THEN "root_output" ELSE "elem">>

RECURSIVE MoveParents(_, _, _, _)
\* the item at i becomes its parent new, or is taken out when new is in the set
MoveTo(e, r, set, i, new) ==
  IF new[2] # "elem" /\ new # <<r.node, r.type>> THEN Abort
  ELSE IF set_dup_node_check(set, new, -1) THEN MoveParents(e, r, set_remove_node(set, i), i)
  ELSE MoveParents(e, r, NodeSet([set.items EXCEPT ![i + 1] = new], set.pos), i + 1)

MoveParents(e, r, set, i) ==
  IF set.type # "nodes" THEN Done(set)
  ELSE IF i >= Len(set.items) THEN Done(set)
  ELSE LET item == set.items[i + 1]
       IN IF item[2] \in Roots THEN MoveParents(e, r, set_remove_node(set, i), i)
          ELSE IF item[2] = "attr" /\ AttrParents(r.node, item[1]) = {} THEN Error
          ELSE MoveTo(e, r, set, i, ParentItem(e, r, item))

moveto_parent(e, set, all_desc) ==
  Then(Then(moveto_self(e, set, all_desc), LAMBDA self : MoveParents(e, moveto_get_root(e), self, 0)),
       LAMBDA moved : SortChecked(e, moved))

----------------------------------------------------------------------------
(***************************************************************************)
(* Operators.                                                              *)
(***************************************************************************)
Compare(a, b, op) ==
  CASE op = "="  -> a = b
    [] op = "!=" -> a # b
    [] op = "<"  -> a[1] < b[1]
    [] op = "<=" -> a[1] <= b[1]
    [] op = ">"  -> a[1] > b[1]
    [] op = ">=" -> a[1] >= b[1]

\* NaN compares unequal to everything
CompareNumbers(a, b, op) == IF NaN \in {a, b} THEN op = "!=" ELSE Compare(a, b, op)

\* the type both operands are converted to
CommonType(t1, t2, op) ==
  CASE {t1, t2} \subseteq {"nodes", "empty", "str"} /\ {t1, t2} # {"str"} -> "str"
    [] \/ {t1, t2} \subseteq {"nodes", "empty", "bool"} /\ "bool" \in {t1, t2}
       \/ op \in {"=", "!="} /\ "bool" \in {t1, t2} -> "bool"
    [] OTHER -> "num"

RECURSIVE moveto_op_comp(_, _, _, _)
\* two booleans and an order: the conversion to booleans is repeated for ever
moveto_op_comp(e, set1, set2, op) ==
  LET to == CommonType(set1.type, set2.type, op)
  IN CASE set1.type = "num" /\ set2.type = "num" ->
            Done(Boolean(CompareNumbers(set1.num, set2.num, op)))
       [] set1.type = "bool" /\ set2.type = "bool" ->
            IF op \in {"=", "!="} THEN Done(Boolean(Compare(set1.bool, set2.bool, op)))
            ELSE [rc |-> "loop", set |-> EmptySet]
       [] set1.type = "str" /\ set2.type = "str" /\ op \in {"=", "!="} ->
            Done(Boolean(Compare(set1.str, set2.str, op)))
       [] OTHER -> moveto_op_comp(e, lyxp_set_cast(e, set1, to), lyxp_set_cast(e, set2, to), op)

\* % of C: the sign is that of the dividend
Remainder(a, b) ==
  LET abs(x) == IF x < 0 THEN -x ELSE x
  IN IF a < 0 THEN -(abs(a) % abs(b)) ELSE a % abs(b)

\* mod of zero and of NaN is undefined
Calculate(a, b, op) ==
  CASE op = "mod" /\ (NaN \in {a, b} \/ b = <<0>>) -> Abort
    [] op # "mod" /\ NaN \in {a, b} -> Done(Number(NaN))
    [] OTHER -> Done(Number(<<CASE op = "+" -> a[1] + b[1]
                                [] op = "-" -> a[1] - b[1]
                                [] op = "*" -> a[1] * b[1]
                                [] op = "mod" -> Remainder(a[1], b[1])>>))

moveto_op_math(e, set1, set2, op) ==
  Calculate(lyxp_set_cast(e, set1, "num").num, lyxp_set_cast(e, set2, "num").num, op)

Minus(n) == IF n = NaN THEN NaN ELSE <<-n[1]>>
Negated(e, set) == Number(Minus(lyxp_set_cast(e, set, "num").num))
=============================================================================
