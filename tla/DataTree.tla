------------------------------ MODULE DataTree ------------------------------
(***************************************************************************)
(* The data tree (src/src/tree_data.c): nodes linked by parent, child,     *)
(* next and prev pointers, where the prev pointer of the first sibling     *)
(* points to the last one, and leafref nodes that also keep a pointer to   *)
(* the node they refer to.  The operations are the ones of the API that    *)
(* create, move, change, validate and free nodes, in any order.            *)
(*                                                                         *)
(* The schema is                                                           *)
(*   container c { leaf t; leaf r { leafref /c/t }; leaf-list m { same } } *)
(* and KindOf says which of its nodes an address is an instance of.        *)
(***************************************************************************)
EXTENDS Naturals, Sequences, FiniteSets, SequencesExt

CONSTANTS
  Nodes,   \* addresses of data nodes
  KindOf,  \* the schema node of the instance at an address
  Values,  \* leaf values
  Docs,    \* documents the parser may be given: the children of one c
  None     \* NULL; also the content of an address that is not allocated

Kinds == {"c", "t", "r", "m"}
ASSUME NodesFinite == IsFiniteSet(Nodes)
ASSUME KindType == KindOf \in [Nodes -> Kinds]
ASSUME DocsType == \A s \in Docs : s \in Seq({n \in Nodes : KindOf[n] # "c"}) /\ IsInjective(s)

VARIABLE d  \* the memory: address -> struct lyd_node, None when not allocated

vars == <<d>>

Link == Nodes \cup {None}
Node == [parent : Link, child : Link, next : Link, prev : Nodes,
         leafref : Link, val : Values \cup {None}, valid : BOOLEAN]

ASSUME NoneIsNothing == None \notin Nodes \cup Node

Live(m) == {n \in Nodes : m[n] # None}
IsRef(n) == KindOf[n] \in {"r", "m"}

\* A node as calloc and the constructors leave it: alone, not validated.
Fresh(n, v) ==
  [parent |-> None, child |-> None, next |-> None, prev |-> n,
   leafref |-> None, val |-> v, valid |-> FALSE]

Init == d = [n \in Nodes |-> None]

-----------------------------------------------------------------------------
(* Walking the memory m                                                    *)

\* LY_TREE_FOR: n and the siblings behind it.  A list has no more nodes than
\* there are addresses, unless it is a loop, and none that is not allocated,
\* unless it is broken.
FollowFrom(m, n) ==
  LET more == [s \in Seq(Nodes) |->
                 IF s = << >> \/ m[Last(s)] = None \/ m[Last(s)].next = None THEN s
                 ELSE Append(s, m[Last(s)].next)]
      walk[k \in 0..Cardinality(Nodes)] ==
        IF k = 0 THEN (IF n = None THEN << >> ELSE <<n>>) ELSE more[walk[k - 1]]
  IN  walk[Cardinality(Nodes)]

Children(m, n) == FollowFrom(m, m[n].child)

\* Left along prev until the node whose prev is the last one.
FirstSibling(m, n) ==
  LET left == [x \in Nodes |-> IF m[m[x].prev].next = None THEN x ELSE m[x].prev]
      walk[k \in 0..Cardinality(Nodes)] == IF k = 0 THEN n ELSE left[walk[k - 1]]
  IN  walk[Cardinality(Nodes)]

Siblings(m, n) == FollowFrom(m, IF m[n].parent = None THEN FirstSibling(m, n) ELSE m[m[n].parent].child)

\* The top-level siblings of the tree n is in; the schema is two levels deep.
TopList(m, n) ==
  FollowFrom(m, FirstSibling(m, IF m[n].parent = None THEN n ELSE m[n].parent))

\* LY_TREE_DFS: a node before its children.
Subtree(m, n) == <<n>> \o Children(m, n)

\* lyd_get_node2: the instances of a schema node in the tree of n.  It refuses
\* a leaf-list (and returns NULL, which its caller takes for no instance).
lyd_get_node2(m, n, kind) ==
  IF kind = "m" THEN {}
  ELSE {x \in UNION {Range(Children(m, p)) : p \in {q \in Range(TopList(m, n)) : KindOf[q] = "c"}} :
          KindOf[x] = kind}

\* The first node of a list that is in S.
FirstIn(s, S) ==
  LET at == {i \in DOMAIN s : s[i] \in S} IN IF at = {} THEN None ELSE s[Min(at)]

\* resolve_data for t with the containers of the top-level list s as parents.  A
\* container is replaced by its first t; each further one goes to the end of the
\* list and takes the index on by one, past a container that follows.
Searched(m, s) ==
  LET more(k) == Cardinality({x \in Range(Children(m, s[k])) : KindOf[x] = "t"})
      skip[k \in 0..Len(s)] ==  \* containers that will be passed over behind s[k]
        IF k = 0 THEN 0
        ELSE IF KindOf[s[k]] # "c" THEN skip[k - 1]
        ELSE IF skip[k - 1] > 0 THEN skip[k - 1] - 1
        ELSE IF more(k) > 1 THEN more(k) - 1 ELSE 0
  IN  {k \in 1..Len(s) : KindOf[s[k]] = "c" /\ skip[k - 1] = 0}

\* The first node of S below the containers that are searched.
FirstBelow(m, s, S) ==
  FirstIn([k \in 1..Len(s) |-> IF k \in Searched(m, s) THEN FirstIn(Children(m, s[k]), S) ELSE None], S)

\* resolve_unres_data_item(UNRES_LEAFREF) for the path /c/t: the first target with
\* the value, where the first t of each container comes before all others.
Match(m, n, v) ==
  LET s == TopList(m, n)
      ts == {x \in Live(m) : KindOf[x] = "t"}
      same == {x \in ts : m[x].val = v}
      lead == {FirstIn(Children(m, s[k]), ts) : k \in Searched(m, s)}
      first == FirstBelow(m, s, same \cap lead)
  IN  IF first # None THEN first ELSE FirstBelow(m, s, same \ lead)

-----------------------------------------------------------------------------
(* lyd_unlink and lyd_free                                                 *)

\* Mutant: leafrefs keep their pointer to what is unlinked.
ClearLeafrefs_none(m, n) == m

\* Leafrefs of the tree that refer into the subtree of n lose their pointer.
ClearLeafrefs(m, n) ==
  LET targets == {x \in Range(Subtree(m, n)) : KindOf[x] = "t"}
      sources(x) == lyd_get_node2(m, x, "r") \cup lyd_get_node2(m, x, "m") IN
  [s \in Nodes |->
     IF \E x \in targets : s \in sources(x) /\ m[s].leafref = x
       THEN [m[s] EXCEPT !.leafref = None] ELSE m[s]]

Detach(m, n) ==
  LET x == m[n]
      m1 == IF m[x.prev].next = None THEN m ELSE [m EXCEPT ![x.prev].next = x.next]
      \* the node whose prev was n: its successor, or the first of the list
      fix == IF x.next # None THEN x.next
             ELSE IF x.parent # None THEN m1[x.parent].child ELSE FirstSibling(m, n)
      m2 == [m1 EXCEPT ![fix].prev = x.prev]
      m3 == IF x.parent = None \/ m2[x.parent].child # n THEN m2
            ELSE [m2 EXCEPT ![x.parent].child = x.next]
  IN  [m3 EXCEPT ![n].parent = None, ![n].next = None, ![n].prev = n]

Unlinked(m, n) == Detach(ClearLeafrefs(m, n), n)

\* lyd_free: the children first, each unlinked on its own, then the node.
FreeLeaf(m, n) == [Unlinked(m, n) EXCEPT ![n] = None]
FreedLeafs(m, s) ==
  LET upto[k \in 0..Len(s)] == IF k = 0 THEN m ELSE FreeLeaf(upto[k - 1], s[k]) IN upto[Len(s)]
Freed(m, n) == FreeLeaf(FreedLeafs(m, Children(m, n)), n)

\* One tree of a list after the other.
FreedAll(m, s) ==
  LET upto[k \in 0..Len(s)] == IF k = 0 THEN m ELSE Freed(upto[k - 1], s[k]) IN upto[Len(s)]

lyd_unlink(n) == n \in Live(d) /\ d' = Unlinked(d, n)
lyd_free(n) == n \in Live(d) /\ d' = Freed(d, n)

\* Mutant: the siblings before n are kept.
lyd_free_withsiblings_tail(n) == n \in Live(d) /\ d' = FreedAll(d, FollowFrom(d, n))

\* The predecessors of n to the beginning of the list, then n and the rest.
lyd_free_withsiblings(n) ==
  /\ n \in Live(d)
  /\ LET list == Siblings(d, n)
         i == CHOOSE i \in DOMAIN list : list[i] = n
         order == Reverse(SubSeq(list, 1, i - 1)) \o SubSeq(list, i, Len(list)) IN
     d' = FreedAll(d, order)

-----------------------------------------------------------------------------
(* lyd_insert, lyd_insert_before and lyd_insert_after                      *)

\* Mutant: a moved node stays valid.
SetInvalid_none(x) == x

\* Without a list in the schema lyd_insert_setinvalid clears the node's own
\* flag and nothing else.
SetInvalid(x) == [x EXCEPT !.valid = FALSE]

\* Mutant: only the first of the moved nodes becomes the last of the list.
Inserted_last(m, p, n) ==
  LET m1 == IF m[n].parent # None \/ m[m[n].prev].next # None THEN Unlinked(m, n) ELSE m
      moved == FollowFrom(m1, n)
      first == m1[p].child
      m2 == IF first = None THEN [m1 EXCEPT ![p].child = n]
            ELSE [m1 EXCEPT ![m1[first].prev].next = n, ![n].prev = m1[first].prev,
                            ![first].prev = n] IN
  [x \in Nodes |-> IF x \in Range(moved) THEN [m2[x] EXCEPT !.parent = p] ELSE m2[x]]

Inserted(m, p, n) ==
  LET invalid == m[n].parent # p
      m1 == IF m[n].parent # None \/ m[m[n].prev].next # None THEN Unlinked(m, n) ELSE m
      moved == FollowFrom(m1, n)
      first == m1[p].child
      m2 == IF first = None THEN [m1 EXCEPT ![p].child = n]
            ELSE [m1 EXCEPT ![m1[first].prev].next = n,
                            ![n].prev = m1[first].prev,
                            ![first].prev = Last(moved)] IN
  [x \in Nodes |->
     IF x \notin Range(moved) THEN m2[x]
     ELSE LET a == [m2[x] EXCEPT !.parent = p] IN IF invalid THEN SetInvalid(a) ELSE a]

lyd_insert(p, n) ==
  /\ p \in Live(d) /\ n \in Live(d)
  /\ KindOf[p] = "c" /\ KindOf[n] # "c"  \* the schema parent of n is p's schema
  /\ d' = Inserted(d, p, n)

\* Whether moving n next to sib makes validation necessary again.
SiblingInvalid(m, sib, n) ==
  IF m[n].parent = None
    THEN m[sib].parent # None \/ sib \notin Range(Siblings(m, n))
    ELSE m[n].parent # m[sib].parent

\* The parent of the node that is moved, and its flag.
PutFamily(m, sib, n, invalid) ==
  LET a == [m EXCEPT ![n].parent = m[sib].parent] IN
  IF invalid THEN [a EXCEPT ![n] = SetInvalid(@)] ELSE a

\* n is linked in front of sib,
PutBefore(m, sib, n) ==
  LET s == m[sib]
      a == IF m[s.prev].next # None THEN [m EXCEPT ![s.prev].next = n]
           ELSE IF s.parent # None THEN [m EXCEPT ![s.parent].child = n] ELSE m IN
  [a EXCEPT ![n].prev = s.prev, ![sib].prev = n, ![n].next = sib]

\* or behind it; the first of the list points back to a new last one.
PutAfter(m, sib, n) ==
  LET s == m[sib]
      a == IF s.next # None THEN [m EXCEPT ![n].next = s.next, ![s.next].prev = n]
           ELSE IF s.parent # None THEN [m EXCEPT ![m[s.parent].child].prev = n]
           ELSE [m EXCEPT ![FirstSibling(m, sib)].prev = n] IN
  [a EXCEPT ![sib].next = n, ![n].prev = sib]

InsertedSibling(m, sib, n, before) ==
  LET m1 == IF m[n].parent # None \/ m[n].next # None \/ m[m[n].prev].next # None
              THEN Unlinked(m, n) ELSE m
      m2 == PutFamily(m1, sib, n, SiblingInvalid(m, sib, n)) IN
  IF before THEN PutBefore(m2, sib, n) ELSE PutAfter(m2, sib, n)

lyd_insert_sibling(sib, n, before) ==
  /\ sib \in Live(d) /\ n \in Live(d) /\ sib # n
  /\ (KindOf[sib] = "c") <=> (KindOf[n] = "c")  \* the same schema parent
  /\ d' = InsertedSibling(d, sib, n, before)

-----------------------------------------------------------------------------
(* Creating and changing nodes                                             *)

\* lyd_new(NULL, module, "c")
lyd_new(n) ==
  /\ n \notin Live(d) /\ KindOf[n] = "c"
  /\ d' = [d EXCEPT ![n] = Fresh(n, None)]

\* lyd_new_leaf for the leaf t.  It never creates a leafref: the value is
\* resolved before the node is in the tree, where nothing matches it.
lyd_new_leaf(p, n, v) ==
  /\ n \notin Live(d) /\ KindOf[n] = "t"
  /\ p # None => p \in Live(d) /\ KindOf[p] = "c"
  /\ LET m == [d EXCEPT ![n] = Fresh(n, v)] IN
     d' = IF p = None THEN m ELSE Inserted(m, p, n)

\* lyp_parse_value forgets the pointer of a leafref before it looks for the new
\* value; lyd_change_leaf restores the string and not the pointer on failure.
lyd_change_leaf(n, v) ==
  /\ n \in Live(d) /\ KindOf[n] # "c"
  /\ LET t == Match(d, n, v) IN
     d' = IF ~IsRef(n) THEN [d EXCEPT ![n].val = v]
          ELSE IF t = None THEN [d EXCEPT ![n].leafref = None]
          ELSE [d EXCEPT ![n].leafref = t, ![n].val = v]

\* lyd_parse_xml of a document with one c: the nodes are linked as they are
\* read, each compared with the ones before it (all have one value), leafrefs
\* resolved at once or when the whole tree is there; the tree is freed again when
\* there is a duplicate or a leafref cannot be resolved.
lyd_parse_xml(n, doc, v) ==
  LET at(x) == CHOOSE i \in DOMAIN doc : doc[i] = x
      link(i) == IF i \in DOMAIN doc THEN doc[i] ELSE None
      node(x) == [parent |-> n, child |-> None, next |-> link(at(x) + 1),
                  prev |-> IF at(x) = 1 THEN Last(doc) ELSE doc[at(x) - 1],
                  leafref |-> None, val |-> v, valid |-> TRUE]
      m == [x \in Nodes |->
              IF x = n THEN [Fresh(n, None) EXCEPT !.child = link(1), !.valid = TRUE]
              ELSE IF x \in Range(doc) THEN node(x) ELSE d[x]] IN
  /\ KindOf[n] = "c"
  /\ ({n} \cup Range(doc)) \cap Live(d) = {}
  /\ \A x, y \in Range(doc) : KindOf[x] = KindOf[y] => x = y
  /\ \A x \in Range(doc) : IsRef(x) => Match(m, x, v) # None
  /\ d' = [x \in Nodes |-> IF x \in Range(doc) /\ IsRef(x)
                             THEN [m[x] EXCEPT !.leafref = Match(m, x, v)] ELSE m[x]]

-----------------------------------------------------------------------------
(* lyd_validate                                                            *)

\* More than one instance among the siblings, for a node that is not validated
\* yet (a leaf-list is compared by value, with validated instances only).
Duplicate(m, n) ==
  \E x \in Range(Siblings(m, n)) \ {n} :
    /\ KindOf[x] = KindOf[n]
    /\ KindOf[n] = "m" => m[x].valid /\ m[x].val = m[n].val

\* One node: a leafref without a pointer is resolved, the content is checked
\* unless the node is valid already.  a.ok is cleared by the first failure.
ValidateNode(a, n) ==
  LET m == a.mem
      t == Match(m, n, m[n].val)
      m1 == IF IsRef(n) /\ m[n].leafref = None THEN [m EXCEPT ![n].leafref = t] ELSE m IN
  IF ~a.ok THEN a
  ELSE IF IsRef(n) /\ m1[n].leafref = None THEN [a EXCEPT !.ok = FALSE]
  ELSE IF ~m[n].valid /\ Duplicate(m, n) THEN [mem |-> m1, ok |-> FALSE]
  ELSE [mem |-> [m1 EXCEPT ![n].valid = TRUE], ok |-> TRUE]

\* A node and its children, and so for every sibling of n, in document order.
ValidatedNodes(a, s) ==
  LET upto[k \in 0..Len(s)] == IF k = 0 THEN a ELSE ValidateNode(upto[k - 1], s[k]) IN upto[Len(s)]
ValidateTree(a, x) == ValidatedNodes(a, Subtree(a.mem, x))
ValidatedTrees(a, s) ==
  LET upto[k \in 0..Len(s)] == IF k = 0 THEN a ELSE ValidateTree(upto[k - 1], s[k]) IN upto[Len(s)]
Validated(m, n) == ValidatedTrees([mem |-> m, ok |-> TRUE], Siblings(m, n))

lyd_validate(n) == n \in Live(d) /\ d' = Validated(d, n).mem

-----------------------------------------------------------------------------
Next ==
  \/ \E n \in Nodes :
       \/ lyd_new(n) \/ lyd_unlink(n) \/ lyd_free(n) \/ lyd_free_withsiblings(n) \/ lyd_validate(n)
       \/ \E v \in Values : lyd_change_leaf(n, v)
       \/ \E doc \in Docs, v \in Values : lyd_parse_xml(n, doc, v)
       \/ \E p \in Link, v \in Values : lyd_new_leaf(p, n, v)
       \/ \E p \in Nodes : lyd_insert(p, n)
       \/ \E sib \in Nodes, before \in BOOLEAN : lyd_insert_sibling(sib, n, before)

Spec == Init /\ [][Next]_vars

-----------------------------------------------------------------------------
(* Properties                                                              *)

TypeOK == d \in [Nodes -> Node \cup {None}]

\* The sibling lists are rings along prev: every next is undone by a prev, and
\* the prev of the first node is the last one, also while nodes move between
\* lists with and without a parent.
SiblingRing ==
  \A n \in Live(d) :
    LET x == d[n] IN
    /\ x.next # None => x.next \in Live(d) /\ d[x.next].prev = n
    /\ x.prev \in Live(d)
    /\ IF d[x.prev].next = None THEN x.prev = Last(FollowFrom(d, n)) ELSE d[x.prev].next = n

\* Parents and children agree: a node is a child of exactly the node it calls
\* its parent, where the schema allows it.
Family ==
  \A n \in Live(d) :
    /\ d[n].parent # None =>
         /\ d[n].parent \in Live(d)
         /\ n \in Range(Children(d, d[n].parent))
         /\ KindOf[n] # "c" /\ KindOf[d[n].parent] = "c"
    /\ \A x \in Range(Children(d, n)) : x \in Live(d) /\ d[x].parent = n

\* The lists of the tree are whole after any sequence of lyd_insert, lyd_unlink,
\* lyd_free and the parser: rings among the siblings, and parents that agree.
TreeWhole == TypeOK /\ SiblingRing /\ Family

\* A leafref that stays where it is loses its pointer when its target leaves
\* their parent, whatever operation moves or frees the target (lyd_unlink).
TargetLeaves ==
  [][\A s \in Live(d) \cap Live(d') :
       LET t == d[s].leafref IN
       /\ t # None /\ d[s].parent # None
       /\ d'[s].parent = d[s].parent
       /\ t \in Live(d) /\ d[t].parent = d[s].parent
       /\ t \notin Live(d') \/ d'[t].parent # d[t].parent
       => d'[s].leafref # t]_vars

\* The siblings of n and their children.
Visited(m, n) == UNION {Range(Subtree(m, x)) : x \in Range(Siblings(m, n))}

\* Whenever lyd_validate would succeed, the nodes it goes over have no unresolved
\* leafref (lyv_data_value, which does not look whether it is still right), and
\* no leaf has two instances among the siblings, also after valid nodes were moved
\* there: lyv_data_content looks for a duplicate only of the nodes that lyd_insert
\* made invalid.
ValidTree ==
  \A n \in Live(d) :
    LET a == Validated(d, n) IN
    a.ok => \A x \in Visited(a.mem, n) :
      /\ a.mem[x].valid
      /\ IsRef(x) => a.mem[x].leafref # None
      /\ \A z \in Range(Siblings(a.mem, x)) \ {x} : KindOf[x] = KindOf[z] => KindOf[x] = "m"

\* The pointers implement ordered lists.
Heads == {n \in Live(d) : d[n].parent = None /\ d[d[n].prev].next = None}
F == INSTANCE Forest WITH
  tops <- {FollowFrom(d, n) : n \in Heads},
  kids <- [n \in Nodes |-> IF n \in Live(d) THEN Children(d, n) ELSE << >>]
ImplementsForest == F!Spec
=============================================================================
