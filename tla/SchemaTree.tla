----------------------------- MODULE SchemaTree -----------------------------
(***************************************************************************)
(* The schema tree of a module and the walks over it                       *)
(* (src/src/tree_schema.c): lys_node_addchild with the check of            *)
(* identifiers, lys_getnext, and the searches for groupings.               *)
(*                                                                         *)
(* Nodes are added in the order of the document, below the node that is    *)
(* being read; a uses gets the copy of its grouping before the next        *)
(* statement or, if the grouping is not known yet, later.  Nodes are       *)
(* numbered as they are created.  A leaf stands for every node without     *)
(* schema children and a container for every node with a level of its own; *)
(* augments are left out.                                                  *)
(***************************************************************************)
EXTENDS Naturals, Sequences, FiniteSets, FiniteSetsExt, SequencesExt

CONSTANTS
  MaxNodes,    \* bound: nodes of the tree
  Names,       \* identifiers
  Kinds        \* kinds of nodes that occur

AllKinds == {"leaf", "container", "choice", "case", "uses", "grouping"}
ASSUME KindsType == Kinds \subseteq AllKinds /\ MaxNodes \in Nat

Top == 0              \* the module
Null == MaxNodes + 1  \* NULL
Node == 1..MaxNodes
Unnamed == Null       \* not an identifier

VARIABLES
  count,   \* nodes created
  kind,    \* node -> kind
  name,    \* node -> identifier; Unnamed for a uses, whose name is that of a grouping
  parent,  \* node -> parent, Top for a top-level node
  kids,    \* node or Top -> its children in order
  refused, \* the parent, kind and name for which lys_node_addchild returned an
           \* error, the module is refused then; <<>> if it has not
  unseen   \* node -> the nodes that stood behind an empty uses, choice or case when
           \* it was added (history, for the properties)

vars == <<count, kind, name, parent, kids, refused, unseen>>

Init ==
  /\ count = 0 /\ refused = << >> /\ unseen = << >>
  /\ kind = << >> /\ name = << >> /\ parent = << >>
  /\ kids = [n \in {Top} |-> << >>]

-----------------------------------------------------------------------------
(* Pointers                                                                *)

Child(n) == IF kids[n] = << >> THEN Null ELSE kids[n][1]
NextOf(n) ==
  LET s == kids[parent[n]]
      k == CHOOSE k \in DOMAIN s : s[k] = n
  IN  IF k = Len(s) THEN Null ELSE s[k + 1]
Ancestors(n) ==
  LET up[m \in 0..count] == IF m = Top THEN {} ELSE {parent[m]} \cup up[parent[m]] IN up[n]
KindOf(n) == IF n = Top THEN "module" ELSE kind[n]
Transparent == {"uses", "case", "choice"}   \* levels a data tree does not have

\* The level a child of p has its identifier on: the first ancestor or p itself
\* that is not transparent.
Level(p) == Max({a \in {p} \cup (IF p = Top THEN {} ELSE Ancestors(p)) : KindOf(a) \notin Transparent})

-----------------------------------------------------------------------------
(* Mutants of the definitions below.                                       *)

IdStop_top(p) == Top
Compared_noclimb(stop) == {x \in Node : x <= count /\ parent[x] = stop /\ kind[x] \in {"leaf", "container", "choice"}}
SkipGroupings_not(n) == n

-----------------------------------------------------------------------------
(* lys_check_id                                                            *)

\* Where the walk over the identifiers of a level starts and stops.
IdStop(p) == Level(p)

\* The step of that walk from n.  A uses or case is entered, and so is a choice;
\* from a node without next sibling the walk goes up until one has, or ends.
IdStep(n, stop) ==
  IF kind[n] \in Transparent THEN Child(n)
  ELSE IF NextOf(n) # Null THEN NextOf(n)
  ELSE LET a == Max({a \in Ancestors(n) : a = stop \/ (a # Top /\ NextOf(a) # Null)})
       IN  IF a = stop THEN Null ELSE NextOf(a)

\* The nodes an identifier is compared with, one walk from the first child.
Compared(stop) ==
  LET at[k \in 0..count] ==
        IF k = 0 THEN Child(stop)
        ELSE LET n == at[k - 1] IN IF n = Null THEN Null ELSE IdStep(n, stop)
  IN  {n \in {at[k] : k \in 0..count} \ {Null} : kind[n] \in {"leaf", "container", "choice"}}

\* lys_find_grouping_up: groupings among the siblings of n and of its ancestors,
\* those below a transparent node excepted.
find_grouping_up(nm, n) ==
  n # Null /\ \E a \in ({n} \cup (IF n = Top THEN {} ELSE Ancestors(n))) \ {Top} :
    /\ KindOf(parent[a]) \notin Transparent
    /\ \E k \in DOMAIN kids[parent[a]] :
         kind[kids[parent[a]][k]] = "grouping" /\ name[kids[parent[a]][k]] = nm

\* lys_get_next_grouping: the node visited after n in the subtree of root.  On
\* the way up a child of root ends the walk, whether or not it has a sibling.
GroupingStep(n, root) ==
  LET down == IF kind[n] \in {"container", "choice", "grouping"} THEN Child(n) ELSE Null
  IN  IF down # Null THEN down
      ELSE IF n = root THEN Null
      ELSE IF NextOf(n) # Null THEN NextOf(n)
      ELSE LET a == Max({a \in ({n} \cup Ancestors(n)) \ {Top} :
                          a = root \/ parent[a] = root \/ (a # n /\ NextOf(a) # Null)})
           IN  IF a = root \/ parent[a] = root THEN Null ELSE NextOf(a)
GroupingsBelow(root) ==
  LET at[k \in 0..count] ==
        IF k = 0 THEN root ELSE LET n == at[k - 1] IN IF n = Null THEN Null ELSE GroupingStep(n, root)
  IN  {n \in {at[k] : k \in 1..count} \ {Null} : kind[n] = "grouping"}

\* Whether a node of that kind and name would clash below p.
check_id(p, k, nm) ==
  CASE k = "grouping" ->
         LET start == IF p = Top THEN Child(Top) ELSE IF kids[p] # << >> THEN Child(p) ELSE p
         IN  /\ ~find_grouping_up(nm, start)
             /\ \A j \in DOMAIN kids[p] :
                  kind[kids[p][j]] \in {"container", "choice", "grouping"} =>
                    \A g \in GroupingsBelow(kids[p][j]) : name[g] # nm
    [] k \in {"leaf", "container", "choice"} ->
         \A n \in Compared(IdStop(p)) : name[n] # nm
    [] k = "case" ->
         \A j \in DOMAIN kids[p] : kind[kids[p][j]] \in {"case", "leaf", "container"} => name[kids[p][j]] # nm
    [] OTHER -> TRUE

-----------------------------------------------------------------------------
(* lys_getnext                                                             *)

SkipGroupings(n) ==
  IF n = Null THEN Null
  ELSE LET s == kids[parent[n]]
           rest == {k \in DOMAIN s : kind[s[k]] # "grouping" /\ \E j \in 1..k : s[j] = n}
       IN  IF rest = {} THEN Null ELSE s[Min(rest)]

\* One turn of the loop at "repeat" with the variables next and last: the node
\* to return is in ret, Null there means that the loop goes on or has ended.
GetnextTurn(v, p) ==
  LET n == SkipGroupings(v.next)
  IN  IF n = Null
      THEN IF v.last = Null \/ parent[v.last] = p
           THEN [v EXCEPT !.done = TRUE]
           ELSE [v EXCEPT !.last = parent[v.last], !.next = NextOf(parent[v.last])]
      ELSE IF kind[n] \in Transparent
           THEN [v EXCEPT !.next = Child(n)]
           ELSE [v EXCEPT !.ret = n, !.done = TRUE]

lys_getnext(last, p) ==
  LET first == IF last = Null THEN Child(p) ELSE NextOf(last)
      turn[k \in 0..(2 * count + 1)] ==
        IF k = 0
        THEN [next |-> first, last |-> IF last = Null THEN first ELSE last, ret |-> Null, done |-> FALSE]
        ELSE LET v == turn[k - 1] IN IF v.done THEN v ELSE GetnextTurn(v, p)
  IN  turn[2 * count + 1].ret

\* Calls of lys_getnext, each with what the one before returned, until NULL.
Enumerated(p) ==
  LET calls[k \in 0..(count + 1)] ==
        IF k = 0 THEN << >>
        ELSE LET s == calls[k - 1]
                 n == lys_getnext(IF s = << >> THEN Null ELSE s[Len(s)], p)
             IN  IF Len(s) < k - 1 \/ n = Null THEN s ELSE Append(s, n)
  IN  calls[count + 1]

-----------------------------------------------------------------------------
(* lys_node_addchild                                                       *)

Substatement(p, k) ==
  CASE KindOf(p) \in {"module", "container", "grouping", "uses"} ->
         k \in {"leaf", "container", "choice", "uses", "grouping"}
    [] KindOf(p) = "choice" -> k \in {"leaf", "container", "case"}
    [] KindOf(p) = "case" -> k \in {"leaf", "container", "choice", "uses"}
    [] OTHER -> FALSE

Appended(n, p) == [m \in DOMAIN kids \cup {n} |-> IF m = p THEN Append(kids[p], n) ELSE IF m = n THEN << >> ELSE kids[m]]

\* The data nodes below p in the order of the document.
Flat(p) ==
  LET seq[d \in 0..count] ==
        [n \in 0..count |->
          IF d = 0 THEN << >>
          ELSE LET below == seq[d - 1]
               IN  FlattenSeq([k \in DOMAIN kids[n] |->
                     LET c == kids[n][k]
                     IN  IF kind[c] \in Transparent THEN below[c]
                         ELSE IF kind[c] = "grouping" THEN << >> ELSE <<c>>])]
  IN  seq[count][p]

\* Nodes whose own content is not known yet: a uses before its grouping is
\* copied, a choice or case before its first node is read.
Empty == {n \in 1..count : kind[n] \in Transparent /\ Flat(n) = << >>}

\* The nodes that can get a child: the last top-level node, its last child and so
\* on, which are being read, and likewise from a uses that is copied later.
Open ==
  LET chain(n) == {n} \cup (IF n = Top THEN {} ELSE Ancestors(n))
      last(a) == kids[parent[a]][Len(kids[parent[a]])] = a
  IN  {n \in {Top} \cup 1..count :
        \E r \in chain(n) : (r = Top \/ kind[r] = "uses") /\ \A a \in chain(n) : a > r => last(a)}

\* Document order: m is behind n and not below it.
Behind(n, m) ==
  \E a \in {n} \cup Ancestors(n), b \in {m} \cup Ancestors(m) :
    /\ a # Top /\ b # Top /\ parent[a] = parent[b]
    /\ \E i, j \in DOMAIN kids[parent[a]] : i < j /\ kids[parent[a]][i] = a /\ kids[parent[a]][j] = b

\* The nodes on the level stop behind a uses, choice or case that has no child.
BehindEmpty(stop) ==
  LET on == {n \in 1..count : Level(parent[n]) = stop}
  IN  {m \in on : \E n \in on : kind[n] \in Transparent /\ kids[n] = << >> /\ Behind(n, m)}

lys_node_addchild(p, k, nm) ==
  /\ refused = << >> /\ count < MaxNodes
  /\ Substatement(p, k)
  /\ IF check_id(p, k, nm)
     THEN /\ count' = count + 1
          /\ kind' = Append(kind, k) /\ name' = Append(name, IF k = "uses" THEN Unnamed ELSE nm) /\ parent' = Append(parent, p)
          /\ kids' = Appended(count + 1, p)
          /\ unseen' = Append(unseen, BehindEmpty(Level(p)))
          /\ UNCHANGED refused
     ELSE refused' = <<p, k, nm>> /\ UNCHANGED <<count, kind, name, parent, kids, unseen>>

Done == (refused # << >> \/ count = MaxNodes) /\ UNCHANGED vars

Next ==
  \/ \E p \in Open, k \in Kinds, nm \in Names : lys_node_addchild(p, k, nm)
  \/ Done

Spec == Init /\ [][Next]_vars

-----------------------------------------------------------------------------
(* Properties                                                              *)

TypeOK ==
  /\ count \in 0..MaxNodes /\ (refused = << >> \/ refused \in (0..count) \X AllKinds \X Names)
  /\ kind \in [1..count -> AllKinds] /\ name \in [1..count -> Names \cup {Unnamed}]
  /\ DOMAIN kids = 0..count /\ unseen \in [1..count -> SUBSET (1..count)]
  /\ \A n \in 1..count : parent[n] \in 0..(n - 1) /\ \E k \in DOMAIN kids[parent[n]] : kids[parent[n]][k] = n

DataNodes(stop) == {n \in 1..count : Level(parent[n]) = stop /\ kind[n] \in {"leaf", "container", "choice"}}

\* Nodes that are siblings in a data tree have different identifiers, however many
\* uses, choices and cases are between them and whenever they came to be there; the
\* only exceptions are nodes that stood behind an empty uses, choice or case when
\* the second of a name was added, where the walk of lys_check_id ends.
UniqueIds ==
  \A stop \in {Top} \cup 1..count :
    \A m, n \in DataNodes(stop) : m < n /\ name[m] = name[n] => m \in unseen[n]

\* The tree lys_node_addchild builds under the checks of lys_check_id is one: each
\* node is a child of its parent, and siblings of a data tree differ in name but
\* behind an empty uses, choice or case.
TreeSound == TypeOK /\ UniqueIds

\* A statement is refused only for a name that is taken where it would be seen.
RefusedClash ==
  refused # << >> =>
    LET p == refused[1]
        same == {n \in 1..count : name[n] = refused[3]}
    IN  CASE refused[2] = "grouping" ->
               \E g \in same : /\ kind[g] = "grouping"
                              /\ \/ p \in Ancestors(g)
                                 \/ p # Top /\ parent[g] \in Ancestors(p)
          [] refused[2] = "case" -> \E n \in same : parent[n] = p
          [] OTHER -> same \cap DataNodes(Level(p)) # {}

\* lys_getnext, called until it returns NULL, returns every node that can have
\* an instance below the parent, once and in order, unless a uses, choice or case
\* on this level has no data node, at which the enumeration may end.
GetnextAll ==
  \A p \in {Top} \cup {n \in 1..count : kind[n] \in {"container", "grouping"}} :
    (\A n \in Empty : Level(parent[n]) # p) => Enumerated(p) = Flat(p)
=============================================================================
