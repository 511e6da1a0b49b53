------------------------------- MODULE Forest -------------------------------
(***************************************************************************)
(* What the data tree API promises: nodes in ordered sibling lists.  A     *)
(* list either belongs to a parent node or stands on its own; a node is in *)
(* exactly one list, and operations on one node keep the order of the      *)
(* others.                                                                 *)
(***************************************************************************)
EXTENDS Sequences, SequencesExt

CONSTANTS
  Nodes,
  Docs   \* the lists of children a new tree may come with

VARIABLES
  tops,  \* the sibling lists without a parent
  kids   \* node -> the list of its children

forestVars == <<tops, kids>>

Lists == tops \cup {kids[p] : p \in Nodes}
Placed == UNION {Range(s) : s \in Lists}

Position(s, n) == CHOOSE i \in DOMAIN s : s[i] = n

\* Taking a node out of its list; a list without a parent disappears with its
\* last node.
Out(s, n) == IF n \in Range(s) THEN RemoveAt(s, Position(s, n)) ELSE s
TopsOut(n) == {Out(s, n) : s \in tops} \ {<< >>}
KidsOut(n) == [p \in Nodes |-> Out(kids[p], n)]

\* Putting n next to a node of a list.
Before(s, sib, n) == InsertAt(s, Position(s, sib), n)
After(s, sib, n) == InsertAt(s, Position(s, sib) + 1, n)

Init ==
  /\ tops = {}
  /\ kids = [n \in Nodes |-> << >>]

\* A new tree: a node with a list of children.
Create(n, s) ==
  /\ ({n} \cup Range(s)) \cap Placed = {}
  /\ tops' = tops \cup {<<n>>}
  /\ kids' = [kids EXCEPT ![n] = s]

\* A new last child.
CreateIn(p, n) ==
  /\ n \notin Placed
  /\ kids' = [kids EXCEPT ![p] = Append(@, n)]
  /\ UNCHANGED tops

\* n becomes the last child of p.
InsertLast(p, n) ==
  /\ n \in Placed
  /\ kids' = [KidsOut(n) EXCEPT ![p] = Append(@, n)]
  /\ tops' = TopsOut(n)

\* The head n of a list without a parent does so with all that follow it.
InsertAll(p, n) ==
  \E s \in tops :
    /\ Head(s) = n
    /\ kids' = [kids EXCEPT ![p] = @ \o s]
    /\ tops' = tops \ {s}

\* n becomes a neighbour of sib; Put is Before or After.
InsertBy(Put(_, _, _), sib, n) ==
  /\ n \in Placed /\ sib \in Placed /\ n # sib
  /\ LET place(s) == IF sib \in Range(s) THEN Put(s, sib, n) ELSE s IN
     /\ kids' = [p \in Nodes |-> place(Out(kids[p], n))]
     /\ tops' = {place(s) : s \in TopsOut(n)}

Unlink(n) ==
  /\ n \in Placed
  /\ kids' = KidsOut(n)
  /\ tops' = TopsOut(n) \cup {<<n>>}

\* A node disappears with its children, or a list with all of its nodes.
Free(n) ==
  /\ n \in Placed
  /\ kids' = [KidsOut(n) EXCEPT ![n] = << >>]
  /\ tops' = TopsOut(n)

FreeList(n) ==
  \E s \in Lists :
    /\ n \in Range(s)
    /\ kids' = [p \in Nodes |-> IF p \in Range(s) \/ kids[p] = s THEN << >> ELSE kids[p]]
    /\ tops' = tops \ {s}

Next ==
  \/ \E n \in Nodes : \E s \in Docs \cup {<< >>} : Create(n, s)
  \/ \E n \in Nodes : Unlink(n) \/ Free(n) \/ FreeList(n)
  \/ \E m, n \in Nodes :
       \/ CreateIn(m, n) \/ InsertLast(m, n) \/ InsertAll(m, n)
       \/ InsertBy(Before, m, n) \/ InsertBy(After, m, n)

Spec == Init /\ [][Next]_forestVars
=============================================================================
