----------------------------- MODULE StringPool -----------------------------
(***************************************************************************)
(* What the dictionary promises its callers: a pool of interned strings.   *)
(* Each content has a number of references and, while it has any, one      *)
(* address that does not change; the string disappears with its last       *)
(* reference.  Calls take effect one at a time.                            *)
(***************************************************************************)
EXTENDS Integers

CONSTANTS Values, Addr, None

VARIABLES
  count,  \* references to each content
  ptr     \* the address of each content, None when it is not stored

poolVars == <<count, ptr>>

Init ==
  /\ count = [v \in Values |-> 0]
  /\ ptr = [v \in Values |-> None]

\* A first reference: the content gets an address no other content has.
InsertNew(v, a) ==
  /\ count[v] = 0
  /\ \A w \in Values : ptr[w] # a
  /\ count' = [count EXCEPT ![v] = 1]
  /\ ptr' = [ptr EXCEPT ![v] = a]

InsertAgain(v) ==
  /\ count[v] > 0
  /\ count' = [count EXCEPT ![v] = @ + 1]
  /\ UNCHANGED ptr

Remove(v) ==
  /\ count[v] > 0
  /\ count' = [count EXCEPT ![v] = @ - 1]
  /\ ptr' = [ptr EXCEPT ![v] = IF count[v] = 1 THEN None ELSE @]

Clear ==
  /\ count' = [v \in Values |-> 0]
  /\ ptr' = [v \in Values |-> None]

Next ==
  \/ \E v \in Values : InsertAgain(v) \/ Remove(v)
  \/ \E v \in Values, a \in Addr : InsertNew(v, a)
  \/ Clear

Spec == Init /\ [][Next]_poolVars
=============================================================================
