------------------------------- MODULE Closure -------------------------------
(***************************************************************************)
(* What pointers lead to: the smallest set that has the elements of start  *)
(* and, with every element, its successors.                                *)
(***************************************************************************)
EXTENDS Naturals, FiniteSets

\* S is finite and holds everything that can be reached; succ[x] is the set of
\* the successors of x.  A step that adds nothing is the last one that could,
\* so there are no more steps than elements.
Closure(S, start, succ) ==
  LET up[n \in Nat] ==
        IF n = 0 THEN start
        ELSE LET below == up[n - 1] IN below \cup UNION {succ[x] : x \in below}
  IN  up[Cardinality(S)]
=============================================================================
