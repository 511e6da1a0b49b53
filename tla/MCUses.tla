------------------------------- MODULE MCUses -------------------------------
(* Instances of Uses: every way for three groupings to use each other and  *)
(* one that does not exist, with typedefs in three orders.                 *)
EXTENDS Uses, TLC

Leaf(t) == [kind |-> "leaf", arg |-> t]
Use(g) == [kind |-> "uses", arg |-> g]
Def(n, t) == [name |-> n, type |-> t]
Grp(n, b) == [name |-> n, body |-> b]

\* At most n uses of groupings in S, then a leaf of type t.
Body(S, n, t) == {[k \in DOMAIN s |-> Use(s[k])] \o <<Leaf(t)>> : s \in SeqOf(S, n)}

Typedefs == {<<Def("t1", "t2"), Def("t2", "t3"), Def("t3", "string")>>,
             <<Def("t2", "string"), Def("t1", "t2")>>,
             <<Def("t1", "t2"), Def("t2", "t1")>>}

AllSchemas ==
  {[tpdfs |-> t, grps |-> <<Grp("g1", b1), Grp("g2", b2), Grp("g3", b3)>>,
    data |-> <<Use("g1"), Use("g2")>>] :
     t \in Typedefs,
     b1 \in Body({"g2", "g3", "gx"}, 2, "t1"),
     b2 \in Body({"g1", "g3"}, 2, "string"),
     b3 \in Body({"g1", "g2"}, 1, "t1")}

\* What the proofs about copies and verdicts assume of the documents.
ASSUME CountersSufficeHere == CountersSuffice
=============================================================================
