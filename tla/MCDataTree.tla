----------------------------- MODULE MCDataTree -----------------------------
(* A TLC instance of DataTree.                                            *)
EXTENDS DataTree, TLC

CONSTANTS c, t1, t2, r, x1

\* One container, two leafs and a leafref.
LeafNodes == {c, t1, t2, r}
LeafKinds == (c :> "c") @@ (t1 :> "t") @@ (t2 :> "t") @@ (r :> "r")
LeafDocs == {<< >>, <<t1, r>>, <<r, t2>>, <<t1, t2>>}
=============================================================================
