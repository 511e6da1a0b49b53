------------------------------- MODULE MCDict -------------------------------
(* TLC instance of Dict: two of the contents collide in one bucket.        *)
EXTENDS Dict, TLC

CONSTANTS v1, v2, v3, t1, t2, a1, a2, a3

MCThreads == {t1, t2}
MCValues == {v1, v2, v3}
MCAddr == {a1, a2, a3}
MCBuckets == {0, 1}
MCHashOf == (v1 :> 0) @@ (v2 :> 0) @@ (v3 :> 1)

\* Threads and addresses are interchangeable; contents are not (they hash).
Symmetry == Permutations(MCThreads) \cup Permutations(MCAddr)
=============================================================================
