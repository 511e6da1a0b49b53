----------------------------- MODULE MCFeatures -----------------------------
(***************************************************************************)
(* Features of a module with a submodule and of a module it imports.       *)
(***************************************************************************)
EXTENDS Features

MCFeature == {"f", "g", "s", "x"}
MCHolder == {"mod", "sub", "imp"}
MCHome == [f \in MCFeature |-> CASE f \in {"f", "g"} -> "mod" [] f = "s" -> "sub" [] f = "x" -> "imp"]
MCIncludes == [m \in MCHolder |-> IF m = "mod" THEN {"sub"} ELSE {}]

\* An imported module refers to itself only.
Statements == {r \in [MCFeature -> SUBSET MCFeature] : r["x"] \subseteq {"x"}}

\* Neither refers a feature of a submodule to another, nor a feature of the module
\* to itself; the features of the module may refer to each other in a circle, and
\* the imported one to itself.
PlainSubmodules == {r \in Statements : r["s"] = {} /\ "f" \notin r["f"] /\ "g" \notin r["g"]}
=============================================================================
