---------------------------- MODULE MCModuleLoad ----------------------------
(* TLC instances of ModuleLoad: search paths with the documents in them.   *)
EXTENDS ModuleLoad, TLC

Import(n) == [kind |-> "import", name |-> n, rev |-> 0]
ImportRev(n, r) == [kind |-> "import", name |-> n, rev |-> r]
Include(n) == [kind |-> "include", name |-> n, rev |-> 0]
Mod(n, r, ns, stmts, err) ==
  [kind |-> "module", name |-> n, rev |-> r, revs |-> IF r = 0 THEN 0 ELSE 1, ns |-> ns,
   stmts |-> stmts, err |-> err]
Sub(n, stmts, err) ==
  [kind |-> "submodule", name |-> n, rev |-> 0, revs |-> 0, ns |-> "", stmts |-> stmts, err |-> err]

MCAddr == 1..8

\* Imports: of one of two revisions, by a module with the namespace of another
\* one, in a circle, and by a module that fails after its imports.
ImportDocs ==
  ("b" :> Mod("b", 0, "nsb", <<ImportRev("c", 1)>>, "none")) @@
  ("c1" :> Mod("c", 1, "nsc", << >>, "none")) @@
  ("c2" :> Mod("c", 2, "nsc", << >>, "none")) @@
  ("x" :> Mod("x", 1, "nsc", <<Import("c")>>, "none")) @@
  ("p" :> Mod("p", 1, "nsp", <<Import("b"), Import("q")>>, "none")) @@
  ("q" :> Mod("q", 1, "nsq", <<Import("p")>>, "none")) @@
  ("e" :> Mod("e", 1, "nse", <<Import("b")>>, "body"))

\* Includes: a submodule included by another one first and by its module later,
\* imports that reach the module through a submodule, a circle, and an
\* include of a module.
IncludeDocs ==
  ("m" :> Mod("m", 1, "nsm", <<Import("c"), Include("s1"), Include("s2")>>, "none")) @@
  ("s1" :> Sub("s1", <<Import("d"), Include("s2")>>, "none")) @@
  ("s2" :> Sub("s2", <<Import("c")>>, "none")) @@
  ("c" :> Mod("c", 1, "nsc", << >>, "none")) @@
  ("d" :> Mod("d", 0, "nsd", << >>, "none")) @@
  ("n" :> Mod("n", 1, "nsn", <<Include("t1")>>, "none")) @@
  ("t1" :> Sub("t1", <<Include("t2")>>, "none")) @@
  ("t2" :> Sub("t2", <<Include("t1")>>, "head")) @@
  ("w" :> Mod("w", 1, "nsw", <<Include("c")>>, "none"))

MCDocs == ImportDocs @@ IncludeDocs
MCPaths == {DOMAIN ImportDocs, DOMAIN IncludeDocs}
=============================================================================
