---------------------------- MODULE MCSchemaTree ----------------------------
(***************************************************************************)
(* SchemaTree with names that are compared for equality only, so that they *)
(* can be permuted.                                                        *)
(***************************************************************************)
EXTENDS SchemaTree

CONSTANTS n1, n2, n3

NameSymmetry == Permutations(Names)
=============================================================================
