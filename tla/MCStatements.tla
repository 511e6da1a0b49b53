---- MODULE MCStatements ----
(***************************************************************************)
(* Every statement with at most two substatements (three for the numbered  *)
(* types) of the names and arguments its reader tells apart, alone and     *)
(* together with what it must have, in every kind of place.                *)
(***************************************************************************)
EXTENDS Statements

\* parser_yin.c:4330 looks for "if-features"; parser_yin.c:2039 reads a choice as a case.
KnownMisread == {<<"notification", "if-feature">>, <<"augment", "choice">>}

\* See the README, "Where the code differs".
KnownUnprinted ==
  {<<"include", "argument">>, <<"submodule", "yang-version">>, <<"refine", "min-elements">>,
   <<"refine", "max-elements">>, <<"refine", "status">>, <<"rpc", "nacm">>, <<"notification", "nacm">>}
    \cup {<<"input", n>> : n \in Common \cup {"nacm"}}
====
