----------------------------- MODULE YinStatements -----------------------------
(***************************************************************************)
(* What the rows of the YIN reader (parser_yin.c) and of the two schema    *)
(* printers (printer_yin.c, printer_yang.c) say about every statement.     *)
(*                                                                         *)
(* A row of the reader gives the name of the argument's attribute, the     *)
(* options of read_yin_common, the substatements stored once (one), the    *)
(* substatements counted by the first loop (cnt), the child nodes (kids),  *)
(* the names the second loop tests (fill; blind when it tests none), and   *)
(* whether the first loop frees what it has stored (frees).  A row of a    *)
(* printer gives the attribute and the parts it prints in their order.     *)
(***************************************************************************)
EXTENDS Naturals, Sequences

DataStmts == {"container", "leaf-list", "leaf", "list", "choice", "uses", "anyxml"}
Common == {"status", "description", "reference"}
TypeStmts == {"type bits", "type decimal64", "type enumeration", "type identityref", "type binary",
              "type int8", "type leafref", "type string", "type union", "type boolean",
              "type instance-identifier"}

\* The statements with a row.
AllKinds ==
  {"module", "submodule", "import", "include", "revision", "feature", "identity", "typedef",
   "when", "must", "pattern", "type bits", "type decimal64", "type enumeration",
   "type identityref", "type binary", "type int8", "type leafref", "type string", "type union",
   "type boolean", "type instance-identifier", "container", "case", "choice", "anyxml", "leaf",
   "leaf-list", "list", "grouping", "uses", "input", "rpc", "notification", "augment", "refine"}

Row(arg, opt, one, cnt, kids) ==
  [arg |-> arg, opt |-> opt, one |-> one, cnt |-> cnt, kids |-> kids,
   fill |-> cnt, blind |-> FALSE, frees |-> TRUE]
Blind(row) == [row EXCEPT !.blind = TRUE]
Keeps(row) == [row EXCEPT !.frees = FALSE]

-----------------------------------------------------------------------------
(* The reader.  "common": read_yin_common is called; "config", "inherit",   *)
(* "resolve" (inherit if resolve), "nacm", "nogrp" (nacm unless the parent  *)
(* is a grouping), "noparent": its options and arguments.                   *)

NodeOpt == {"common", "config", "resolve", "nogrp"}

read_sub_module(sub) ==
  Row("name", {},
      {"description", "reference", "organization", "contact", "yang-version"}
        \cup (IF sub THEN {"belongs-to"} ELSE {"namespace", "prefix"}),
      {"import", "revision", "typedef", "identity", "include", "augment", "feature", "deviation"},
      DataStmts \cup {"grouping", "rpc", "notification"})

fill_yin_import == Keeps(Row("module", {}, {"prefix", "revision-date"}, {}, {}))
fill_yin_include == Keeps(Row("module", {}, {"revision-date"}, {}, {}))
revision == Keeps(Row("date", {}, {"description", "reference"}, {}, {}))
fill_yin_feature == Blind(Row("name", {"common", "noparent"}, {}, {"if-feature"}, {}))
fill_yin_identity == Keeps(Row("name", {"common", "noparent"}, {"base"}, {}, {}))
fill_yin_typedef == Keeps(Row("name", {"common", "noparent"}, {"type", "default", "units"}, {}, {}))

read_restr_substmt(arg) ==
  Keeps(Row(arg, {}, {"description", "reference", "error-app-tag", "error-message"}, {}, {}))
read_yin_when == Keeps(Row("condition", {}, {"description", "reference"}, {}, {}))
fill_yin_must == read_restr_substmt("condition")

\* fill_yin_type has one branch per base type.
fill_type_bits == Blind(Row("name", {}, {}, {"bit"}, {}))
fill_type_dec64 == Keeps(Row("name", {}, {"range", "fraction-digits"}, {}, {}))
fill_type_enum == Blind(Row("name", {}, {}, {"enum"}, {}))
fill_type_ident == Row("name", {}, {"base"}, {}, {})
fill_type_inst == Keeps(Row("name", {}, {"require-instance"}, {}, {}))
fill_type_restr(name) == Keeps(Row("name", {}, {name}, {}, {}))
fill_type_leafref == Keeps(Row("name", {}, {"path"}, {}, {}))
\* mutant: the length stays linked and the second loop takes it for a pattern
fill_type_string_keeps == Keeps(Blind(Row("name", {}, {"length"}, {"pattern"}, {})))
fill_type_string == Blind(Row("name", {}, {"length"}, {"pattern"}, {}))
fill_type_union == Blind(Row("name", {}, {}, {"type"}, {}))
fill_type_plain == Keeps(Row("name", {}, {}, {}, {}))

read_yin_case == Blind(Row("name", {"common", "inherit", "nacm"}, {"when"}, {"if-feature"}, DataStmts))
read_yin_choice ==
  Blind(Row("name", NodeOpt, {"default", "mandatory", "when"}, {"if-feature"},
            {"container", "leaf-list", "leaf", "list", "case", "anyxml"}))
read_yin_anyxml == Row("name", NodeOpt, {"mandatory", "when"}, {"must", "if-feature"}, {})
read_yin_leaf ==
  Keeps(Row("name", NodeOpt, {"type", "default", "units", "mandatory", "when"},
            {"must", "if-feature"}, {}))
read_yin_leaflist ==
  Keeps(Row("name", NodeOpt,
            {"type", "units", "ordered-by", "min-elements", "max-elements", "when"},
            {"must", "if-feature"}, {}))
read_yin_list ==
  Row("name", NodeOpt, {"key", "ordered-by", "min-elements", "max-elements", "when"},
      {"unique", "typedef", "must", "if-feature"}, DataStmts \cup {"grouping"})
read_yin_container ==
  Row("name", NodeOpt, {"presence", "when"}, {"typedef", "must", "if-feature"},
      DataStmts \cup {"grouping"})
read_yin_grouping == Blind(Row("name", {"common"}, {}, {"typedef"}, DataStmts \cup {"grouping"}))
read_yin_input_output ==
  Blind(Row("none", {"common", "nacm"}, {}, {"typedef"}, DataStmts \cup {"grouping"}))
read_yin_notif_same ==
  Row("name", {"common", "nacm"}, {}, {"typedef", "if-feature"}, DataStmts \cup {"grouping"})
\* The second loop looks for "if-features", a name the first loop refuses.
read_yin_notif == [read_yin_notif_same EXCEPT !.fill = {"typedef", "if-features"}]
read_yin_rpc ==
  Row("name", {"common", "nacm"}, {}, {"typedef", "if-feature"}, {"grouping", "input", "output"})
read_yin_uses ==
  Row("name", {"common", "resolve", "nogrp"}, {"when"}, {"refine", "augment", "if-feature"}, {})
fill_yin_augment ==
  Row("target-node", {"common", "nacm", "noparent"}, {"when"}, {"if-feature"},
      DataStmts \cup {"case"})
fill_yin_refine ==
  Blind(Row("target-node", {"common", "config", "noparent"},
            {"default", "mandatory", "min-elements", "max-elements", "presence"}, {"must"}, {}))

ReadRow(kind) ==
  CASE kind = "module" -> read_sub_module(FALSE)   [] kind = "submodule" -> read_sub_module(TRUE)
    [] kind = "import" -> fill_yin_import          [] kind = "include" -> fill_yin_include
    [] kind = "revision" -> revision               [] kind = "feature" -> fill_yin_feature
    [] kind = "identity" -> fill_yin_identity      [] kind = "typedef" -> fill_yin_typedef
    [] kind = "when" -> read_yin_when              [] kind = "must" -> fill_yin_must
    [] kind = "pattern" -> read_restr_substmt("value")
    [] kind = "type bits" -> fill_type_bits        [] kind = "type decimal64" -> fill_type_dec64
    [] kind = "type enumeration" -> fill_type_enum [] kind = "type identityref" -> fill_type_ident
    [] kind = "type binary" -> fill_type_restr("length")
    [] kind = "type int8" -> fill_type_restr("range")
    [] kind = "type leafref" -> fill_type_leafref  [] kind = "type string" -> fill_type_string
    [] kind = "type union" -> fill_type_union      [] kind = "type boolean" -> fill_type_plain
    [] kind = "type instance-identifier" -> fill_type_inst
    [] kind = "container" -> read_yin_container    [] kind = "case" -> read_yin_case
    [] kind = "choice" -> read_yin_choice          [] kind = "anyxml" -> read_yin_anyxml
    [] kind = "leaf" -> read_yin_leaf              [] kind = "leaf-list" -> read_yin_leaflist
    [] kind = "list" -> read_yin_list              [] kind = "grouping" -> read_yin_grouping
    [] kind = "uses" -> read_yin_uses              [] kind = "input" -> read_yin_input_output
    [] kind = "rpc" -> read_yin_rpc                [] kind = "notification" -> read_yin_notif
    [] kind = "augment" -> fill_yin_augment        [] kind = "refine" -> fill_yin_refine

-----------------------------------------------------------------------------
(* The printers.  "kids" stands for the loop over the children. *)

Parts(arg, parts, kids) == [arg |-> arg, parts |-> parts, kids |-> kids]

yin_print_snode_common == <<"status", "description", "reference">>
yin_print_snode_common2 == <<"config", "mandatory">> \o yin_print_snode_common
yin_print_restr_sub == <<"description", "reference", "error-app-tag", "error-message">>

yin_print_model(sub) ==
  Parts("name",
        <<"yang-version">> \o (IF sub THEN <<"belongs-to">> ELSE <<"namespace", "prefix">>)
          \o <<"import", "include", "organization", "contact", "description", "reference",
               "revision", "feature", "identity", "typedef", "deviation", "kids", "augment">>,
        DataStmts \cup {"grouping", "rpc", "notification"})
yin_print_import == Parts("module", <<"prefix", "revision-date">>, {})
\* The reader asks for the attribute "module" of an include.
yin_print_include == Parts("value", <<"revision-date">>, {})
yin_print_revision == Parts("date", <<"description", "reference">>, {})
yin_print_feature == Parts("name", yin_print_snode_common \o <<"if-feature">>, {})
yin_print_identity == Parts("name", yin_print_snode_common \o <<"base">>, {})
yin_print_typedef == Parts("name", yin_print_snode_common \o <<"type", "units", "default">>, {})
yin_print_when == Parts("condition", <<"description", "reference">>, {})
yin_print_must == Parts("condition", yin_print_restr_sub, {})
yin_print_restr == Parts("value", yin_print_restr_sub, {})
yin_print_type(base) ==
  Parts("name",
        CASE base = "type binary" -> <<"length">>
          [] base = "type bits" -> <<"bit">>
          [] base = "type decimal64" -> <<"fraction-digits", "range">>
          [] base = "type enumeration" -> <<"enum">>
          [] base = "type identityref" -> <<"base">>
          [] base = "type instance-identifier" -> <<"require-instance">>
          [] base = "type int8" -> <<"range">>
          [] base = "type leafref" -> <<"path">>
          [] base = "type string" -> <<"length", "pattern">>
          [] base = "type union" -> <<"type">>
          [] base = "type boolean" -> <<>>, {})
yin_print_container ==
  Parts("name", <<"nacm", "when", "if-feature", "must", "presence">> \o yin_print_snode_common2
                  \o <<"typedef", "kids">>, DataStmts \cup {"grouping"})
yin_print_case ==
  Parts("name", <<"nacm">> \o yin_print_snode_common2 \o <<"if-feature", "when", "kids">>, DataStmts)
yin_print_choice ==
  Parts("name", <<"nacm", "default">> \o yin_print_snode_common2 \o <<"if-feature", "when", "kids">>,
        {"container", "leaf", "leaf-list", "list", "anyxml", "case"})
yin_print_leaf ==
  Parts("name", <<"nacm", "when", "if-feature", "must">> \o yin_print_snode_common2
                  \o <<"type", "units", "default">>, {})
yin_print_anyxml ==
  Parts("name", <<"nacm">> \o yin_print_snode_common2 \o <<"if-feature", "must", "when">>, {})
yin_print_leaflist ==
  Parts("name", <<"nacm", "when", "if-feature", "must">> \o yin_print_snode_common2
                  \o <<"type", "units", "min-elements", "max-elements", "ordered-by">>, {})
yin_print_list ==
  Parts("name", <<"nacm", "when", "if-feature", "must", "key", "unique">> \o yin_print_snode_common2
                  \o <<"min-elements", "max-elements", "ordered-by", "typedef", "kids">>,
        DataStmts \cup {"grouping"})
yin_print_grouping ==
  Parts("name", yin_print_snode_common \o <<"typedef", "kids">>, DataStmts \cup {"grouping"})
yin_print_uses ==
  Parts("name", <<"nacm">> \o yin_print_snode_common
                  \o <<"if-feature", "when", "refine", "augment">>, {})
yin_print_input_output == Parts("none", <<"typedef", "kids">>, DataStmts \cup {"grouping"})
yin_print_rpc ==
  Parts("name", yin_print_snode_common \o <<"if-feature", "typedef", "kids">>,
        {"grouping", "input", "output"})
yin_print_notif ==
  Parts("name", yin_print_snode_common \o <<"if-feature", "typedef", "kids">>,
        DataStmts \cup {"grouping"})
yin_print_augment ==
  Parts("target-node", <<"nacm">> \o yin_print_snode_common \o <<"if-feature", "when", "kids">>,
        DataStmts \cup {"case"})
yin_print_refine ==
  Parts("target-node", <<"config", "mandatory">> \o yin_print_snode_common
                         \o <<"must", "default", "presence", "min-elements", "max-elements">>, {})

YinRow(kind) ==
  CASE kind = "module" -> yin_print_model(FALSE) [] kind = "submodule" -> yin_print_model(TRUE)
    [] kind = "import" -> yin_print_import       [] kind = "include" -> yin_print_include
    [] kind = "revision" -> yin_print_revision   [] kind = "feature" -> yin_print_feature
    [] kind = "identity" -> yin_print_identity   [] kind = "typedef" -> yin_print_typedef
    [] kind = "when" -> yin_print_when           [] kind = "must" -> yin_print_must
    [] kind = "pattern" -> yin_print_restr
    [] kind = "container" -> yin_print_container [] kind = "case" -> yin_print_case
    [] kind = "choice" -> yin_print_choice       [] kind = "anyxml" -> yin_print_anyxml
    [] kind = "leaf" -> yin_print_leaf           [] kind = "leaf-list" -> yin_print_leaflist
    [] kind = "list" -> yin_print_list           [] kind = "grouping" -> yin_print_grouping
    [] kind = "uses" -> yin_print_uses           [] kind = "input" -> yin_print_input_output
    [] kind = "rpc" -> yin_print_rpc             [] kind = "notification" -> yin_print_notif
    [] kind = "augment" -> yin_print_augment     [] kind = "refine" -> yin_print_refine
    [] OTHER -> yin_print_type(kind)
=============================================================================
