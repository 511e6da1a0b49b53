----------------------------- MODULE YangPrinter -----------------------------
(***************************************************************************)
(* The parts every yang_print_* function of printer_yang.c prints, in its  *)
(* order.  "kids" stands for the loop over the children.  Where the        *)
(* statement is closed by ";" if nothing was printed (yang_print_open and  *)
(* yang_print_close) only the layout depends on it.                        *)
(***************************************************************************)
EXTENDS Sequences

yang_print_snode_common == <<"status", "description", "reference">>
yang_print_snode_common2 == <<"config", "mandatory">> \o yang_print_snode_common
yang_print_restr == <<"description", "reference", "error-app-tag", "error-message">>

yang_print_model(sub) ==
  <<"yang-version">> \o (IF sub THEN <<"belongs-to">> ELSE <<"namespace", "prefix">>)
    \o <<"import", "include", "organization", "contact", "description", "reference",
         "revision", "feature", "identity", "typedef", "deviation", "kids", "augment">>
yang_print_import == <<"prefix", "revision-date">>
yang_print_include == <<"revision-date">>
yang_print_revision == <<"description", "reference">>
yang_print_feature == yang_print_snode_common \o <<"if-feature">>
yang_print_identity == yang_print_snode_common \o <<"base">>
yang_print_typedef == yang_print_snode_common \o <<"type", "units", "default">>
yang_print_when == <<"description", "reference">>
yang_print_must == yang_print_restr
yang_print_type(base) ==
  CASE base = "type binary" -> <<"length">>
    [] base = "type bits" -> <<"bit">>
    [] base = "type decimal64" -> <<"fraction-digits", "range">>
    [] base = "type enumeration" -> <<"enum">>
    [] base = "type identityref" -> <<"base">>
    [] base = "type instance-identifier" -> <<"require-instance">>
    [] base = "type int8" -> <<"range">>
    [] base = "type leafref" -> <<"path">>
    [] base = "type string" -> <<"length", "pattern">>
    [] base = "type union" -> <<"type">>
    [] base = "type boolean" -> <<>>
yang_print_container ==
  <<"nacm", "when", "if-feature", "must", "presence">> \o yang_print_snode_common2
    \o <<"typedef", "kids">>
yang_print_case == <<"nacm">> \o yang_print_snode_common2 \o <<"if-feature", "when", "kids">>
yang_print_choice ==
  <<"nacm", "default">> \o yang_print_snode_common2 \o <<"if-feature", "when", "kids">>
\* mutant: units are forgotten
yang_print_leaf_units ==
  <<"nacm", "when", "if-feature", "must">> \o yang_print_snode_common2 \o <<"type", "default">>
yang_print_leaf ==
  <<"nacm", "when", "if-feature", "must">> \o yang_print_snode_common2
    \o <<"type", "units", "default">>
yang_print_anyxml == <<"nacm">> \o yang_print_snode_common2 \o <<"if-feature", "must", "when">>
yang_print_leaflist ==
  <<"nacm", "when", "if-feature", "must">> \o yang_print_snode_common2
    \o <<"type", "units", "min-elements", "max-elements", "ordered-by">>
yang_print_list ==
  <<"nacm", "when", "if-feature", "must", "key", "unique">> \o yang_print_snode_common2
    \o <<"min-elements", "max-elements", "ordered-by", "typedef", "kids">>
yang_print_grouping == yang_print_snode_common \o <<"typedef", "kids">>
yang_print_uses ==
  <<"nacm">> \o yang_print_snode_common \o <<"if-feature", "when", "refine", "augment">>
yang_print_input_output == <<"typedef", "kids">>
yang_print_rpc == yang_print_snode_common \o <<"if-feature", "typedef", "kids">>
yang_print_notif == yang_print_snode_common \o <<"if-feature", "typedef", "kids">>
yang_print_augment ==
  <<"nacm">> \o yang_print_snode_common \o <<"if-feature", "when", "kids">>
yang_print_refine ==
  <<"config", "mandatory">> \o yang_print_snode_common
    \o <<"must", "default", "presence", "min-elements", "max-elements">>

YangRow(kind) ==
  CASE kind = "module" -> yang_print_model(FALSE) [] kind = "submodule" -> yang_print_model(TRUE)
    [] kind = "import" -> yang_print_import       [] kind = "include" -> yang_print_include
    [] kind = "revision" -> yang_print_revision   [] kind = "feature" -> yang_print_feature
    [] kind = "identity" -> yang_print_identity   [] kind = "typedef" -> yang_print_typedef
    [] kind = "when" -> yang_print_when           [] kind = "must" -> yang_print_must
    [] kind = "pattern" -> yang_print_restr
    [] kind = "container" -> yang_print_container [] kind = "case" -> yang_print_case
    [] kind = "choice" -> yang_print_choice       [] kind = "anyxml" -> yang_print_anyxml
    [] kind = "leaf" -> yang_print_leaf           [] kind = "leaf-list" -> yang_print_leaflist
    [] kind = "list" -> yang_print_list           [] kind = "grouping" -> yang_print_grouping
    [] kind = "uses" -> yang_print_uses           [] kind = "input" -> yang_print_input_output
    [] kind = "rpc" -> yang_print_rpc             [] kind = "notification" -> yang_print_notif
    [] kind = "augment" -> yang_print_augment     [] kind = "refine" -> yang_print_refine
    [] OTHER -> yang_print_type(kind)
=============================================================================
