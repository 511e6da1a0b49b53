-------------------------- MODULE StatementsProofs --------------------------
(***************************************************************************)
(* The two loops of the readers of parser_yin.c, for statements with any   *)
(* number of substatements: proofs about Statements.                       *)
(***************************************************************************)
EXTENDS Statements, ClosureProofs, SequenceTheorems

\* A loop is the last of a sequence of structures, each made of the one before.
Unfolds(h, loop, kind, c, r, s, n) ==
  /\ h = [k \in 0..n |-> h[k]] /\ h[0] = r
  /\ \A k \in 1..n : h[k] = LoopStep(loop, kind, c, h[k - 1], s[k])

\* There is such a sequence for every number of elements.
LEMMA UnfoldsExists ==
  ASSUME NEW loop, NEW kind, NEW c, NEW r, NEW s, NEW n \in Nat
  PROVE  \E h : Unfolds(h, loop, kind, c, r, s, n)
<1> DEFINE A == {i \in Nat : \E h : Unfolds(h, loop, kind, c, r, s, i)}
<1>1. 0 \in A
  <2>1. Unfolds([k \in 0..0 |-> r], loop, kind, c, r, s, 0)
    BY DEF Unfolds
  <2> QED
    BY <2>1
<1>2. ASSUME NEW i \in Nat, i \in A PROVE i + 1 \in A
  <2>1. PICK h : Unfolds(h, loop, kind, c, r, s, i)
    BY <1>2
  <2> DEFINE j == [k \in 0..(i + 1) |-> IF k <= i THEN h[k] ELSE LoopStep(loop, kind, c, h[i], s[i + 1])]
  <2>2. j = [k \in 0..(i + 1) |-> j[k]] /\ j[0] = r
    BY <2>1 DEF Unfolds
  <2>3. ASSUME NEW k \in 1..(i + 1) PROVE j[k] = LoopStep(loop, kind, c, j[k - 1], s[k])
    <3>1. CASE k = i + 1
      <4>1. k - 1 = i /\ k \in 0..(i + 1) /\ i \in 0..(i + 1) /\ ~(k <= i)
        BY <3>1
      <4>2. j[k] = LoopStep(loop, kind, c, h[i], s[i + 1]) /\ j[k - 1] = h[i]
        BY <4>1
      <4> HIDE DEF j
      <4> QED
        BY <4>1, <4>2, <3>1
    <3>2. CASE k <= i
      <4>1. k - 1 \in 0..(i + 1) /\ k \in 0..(i + 1) /\ k - 1 <= i /\ k \in 1..i
        BY <3>2
      <4>2. j[k] = h[k] /\ j[k - 1] = h[k - 1]
        BY <4>1, <3>2
      <4>3. h[k] = LoopStep(loop, kind, c, h[k - 1], s[k])
        BY <4>1, <2>1 DEF Unfolds
      <4> HIDE DEF j
      <4> QED
        BY <4>2, <4>3
    <3> QED
      BY <3>1, <3>2
  <2> HIDE DEF j
  <2>4. Unfolds(j, loop, kind, c, r, s, i + 1)
    BY <2>2, <2>3 DEF Unfolds
  <2> QED
    BY <2>4
<1> HIDE DEF A
<1>3. Nat \subseteq A
  BY <1>1, <1>2, SetInduction
<1> QED
  BY <1>3 DEF A

\* Loop returns the last of them.
LEMMA LoopUnfolds ==
  ASSUME NEW loop, NEW kind, NEW c, NEW r, NEW s, Len(s) \in Nat
  PROVE  \E h : Unfolds(h, loop, kind, c, r, s, Len(s)) /\ Loop(loop, kind, c, r, s) = h[Len(s)]
<1> DEFINE len == Len(s)
           Body(f) == [k \in 0..len |-> IF k = 0 THEN r ELSE LoopStep(loop, kind, c, f[k - 1], s[k])]
           up == CHOOSE f : f = Body(f)
<1>1. Loop(loop, kind, c, r, s) = up[len]
  BY DEF Loop
<1>2. len \in Nat
  OBVIOUS
<1> HIDE DEF len
<1>3. PICK h : Unfolds(h, loop, kind, c, r, s, len)
  BY <1>2, UnfoldsExists
<1>4. h = Body(h)
  <2>1. h = [k \in 0..len |-> h[k]] /\ h[0] = r /\ \A k \in 1..len : h[k] = LoopStep(loop, kind, c, h[k - 1], s[k])
    BY <1>3 DEF Unfolds
  <2>2. ASSUME NEW k \in 0..len PROVE h[k] = IF k = 0 THEN r ELSE LoopStep(loop, kind, c, h[k - 1], s[k])
    <3>1. k # 0 => k \in 1..len
      BY <1>2
    <3> QED
      BY <2>1, <3>1
  <2> QED
    BY <2>1, <2>2, Zenon
<1>5. up = Body(up)
  BY <1>4
<1> HIDE DEF up
<1>6. Unfolds(up, loop, kind, c, r, s, len)
  <2>1. up = [k \in 0..len |-> up[k]] /\ \A k \in 0..len : up[k] = IF k = 0 THEN r ELSE LoopStep(loop, kind, c, up[k - 1], s[k])
    BY <1>5
  <2>2. 0 \in 0..len /\ \A k \in 1..len : k \in 0..len /\ k # 0
    BY <1>2
  <2> QED
    BY <2>1, <2>2 DEF Unfolds
<1> QED
  BY <1>1, <1>6 DEF len

Apart(one, cnt, kids) == one \cap cnt = {} /\ kids \cap (one \cup cnt) = {}

\* What the rows have in common, so that the second loop meets what the first one
\* counted: the names of the three sets differ, a loop that tests no names is alone with one counted name, and a loop that
\* tests names tests the counted ones.
Consistent(row, kind) ==
  /\ row.one \cap row.cnt = {} /\ row.kids \cap (row.one \cup row.cnt) = {}
  /\ row.blind \in BOOLEAN /\ row.frees \in BOOLEAN
  /\ row.blind => (row.frees \/ row.one = {}) /\ \E a : row.cnt = {a}
  /\ ~row.blind => row.fill \cap row.one = {}
  /\ \A n \in row.cnt : n \notin row.fill => kind = "notification" /\ n = "if-feature"

\* A plain row, one of a loop that frees nothing and one of a loop that tests nothing.
LEMMA RowConsistent ==
  ASSUME NEW kind, NEW arg, NEW opt, NEW one, NEW cnt, NEW kids
  PROVE  /\ Apart(one, cnt, kids) => Consistent(Row(arg, opt, one, cnt, kids), kind)
         /\ Apart(one, cnt, kids) => Consistent(Keeps(Row(arg, opt, one, cnt, kids)), kind)
         /\ Apart(one, cnt, kids) /\ (\E a : cnt = {a}) => Consistent(Blind(Row(arg, opt, one, cnt, kids)), kind)
<1> DEFINE row == Row(arg, opt, one, cnt, kids)
<1>1. /\ row.opt = opt /\ row.one = one /\ row.cnt = cnt /\ row.kids = kids /\ row.fill = cnt
      /\ row.blind = FALSE /\ row.frees = TRUE
  BY DEF Row
<1>2. LET k == Keeps(row) IN
      /\ k.opt = opt /\ k.one = one /\ k.cnt = cnt /\ k.kids = kids /\ k.fill = cnt
      /\ k.blind = FALSE /\ k.frees = FALSE
  BY DEF Row, Keeps
<1>3. LET k == Blind(row) IN
      /\ k.opt = opt /\ k.one = one /\ k.cnt = cnt /\ k.kids = kids /\ k.fill = cnt
      /\ k.blind = TRUE /\ k.frees = TRUE
  BY DEF Row, Blind
<1> HIDE DEF row
<1>4. Apart(one, cnt, kids) => Consistent(row, kind)
  BY <1>1 DEF Consistent, Apart
<1>5. Apart(one, cnt, kids) => Consistent(Keeps(row), kind)
  BY <1>2 DEF Consistent, Apart
<1>6. Apart(one, cnt, kids) /\ (\E a : cnt = {a}) => Consistent(Blind(row), kind)
  BY <1>3 DEF Consistent, Apart
<1> QED
  BY <1>4, <1>5, <1>6 DEF row

\* The rows of all statements are consistent.
LEMMA RowFacts ==
  ASSUME NEW kind \in AllKinds
  PROVE  Consistent(ReadRow(kind), kind)
<1>1. CASE kind = "module"
  <2>1. ReadRow(kind) = read_sub_module(FALSE)
    BY <1>1 DEF ReadRow
  <2>2. Consistent(read_sub_module(FALSE), kind)
    BY RowConsistent DEF Apart, read_sub_module, DataStmts, NodeOpt
  <2> QED
    BY <2>1, <2>2
<1>2. CASE kind = "submodule"
  <2>1. ReadRow(kind) = read_sub_module(TRUE)
    BY <1>2 DEF ReadRow
  <2>2. Consistent(read_sub_module(TRUE), kind)
    BY RowConsistent DEF Apart, read_sub_module, DataStmts, NodeOpt
  <2> QED
    BY <2>1, <2>2
<1>3. CASE kind = "import"
  <2>1. ReadRow(kind) = fill_yin_import
    BY <1>3 DEF ReadRow
  <2>2. Consistent(fill_yin_import, kind)
    BY RowConsistent DEF Apart, fill_yin_import, DataStmts, NodeOpt
  <2> QED
    BY <2>1, <2>2
<1>4. CASE kind = "include"
  <2>1. ReadRow(kind) = fill_yin_include
    BY <1>4 DEF ReadRow
  <2>2. Consistent(fill_yin_include, kind)
    BY RowConsistent DEF Apart, fill_yin_include, DataStmts, NodeOpt
  <2> QED
    BY <2>1, <2>2
<1>5. CASE kind = "revision"
  <2>1. ReadRow(kind) = revision
    BY <1>5 DEF ReadRow
  <2>2. Consistent(revision, kind)
    BY RowConsistent DEF Apart, revision, DataStmts, NodeOpt
  <2> QED
    BY <2>1, <2>2
<1>6. CASE kind = "feature"
  <2>1. ReadRow(kind) = fill_yin_feature
    BY <1>6 DEF ReadRow
  <2>2. Consistent(fill_yin_feature, kind)
    <3>1. (\E a : {"if-feature"} = {a}) /\ Apart({}, {"if-feature"}, {})
      BY DEF Apart, DataStmts
    <3> QED
      BY <3>1, RowConsistent DEF fill_yin_feature
  <2> QED
    BY <2>1, <2>2
<1>7. CASE kind = "identity"
  <2>1. ReadRow(kind) = fill_yin_identity
    BY <1>7 DEF ReadRow
  <2>2. Consistent(fill_yin_identity, kind)
    BY RowConsistent DEF Apart, fill_yin_identity, DataStmts, NodeOpt
  <2> QED
    BY <2>1, <2>2
<1>8. CASE kind = "typedef"
  <2>1. ReadRow(kind) = fill_yin_typedef
    BY <1>8 DEF ReadRow
  <2>2. Consistent(fill_yin_typedef, kind)
    BY RowConsistent DEF Apart, fill_yin_typedef, DataStmts, NodeOpt
  <2> QED
    BY <2>1, <2>2
<1>9. CASE kind = "when"
  <2>1. ReadRow(kind) = read_yin_when
    BY <1>9 DEF ReadRow
  <2>2. Consistent(read_yin_when, kind)
    BY RowConsistent DEF Apart, read_yin_when, DataStmts, NodeOpt
  <2> QED
    BY <2>1, <2>2
<1>10. CASE kind = "must"
  <2>1. ReadRow(kind) = fill_yin_must
    BY <1>10 DEF ReadRow
  <2>2. Consistent(fill_yin_must, kind)
    BY RowConsistent DEF Apart, fill_yin_must, read_restr_substmt, DataStmts, NodeOpt
  <2> QED
    BY <2>1, <2>2
<1>11. CASE kind = "pattern"
  <2>1. ReadRow(kind) = read_restr_substmt("value")
    BY <1>11 DEF ReadRow
  <2>2. Consistent(read_restr_substmt("value"), kind)
    BY RowConsistent DEF Apart, read_restr_substmt, DataStmts, NodeOpt
  <2> QED
    BY <2>1, <2>2
<1>12. CASE kind = "type bits"
  <2>1. ReadRow(kind) = fill_type_bits
    BY <1>12 DEF ReadRow
  <2>2. Consistent(fill_type_bits, kind)
    BY RowConsistent DEF Apart, fill_type_bits, DataStmts, NodeOpt
  <2> QED
    BY <2>1, <2>2
<1>13. CASE kind = "type decimal64"
  <2>1. ReadRow(kind) = fill_type_dec64
    BY <1>13 DEF ReadRow
  <2>2. Consistent(fill_type_dec64, kind)
    BY RowConsistent DEF Apart, fill_type_dec64, DataStmts, NodeOpt
  <2> QED
    BY <2>1, <2>2
<1>14. CASE kind = "type enumeration"
  <2>1. ReadRow(kind) = fill_type_enum
    BY <1>14 DEF ReadRow
  <2>2. Consistent(fill_type_enum, kind)
    BY RowConsistent DEF Apart, fill_type_enum, DataStmts, NodeOpt
  <2> QED
    BY <2>1, <2>2
<1>15. CASE kind = "type identityref"
  <2>1. ReadRow(kind) = fill_type_ident
    BY <1>15 DEF ReadRow
  <2>2. Consistent(fill_type_ident, kind)
    BY RowConsistent DEF Apart, fill_type_ident, DataStmts, NodeOpt
  <2> QED
    BY <2>1, <2>2
<1>16. CASE kind = "type binary"
  <2>1. ReadRow(kind) = fill_type_restr("length")
    BY <1>16 DEF ReadRow
  <2>2. Consistent(fill_type_restr("length"), kind)
    BY RowConsistent DEF Apart, fill_type_restr, DataStmts, NodeOpt
  <2> QED
    BY <2>1, <2>2
<1>17. CASE kind = "type int8"
  <2>1. ReadRow(kind) = fill_type_restr("range")
    BY <1>17 DEF ReadRow
  <2>2. Consistent(fill_type_restr("range"), kind)
    BY RowConsistent DEF Apart, fill_type_restr, DataStmts, NodeOpt
  <2> QED
    BY <2>1, <2>2
<1>18. CASE kind = "type leafref"
  <2>1. ReadRow(kind) = fill_type_leafref
    BY <1>18 DEF ReadRow
  <2>2. Consistent(fill_type_leafref, kind)
    BY RowConsistent DEF Apart, fill_type_leafref, DataStmts, NodeOpt
  <2> QED
    BY <2>1, <2>2
<1>19. CASE kind = "type string"
  <2>1. ReadRow(kind) = fill_type_string
    BY <1>19 DEF ReadRow
  <2>2. Consistent(fill_type_string, kind)
    BY RowConsistent DEF Apart, fill_type_string, DataStmts, NodeOpt
  <2> QED
    BY <2>1, <2>2
<1>20. CASE kind = "type union"
  <2>1. ReadRow(kind) = fill_type_union
    BY <1>20 DEF ReadRow
  <2>2. Consistent(fill_type_union, kind)
    BY RowConsistent DEF Apart, fill_type_union, DataStmts, NodeOpt
  <2> QED
    BY <2>1, <2>2
<1>21. CASE kind = "type boolean"
  <2>1. ReadRow(kind) = fill_type_plain
    BY <1>21 DEF ReadRow
  <2>2. Consistent(fill_type_plain, kind)
    BY RowConsistent DEF Apart, fill_type_plain, DataStmts, NodeOpt
  <2> QED
    BY <2>1, <2>2
<1>22. CASE kind = "type instance-identifier"
  <2>1. ReadRow(kind) = fill_type_inst
    BY <1>22 DEF ReadRow
  <2>2. Consistent(fill_type_inst, kind)
    BY RowConsistent DEF Apart, fill_type_inst, DataStmts, NodeOpt
  <2> QED
    BY <2>1, <2>2
<1>23. CASE kind = "container"
  <2>1. ReadRow(kind) = read_yin_container
    BY <1>23 DEF ReadRow
  <2>2. Consistent(read_yin_container, kind)
    BY RowConsistent DEF Apart, read_yin_container, DataStmts, NodeOpt
  <2> QED
    BY <2>1, <2>2
<1>24. CASE kind = "case"
  <2>1. ReadRow(kind) = read_yin_case
    BY <1>24 DEF ReadRow
  <2>2. Consistent(read_yin_case, kind)
    <3>1. (\E a : {"if-feature"} = {a}) /\ Apart({"when"}, {"if-feature"}, DataStmts)
      BY DEF Apart, DataStmts
    <3> QED
      BY <3>1, RowConsistent DEF read_yin_case
  <2> QED
    BY <2>1, <2>2
<1>25. CASE kind = "choice"
  <2>1. ReadRow(kind) = read_yin_choice
    BY <1>25 DEF ReadRow
  <2>2. Consistent(read_yin_choice, kind)
    BY RowConsistent DEF Apart, read_yin_choice, DataStmts, NodeOpt
  <2> QED
    BY <2>1, <2>2
<1>26. CASE kind = "anyxml"
  <2>1. ReadRow(kind) = read_yin_anyxml
    BY <1>26 DEF ReadRow
  <2>2. Consistent(read_yin_anyxml, kind)
    BY RowConsistent DEF Apart, read_yin_anyxml, DataStmts, NodeOpt
  <2> QED
    BY <2>1, <2>2
<1>27. CASE kind = "leaf"
  <2>1. ReadRow(kind) = read_yin_leaf
    BY <1>27 DEF ReadRow
  <2>2. Consistent(read_yin_leaf, kind)
    BY RowConsistent DEF Apart, read_yin_leaf, DataStmts, NodeOpt
  <2> QED
    BY <2>1, <2>2
<1>28. CASE kind = "leaf-list"
  <2>1. ReadRow(kind) = read_yin_leaflist
    BY <1>28 DEF ReadRow
  <2>2. Consistent(read_yin_leaflist, kind)
    BY RowConsistent DEF Apart, read_yin_leaflist, DataStmts, NodeOpt
  <2> QED
    BY <2>1, <2>2
<1>29. CASE kind = "list"
  <2>1. ReadRow(kind) = read_yin_list
    BY <1>29 DEF ReadRow
  <2>2. Consistent(read_yin_list, kind)
    BY RowConsistent DEF Apart, read_yin_list, DataStmts, NodeOpt
  <2> QED
    BY <2>1, <2>2
<1>30. CASE kind = "grouping"
  <2>1. ReadRow(kind) = read_yin_grouping
    BY <1>30 DEF ReadRow
  <2>2. Consistent(read_yin_grouping, kind)
    <3>1. (\E a : {"typedef"} = {a}) /\ Apart({}, {"typedef"}, DataStmts \cup {"grouping"})
      BY DEF Apart, DataStmts
    <3> QED
      BY <3>1, RowConsistent DEF read_yin_grouping
  <2> QED
    BY <2>1, <2>2
<1>31. CASE kind = "uses"
  <2>1. ReadRow(kind) = read_yin_uses
    BY <1>31 DEF ReadRow
  <2>2. Consistent(read_yin_uses, kind)
    BY RowConsistent DEF Apart, read_yin_uses, DataStmts, NodeOpt
  <2> QED
    BY <2>1, <2>2
<1>32. CASE kind = "input"
  <2>1. ReadRow(kind) = read_yin_input_output
    BY <1>32 DEF ReadRow
  <2>2. Consistent(read_yin_input_output, kind)
    <3>1. (\E a : {"typedef"} = {a}) /\ Apart({}, {"typedef"}, DataStmts \cup {"grouping"})
      BY DEF Apart, DataStmts
    <3> QED
      BY <3>1, RowConsistent DEF read_yin_input_output
  <2> QED
    BY <2>1, <2>2
<1>33. CASE kind = "rpc"
  <2>1. ReadRow(kind) = read_yin_rpc
    BY <1>33 DEF ReadRow
  <2>2. Consistent(read_yin_rpc, kind)
    BY RowConsistent DEF Apart, read_yin_rpc, DataStmts, NodeOpt
  <2> QED
    BY <2>1, <2>2
<1>34. CASE kind = "notification"
  <2>1. ReadRow(kind) = read_yin_notif
    BY <1>34 DEF ReadRow
  <2> DEFINE row == read_yin_notif
  <2>2. /\ row.one = {} /\ row.cnt = {"typedef", "if-feature"}
        /\ row.kids \cap {"typedef", "if-feature"} = {}
        /\ row.fill = {"typedef", "if-features"} /\ row.blind = FALSE /\ row.frees = TRUE
    BY DEF read_yin_notif, read_yin_notif_same, Row, DataStmts
  <2> HIDE DEF row
  <2>3. Consistent(row, kind)
    BY <1>34, <2>2 DEF Consistent
  <2> QED
    BY <2>1, <2>3 DEF row
<1>35. CASE kind = "augment"
  <2>1. ReadRow(kind) = fill_yin_augment
    BY <1>35 DEF ReadRow
  <2>2. Consistent(fill_yin_augment, kind)
    BY RowConsistent DEF Apart, fill_yin_augment, DataStmts, NodeOpt
  <2> QED
    BY <2>1, <2>2
<1>36. CASE kind = "refine"
  <2>1. ReadRow(kind) = fill_yin_refine
    BY <1>36 DEF ReadRow
  <2>2. Consistent(fill_yin_refine, kind)
    BY RowConsistent DEF Apart, fill_yin_refine, DataStmts, NodeOpt
  <2> QED
    BY <2>1, <2>2
<1> QED
  BY <1>1, <1>2, <1>3, <1>4, <1>5, <1>6, <1>7, <1>8, <1>9, <1>10, <1>11, <1>12, <1>13, <1>14, <1>15, <1>16, <1>17, <1>18, <1>19, <1>20, <1>21, <1>22, <1>23, <1>24, <1>25, <1>26, <1>27, <1>28, <1>29, <1>30, <1>31, <1>32, <1>33, <1>34, <1>35, <1>36 DEF AllKinds
-----------------------------------------------------------------------------
(* Sequences, whatever their elements are *)

IsSeq(q) == Len(q) \in Nat /\ q = [i \in 1..Len(q) |-> q[i]]

\* A sequence in the sense of the library.
LEMMA SeqIsSeq ==
  ASSUME NEW S, NEW q \in Seq(S)
  PROVE  IsSeq(q)
BY LenProperties DEF IsSeq

\* And the other way round, for any set with the elements.
LEMMA IsSeqSeq ==
  ASSUME NEW q, IsSeq(q), NEW S, \A i \in 1..Len(q) : q[i] \in S
  PROVE  q \in Seq(S)
<1>1. \A n \in Nat : [1..n -> S] \subseteq Seq(S)
  BY SeqDef
<1> QED
  BY <1>1 DEF IsSeq

\* Functions on 1..n are sequences of length n.
LEMMA FunctionIsSeq ==
  ASSUME NEW n \in Nat, NEW q, q = [i \in 1..n |-> q[i]]
  PROVE  IsSeq(q) /\ Len(q) = n
<1> DEFINE S == {q[i] : i \in 1..n}
<1>1. q \in [1..n -> S]
  OBVIOUS
<1>2. q \in Seq(S)
  BY <1>1, SeqDef
<1> QED
  BY <1>1, <1>2, SeqIsSeq, LenProperties

\* Append without a type.
LEMMA AppendFacts ==
  ASSUME NEW q, IsSeq(q), NEW e
  PROVE  /\ IsSeq(Append(q, e)) /\ Len(Append(q, e)) = Len(q) + 1 /\ Append(q, e)[Len(q) + 1] = e
         /\ \A i \in 1..Len(q) : Append(q, e)[i] = q[i]
<1> DEFINE S == {q[i] : i \in 1..Len(q)} \cup {e}
<1>1. q \in Seq(S)
  BY IsSeqSeq
<1>2. e \in S
  OBVIOUS
<1> HIDE DEF S
<1>3. /\ Append(q, e) \in Seq(S) /\ Len(Append(q, e)) = Len(q) + 1 /\ Append(q, e)[Len(q) + 1] = e
      /\ \A i \in 1..Len(q) : Append(q, e)[i] = q[i]
  BY <1>1, <1>2, AppendProperties
<1> QED
  BY <1>3, SeqIsSeq

\* The empty sequence.
LEMMA EmptyFacts == IsSeq(<< >>) /\ Len(<< >>) = 0
BY SeqIsSeq, EmptySeq

\* How many of the first k elements are named n.
Counted(s, k, n) == Cardinality({i \in 1..k : s[i].n = n})

\* Counting goes on by one element.
LEMMA CountedFacts ==
  ASSUME NEW s, NEW k \in Nat, NEW n
  PROVE  /\ Counted(s, k, n) \in Nat /\ Counted(s, 0, n) = 0
         /\ s[k + 1].n = n => Counted(s, k + 1, n) = Counted(s, k, n) + 1
         /\ s[k + 1].n # n => Counted(s, k + 1, n) = Counted(s, k, n)
<1> DEFINE S(j) == {i \in 1..j : s[i].n = n}
<1>1. IsFiniteSet(S(k)) /\ Cardinality(S(k)) \in Nat
  <2>1. PICK b \in Int : b = k
    OBVIOUS
  <2>2. IsFiniteSet(1..b)
    BY FS_Interval
  <2>3. IsFiniteSet(S(k))
    BY <2>1, <2>2, FS_Subset
  <2> QED
    BY <2>3, FS_CardinalityType
<1>2. Cardinality(S(0)) = 0
  <2>1. S(0) = {}
    OBVIOUS
  <2> QED
    BY <2>1, FS_EmptySet
<1>3. ASSUME s[k + 1].n = n PROVE Cardinality(S(k + 1)) = Cardinality(S(k)) + 1
  <2>1. S(k + 1) = S(k) \cup {k + 1} /\ k + 1 \notin S(k)
    BY <1>3
  <2> HIDE DEF S
  <2> QED
    BY <1>1, <2>1, FS_AddElement
<1>4. ASSUME s[k + 1].n # n PROVE S(k + 1) = S(k)
  BY <1>4
<1> QED
  BY <1>1, <1>2, <1>3, <1>4 DEF Counted

\* Only the elements counted matter.
LEMMA CountedSame ==
  ASSUME NEW s, NEW t, NEW k, NEW n, \A i \in 1..k : s[i] = t[i]
  PROVE  Counted(s, k, n) = Counted(t, k, n)
<1>1. {i \in 1..k : s[i].n = n} = {i \in 1..k : t[i].n = n}
  OBVIOUS
<1> QED
  BY <1>1 DEF Counted
-----------------------------------------------------------------------------
(* What one element does to the structure *)

Fields == {"ok", "left", "seen", "one", "flags", "target", "cnt", "arr", "kids", "conf", "next", "nacm"}
Shape(r) == r = [f \in Fields |-> r[f]]

\* What the loops count and fill is not touched.
Alike(x, r) == Shape(x) /\ x.cnt = r.cnt /\ x.arr = r.arr /\ x.next = r.next

\* An element is taken out of the list of those that are linked, or stays.
Passes(x, r, e) == Alike(x, r) /\ (x.left = r.left \/ x.left = Append(r.left, e))

\* Failing changes nothing of it.
LEMMA FailFacts ==
  ASSUME NEW r, Shape(r)
  PROVE  Alike(Fail(r), r) /\ Fail(r).left = r.left /\ Fail(r).ok = FALSE
BY DEF Fail, Alike, Shape, Fields

\* Neither does storing a substatement that may occur once.
LEMMA StoredFacts ==
  ASSUME NEW r, Shape(r), NEW e
  PROVE  Alike(Stored(r, e), r) /\ Stored(r, e).left = r.left
BY DEF Stored, Alike, Shape, Fields

\* One element of the loop of read_yin_common.
LEMMA CommonStepFacts ==
  ASSUME NEW kind, NEW c, NEW r, Shape(r), NEW e
  PROVE  Passes(CommonStep(kind, c, r, e), r, e)
<1> DEFINE x == CommonStep(kind, c, r, e)
<1>0. Passes(r, r, e)
  BY DEF Passes, Alike
<1>1. CASE ~r.ok \/ e.n = "garbage"
  <2>1. x = r
    BY <1>1 DEF CommonStep
  <2> QED
    BY <1>0, <2>1
<1>2. CASE ~(~r.ok \/ e.n = "garbage") /\ e.n = "nacm"
  <2>1. x = r \/ x = Fail(r) \/ x = [r EXCEPT !.nacm = r.nacm \cup {e.v}]
    BY <1>2 DEF CommonStep, Common
  <2>2. Passes([r EXCEPT !.nacm = r.nacm \cup {e.v}], r, e)
    BY DEF Passes, Alike, Shape, Fields
  <2>3. Passes(Fail(r), r, e)
    BY FailFacts DEF Passes
  <2> QED
    BY <1>0, <2>1, <2>2, <2>3
<1>3. CASE ~(~r.ok \/ e.n = "garbage") /\ e.n # "nacm" /\ (e.n \in Common \/ (e.n = "config" /\ "config" \in ReadRow(kind).opt))
  <2>1. \/ x = Fail(r) \/ x = [r EXCEPT !.seen = r.seen \cup {e.n}, !.flags = {e.v}]
        \/ x = [r EXCEPT !.seen = r.seen \cup {e.n}, !.conf = e.v] \/ x = Stored(r, e)
    BY <1>3 DEF CommonStep
  <2>2. Passes([r EXCEPT !.seen = r.seen \cup {e.n}, !.flags = {e.v}], r, e)
    BY DEF Passes, Alike, Shape, Fields
  <2>3. Passes([r EXCEPT !.seen = r.seen \cup {e.n}, !.conf = e.v], r, e)
    BY DEF Passes, Alike, Shape, Fields
  <2>4. Passes(Fail(r), r, e) /\ Passes(Stored(r, e), r, e)
    BY FailFacts, StoredFacts DEF Passes
  <2> QED
    BY <2>1, <2>2, <2>3, <2>4
<1>4. CASE ~(~r.ok \/ e.n = "garbage") /\ e.n # "nacm" /\ ~(e.n \in Common \/ (e.n = "config" /\ "config" \in ReadRow(kind).opt))
  <2>1. x = [r EXCEPT !.left = Append(r.left, e)]
    BY <1>4 DEF CommonStep
  <2>2. Passes([r EXCEPT !.left = Append(r.left, e)], r, e)
    BY DEF Passes, Alike, Shape, Fields
  <2> QED
    BY <2>1, <2>2
<1> QED
  BY <1>1, <1>2, <1>3, <1>4

\* What the first loop makes of an element: counted and kept, stored once and
\* perhaps kept, or neither.
Counts(x, r, e, row) ==
  /\ Shape(x) /\ x.arr = r.arr /\ x.next = r.next
  /\ \/ x.left = r.left /\ x.cnt = r.cnt
     \/ x.left = Append(r.left, e) /\ e.n \in row.cnt /\ x.cnt = [r.cnt EXCEPT ![e.n] = r.cnt[e.n] + 1]
     \/ x.left = Append(r.left, e) /\ e.n \in row.one \ row.cnt /\ ~row.frees /\ x.cnt = r.cnt

\* The target of a refine is narrowed.
LEMMA NarrowedFacts ==
  ASSUME NEW r, Shape(r), NEW n
  PROVE  Alike(Narrowed(r, n), r) /\ Narrowed(r, n).left = r.left
<1> DEFINE t == IF r.target = {} THEN RefineTargets(n) ELSE r.target \cap RefineTargets(n)
<1>1. Narrowed(r, n) = Fail(r) \/ Narrowed(r, n) = [r EXCEPT !.target = t]
  BY DEF Narrowed
<1> HIDE DEF t
<1>2. Alike([r EXCEPT !.target = t], r) /\ [r EXCEPT !.target = t].left = r.left
  BY DEF Alike, Shape, Fields
<1> QED
  BY <1>1, <1>2, FailFacts

\* A single substatement is stored, or its default is only noted.
LEMMA StoreOneFacts ==
  ASSUME NEW kind, NEW r, Shape(r), NEW e
  PROVE  Alike(StoreOne(kind, r, e), r) /\ StoreOne(kind, r, e).left = r.left
<1> DEFINE x == StoreOne(kind, r, e)
           a == [r EXCEPT !.seen = r.seen \cup {e.n}]
           b == [r EXCEPT !.flags = r.flags \cup {"current"}]
           d == [r EXCEPT !.flags = r.flags \cup {"deprecated"}]
<1>1. x = a \/ x = Stored(b, e) \/ x = Stored(d, e) \/ x = Stored(r, e)
  BY DEF StoreOne
<1>2. Alike(a, r) /\ a.left = r.left /\ Alike(b, r) /\ b.left = r.left /\ Alike(d, r) /\ d.left = r.left
  BY DEF Alike, Shape, Fields
<1> HIDE DEF x, a, b, d
<1>3. Alike(Stored(b, e), b) /\ Alike(Stored(d, e), d) /\ Alike(Stored(r, e), r)
  BY <1>2, StoredFacts DEF Alike
<1>4. Stored(b, e).left = r.left /\ Stored(d, e).left = r.left /\ Stored(r, e).left = r.left
  BY <1>2, StoredFacts DEF Alike
<1>5. Alike(Stored(b, e), r) /\ Alike(Stored(d, e), r)
  BY <1>2, <1>3 DEF Alike
<1> QED
  BY <1>1, <1>2, <1>3, <1>4, <1>5 DEF x

\* One element of the first loop.
LEMMA FirstStepFacts ==
  ASSUME NEW kind \in AllKinds, NEW c, NEW r, Shape(r), NEW e
  PROVE  Counts(FirstStep(kind, c, r, e), r, e, ReadRow(kind))
<1> DEFINE x == FirstStep(kind, c, r, e)
           row == ReadRow(kind)
           r1 == IF kind = "refine" /\ e.n \in row.one \cup row.cnt THEN Narrowed(r, e.n) ELSE r
           kid == [r EXCEPT !.kids = Append(r.kids, e)]
           counted == [r1 EXCEPT !.cnt[e.n] = r1.cnt[e.n] + 1, !.left = Append(r1.left, e)]
           r2 == StoreOne(kind, r1, e)
           kept == [r2 EXCEPT !.left = Append(r2.left, e)]
<1>1. row.one \cap row.cnt = {} /\ row.kids \cap (row.one \cup row.cnt) = {}
  BY RowFacts DEF Consistent
<1>2. Alike(r1, r) /\ r1.left = r.left
  <2>1. Alike(r, r)
    BY DEF Alike
  <2> QED
    BY <2>1, NarrowedFacts
<1>3. Counts(r, r, e, row) /\ Counts(Fail(r), r, e, row) /\ Counts(r1, r, e, row)
  BY <1>2, FailFacts DEF Counts, Alike
<1>4. CASE ~r.ok \/ e.n \in IgnoredNames(kind)
  <2>1. x = r
    BY <1>4 DEF FirstStep
  <2> QED
    BY <1>3, <2>1
<1>5. CASE ~(~r.ok \/ e.n \in IgnoredNames(kind)) /\ e.n \in row.kids
  <2>1. x = kid
    BY <1>1, <1>5 DEF FirstStep
  <2>2. Counts(kid, r, e, row)
    BY DEF Counts, Shape, Fields
  <2> QED
    BY <2>1, <2>2
<1>6. CASE ~(~r.ok \/ e.n \in IgnoredNames(kind)) /\ e.n \in row.cnt
  <2>1. x = r1 \/ x = counted
    BY <1>1, <1>6 DEF FirstStep
  <2> HIDE DEF r1
  <2>2. Counts(counted, r, e, row)
    <3>1. Shape(counted) /\ counted.left = Append(r1.left, e) /\ counted.cnt = [r1.cnt EXCEPT ![e.n] = r1.cnt[e.n] + 1]
          /\ counted.arr = r1.arr /\ counted.next = r1.next
      BY <1>2 DEF Alike, Shape, Fields
    <3> HIDE DEF counted
    <3> QED
      BY <1>2, <1>6, <3>1 DEF Alike, Counts
  <2> QED
    BY <1>3, <2>1, <2>2
<1>7. CASE ~(~r.ok \/ e.n \in IgnoredNames(kind)) /\ e.n \in row.one
  <2>1. x = Fail(r) \/ (row.frees /\ x = r2) \/ (~row.frees /\ x = kept)
    BY <1>1, <1>7 DEF FirstStep
  <2> HIDE DEF r1
  <2>2. Alike(r2, r1) /\ r2.left = r1.left
    BY <1>2, StoreOneFacts DEF Alike
  <2> HIDE DEF r2
  <2>3. Shape(kept) /\ kept.left = Append(r2.left, e) /\ kept.cnt = r2.cnt /\ kept.arr = r2.arr /\ kept.next = r2.next
    BY <2>2 DEF Alike, Shape, Fields
  <2> HIDE DEF kept
  <2>4. Counts(r2, r, e, row)
    BY <1>2, <2>2 DEF Alike, Counts
  <2>5. ~row.frees => Counts(kept, r, e, row)
    BY <1>1, <1>2, <1>7, <2>2, <2>3 DEF Alike, Counts
  <2> QED
    BY <1>3, <2>1, <2>4, <2>5
<1>8. CASE ~(~r.ok \/ e.n \in IgnoredNames(kind)) /\ e.n \notin row.kids \cup row.cnt \cup row.one
  <2>1. x = Fail(r)
    BY <1>8 DEF FirstStep
  <2> QED
    BY <1>3, <2>1
<1> QED
  BY <1>4, <1>5, <1>6, <1>7, <1>8
-----------------------------------------------------------------------------
(* The second loop *)

\* An item put after the first i of a sequence.
Inserted(q, s, e, i) ==
  /\ IsSeq(q) /\ Len(q) = Len(s) + 1
  /\ \A j \in 1..(Len(s) + 1) : q[j] = IF j <= i THEN s[j] ELSE IF j = i + 1 THEN e ELSE s[j - 1]

\* Two parts of a sequence with an item between them.
LEMMA InsertFacts ==
  ASSUME NEW s, IsSeq(s), NEW e, NEW i \in 0..Len(s)
  PROVE  Inserted(SubSeq(s, 1, i) \o <<e>> \o SubSeq(s, i + 1, Len(s)), s, e, i)
<1> DEFINE S == {s[j] : j \in 1..Len(s)} \cup {e}
           a == SubSeq(s, 1, i)
           b == <<e>>
           d == SubSeq(s, i + 1, Len(s))
<1>0. PICK n \in Nat : n = Len(s)
  BY DEF IsSeq
<1>1. i \in Int /\ i \in 0..n
  BY <1>0
<1>2. e \in S /\ \A j \in 1..n : s[j] \in S
  BY <1>0
<1> HIDE DEF S
<1>3. a \in Seq(S) /\ Len(a) = i /\ \A j \in 1..i : a[j] = s[j]
  <2>1. \A j \in 1..i : s[j] \in S
    BY <1>1, <1>2
  <2>2. a \in Seq(S) /\ Len(a) = (IF 1 <= i THEN i - 1 + 1 ELSE 0) /\ \A j \in 1..(i - 1 + 1) : a[j] = s[1 + j - 1]
    BY <1>1, <2>1, SubSeqProperties
  <2> HIDE DEF a
  <2> QED
    BY <2>2, <1>1
<1>4. b \in Seq(S) /\ Len(b) = 1 /\ b[1] = e
  BY <1>2
<1>5. d \in Seq(S) /\ Len(d) = n - i /\ \A j \in 1..(n - i) : d[j] = s[i + j]
  <2>1. (\A j \in (i + 1)..n : s[j] \in S) /\ i + 1 \in Int /\ n \in Int
    BY <1>1, <1>2
  <2> DEFINE m == i + 1
  <2>2. /\ SubSeq(s, m, n) \in Seq(S) /\ Len(SubSeq(s, m, n)) = (IF m <= n THEN n - m + 1 ELSE 0)
        /\ \A j \in 1..(n - m + 1) : SubSeq(s, m, n)[j] = s[m + j - 1]
    <3> HIDE DEF m
    <3>1. m \in Int /\ n \in Int /\ \A j \in m..n : s[j] \in S
      BY <2>1 DEF m
    <3> QED
      BY <3>1, SubSeqProperties
  <2>3. d = SubSeq(s, m, n)
    BY <1>0
  <2> HIDE DEF d
  <2> QED
    BY <2>2, <2>3, <1>1
<1> HIDE DEF a, b, d
<1>6. /\ a \o b \in Seq(S) /\ Len(a \o b) = i + 1
      /\ \A j \in 1..(i + 1) : (a \o b)[j] = IF j <= i THEN s[j] ELSE e
  <2>1. /\ a \o b \in Seq(S) /\ Len(a \o b) = Len(a) + Len(b)
        /\ \A j \in 1..(Len(a) + Len(b)) : (a \o b)[j] = IF j <= Len(a) THEN a[j] ELSE b[j - Len(a)]
    BY <1>3, <1>4, ConcatProperties
  <2> QED
    BY <2>1, <1>1, <1>3, <1>4
<1> DEFINE f == a \o b
<1> HIDE DEF f
<1>7. /\ f \o d \in Seq(S) /\ Len(f \o d) = n + 1
      /\ \A j \in 1..(n + 1) : (f \o d)[j] = IF j <= i THEN s[j] ELSE IF j = i + 1 THEN e ELSE s[j - 1]
  <2>0. f \in Seq(S) /\ Len(f) = i + 1 /\ \A j \in 1..(i + 1) : f[j] = IF j <= i THEN s[j] ELSE e
    BY <1>6 DEF f
  <2>1. /\ f \o d \in Seq(S) /\ Len(f \o d) = Len(f) + Len(d)
        /\ \A j \in 1..(Len(f) + Len(d)) : (f \o d)[j] = IF j <= Len(f) THEN f[j] ELSE d[j - Len(f)]
    BY <1>5, <2>0, ConcatProperties
  <2>2. Len(f) + Len(d) = n + 1
    BY <1>1, <1>5, <2>0
  <2>3. ASSUME NEW j \in 1..(n + 1) PROVE (f \o d)[j] = IF j <= i THEN s[j] ELSE IF j = i + 1 THEN e ELSE s[j - 1]
    <3>1. CASE j <= i + 1
      BY <1>1, <2>0, <2>1, <2>2, <3>1
    <3>2. CASE j > i + 1
      <4>1. j - (i + 1) \in 1..(n - i) /\ i + (j - (i + 1)) = j - 1
        BY <1>1, <3>2
      <4>2. d[j - (i + 1)] = s[j - 1]
        BY <1>5, <4>1
      <4>3. (f \o d)[j] = d[j - (i + 1)]
        BY <1>1, <2>0, <2>1, <2>2, <3>2
      <4> QED
        BY <1>1, <3>2, <4>2, <4>3
    <3>3. j <= i + 1 \/ j > i + 1
      BY <1>1
    <3> QED
      BY <3>1, <3>2, <3>3, Zenon
  <2> QED
    BY <2>1, <2>2, <2>3
<1>8. IsSeq(f \o d)
  BY <1>7, SeqIsSeq
<1> QED
  BY <1>0, <1>7, <1>8 DEF Inserted, a, b, d, f

\* Where SortedIn puts a bit.
LEMMA SortedInFacts ==
  ASSUME NEW s, IsSeq(s), NEW e
  PROVE  \E i \in 0..Len(s) : /\ i = Cardinality({j \in 1..Len(s) : s[j].k <= e.k})
                              /\ Inserted(SortedIn(s, e), s, e, i)
<1> DEFINE D == {j \in 1..Len(s) : s[j].k <= e.k}
<1>1. PICK n \in Int : n = Len(s) /\ n >= 0
  BY DEF IsSeq
<1>2. IsFiniteSet(1..n) /\ Cardinality(1..n) = n
  <2>1. 1 \in Int
    OBVIOUS
  <2>2. IsFiniteSet(1..n) /\ Cardinality(1..n) = IF 1 > n THEN 0 ELSE n - 1 + 1
    BY <2>1, FS_Interval, Zenon
  <2> QED
    BY <1>1, <2>2
<1>3. D \subseteq 1..n
  BY <1>1
<1>4. Cardinality(D) \in Nat /\ Cardinality(D) <= n
  <2>1. IsFiniteSet(D) /\ Cardinality(D) <= Cardinality(1..n)
    BY <1>2, <1>3, FS_Subset
  <2> QED
    BY <1>2, <2>1, FS_CardinalityType
<1> DEFINE i == Cardinality(D)
<1>5. i \in 0..Len(s)
  BY <1>1, <1>4
<1>6. SortedIn(s, e) = SubSeq(s, 1, i) \o <<e>> \o SubSeq(s, i + 1, Len(s))
  BY DEF SortedIn
<1> HIDE DEF i, D
<1>7. Inserted(SortedIn(s, e), s, e, i)
  BY <1>5, <1>6, InsertFacts
<1> QED
  BY <1>5, <1>7 DEF i, D
\* A revision is put at one of the ends.
LEMMA LatestFirstFacts ==
  ASSUME NEW s, IsSeq(s), NEW e
  PROVE  IsSeq(latest_first(s, e)) /\ Len(latest_first(s, e)) = Len(s) + 1
<1>1. CASE s # <<>> /\ e.k > s[1].k
  <2> DEFINE S == {s[j] : j \in 1..Len(s)} \cup {e}
             t == Tail(s)
             b == <<e>>
  <2>1. e \in S /\ s \in Seq(S)
    BY IsSeqSeq
  <2> HIDE DEF S
  <2>2. Len(s) \in Nat \ {0} /\ s[1] \in S
    BY <1>1, <2>1, EmptySeq, ElementOfSeq
  <2>3. t \in Seq(S) /\ Len(t) = Len(s) - 1
    BY <1>1, <2>1, HeadTailProperties
  <2>4. b \in Seq(S) /\ Len(b) = 1
    BY <2>1
  <2>5. latest_first(s, e) = Append(b \o t, s[1])
    BY <1>1 DEF latest_first
  <2> HIDE DEF b, t
  <2>6. b \o t \in Seq(S) /\ Len(b \o t) = Len(b) + Len(t)
    BY <2>3, <2>4, ConcatProperties
  <2>7. IsSeq(b \o t)
    BY <2>6, SeqIsSeq
  <2>8. Len(b \o t) = Len(s)
    BY <2>2, <2>3, <2>4, <2>6
  <2> QED
    BY <2>5, <2>7, <2>8, AppendFacts
<1>2. CASE ~(s # <<>> /\ e.k > s[1].k)
  BY <1>2, AppendFacts DEF latest_first
<1> QED
  BY <1>1, <1>2

\* The items that are in the arrays are sequences, one for every counted name.
Arrays(arr, cnt) == arr = [n \in cnt |-> arr[n]] /\ \A n \in cnt : IsSeq(arr[n])

\* Whether the second loop looks at an element of this name.
Taken(row, n) == row.blind \/ n \in row.fill

\* What the second loop makes of an element: nothing, or one more item of the array of its name.
Fills(x, r, e, row) ==
  /\ Shape(x) /\ x.left = r.left /\ x.cnt = r.cnt /\ (x.ok => r.ok)
  /\ \/ x.arr = r.arr /\ x.next = r.next /\ (x.ok => ~Taken(row, e.n))
     \/ Taken(row, e.n) /\ \E q : /\ x.arr = [r.arr EXCEPT ![e.n] = q]
                                  /\ IsSeq(q) /\ Len(q) = Len(r.arr[e.n]) + 1

\* One more item of an array.
LEMMA ItemFacts ==
  ASSUME NEW r, Shape(r), NEW e, NEW q, NEW next, NEW row, Taken(row, e.n),
         IsSeq(q), Len(q) = Len(r.arr[e.n]) + 1
  PROVE  /\ Fills([r EXCEPT !.arr[e.n] = q], r, e, row)
         /\ Fills([r EXCEPT !.arr[e.n] = q, !.next = next], r, e, row)
<1> DEFINE x == [r EXCEPT !.arr[e.n] = q]
           y == [r EXCEPT !.arr[e.n] = q, !.next = next]
<1>1. Shape(x) /\ x.left = r.left /\ x.cnt = r.cnt /\ x.ok = r.ok /\ x.arr = [r.arr EXCEPT ![e.n] = q]
  BY DEF Shape, Fields
<1>2. Shape(y) /\ y.left = r.left /\ y.cnt = r.cnt /\ y.ok = r.ok /\ y.arr = [r.arr EXCEPT ![e.n] = q]
  BY DEF Shape, Fields
<1> HIDE DEF x, y
<1>3. Fills(x, r, e, row)
  BY <1>1 DEF Fills
<1>4. Fills(y, r, e, row)
  BY <1>2 DEF Fills
<1> QED
  BY <1>3, <1>4 DEF x, y

\* One bit.
LEMMA BitFills ==
  ASSUME NEW r, Shape(r), NEW e, e.n = "bit", NEW row, Taken(row, e.n), IsSeq(r.arr["bit"])
  PROVE  Fills(bit_position(r, e), r, e, row)
<1> DEFINE next == IF ~e.auto /\ Raised_bits(e.k, r.next) THEN e.k + 1 ELSE r.next
           b == IF e.auto THEN [e EXCEPT !.k = next] ELSE e
           last == IF e.auto THEN next + 1 ELSE next
           q == SortedIn(r.arr["bit"], b)
<1>1. bit_position(r, e) = Fail(r) \/ bit_position(r, e) = [r EXCEPT !.arr["bit"] = q, !.next = last]
  BY DEF bit_position
<1>2. Fills(Fail(r), r, e, row)
  BY FailFacts DEF Fills, Alike
<1> HIDE DEF next, b, last
<1>3. IsSeq(q) /\ Len(q) = Len(r.arr["bit"]) + 1
  BY SortedInFacts DEF Inserted
<1> HIDE DEF q
<1>4. Fills([r EXCEPT !.arr[e.n] = q, !.next = last], r, e, row)
  BY <1>3, ItemFacts
<1> QED
  BY <1>1, <1>2, <1>4

\* One enum.
LEMMA EnumFills ==
  ASSUME NEW r, Shape(r), NEW e, e.n = "enum", NEW row, Taken(row, e.n), IsSeq(r.arr["enum"])
  PROVE  Fills(enum_value(r, e), r, e, row)
<1> DEFINE next == IF ~e.auto /\ Raised_enum(e.k, r.next) THEN e.k + 1 ELSE r.next
           assigned == e.auto \/ e.k = -1
           m == IF assigned THEN [e EXCEPT !.k = next, !.auto = TRUE] ELSE e
           last == IF assigned THEN next + 1 ELSE next
           q == Append(r.arr["enum"], m)
<1>1. enum_value(r, e) = Fail(r) \/ enum_value(r, e) = [r EXCEPT !.arr["enum"] = q, !.next = last]
  BY DEF enum_value
<1>2. Fills(Fail(r), r, e, row)
  BY FailFacts DEF Fills, Alike
<1> HIDE DEF next, m, last, assigned
<1>3. IsSeq(q) /\ Len(q) = Len(r.arr["enum"]) + 1
  BY AppendFacts
<1> HIDE DEF q
<1>4. Fills([r EXCEPT !.arr[e.n] = q, !.next = last], r, e, row)
  BY <1>3, ItemFacts
<1> QED
  BY <1>1, <1>2, <1>4

\* One element of the second loop.
LEMMA SecondStepFacts ==
  ASSUME NEW kind \in AllKinds, NEW r, Shape(r), Arrays(r.arr, ReadRow(kind).cnt), NEW e,
         Taken(ReadRow(kind), e.n) => e.n \in ReadRow(kind).cnt
  PROVE  Fills(SecondStep(kind, r, e), r, e, ReadRow(kind))
<1> DEFINE x == SecondStep(kind, r, e)
           row == ReadRow(kind)
           a == IF row.blind THEN CHOOSE n \in row.cnt : TRUE ELSE e.n
<1>1. row.blind \in BOOLEAN /\ (row.blind => \E n : row.cnt = {n})
  BY RowFacts DEF Consistent
<1>2. CASE ~r.ok \/ ~Taken(row, e.n)
  <2>1. x = r
    BY <1>2 DEF SecondStep, Taken
  <2>2. Fills(r, r, e, row)
    BY <1>2 DEF Fills
  <2> QED
    BY <2>1, <2>2
<1>3. CASE r.ok /\ Taken(row, e.n)
  <2>1. e.n \in row.cnt /\ IsSeq(r.arr[e.n])
    BY <1>3 DEF Arrays
  <2>2. a = e.n
    BY <1>1, <2>1
  <2>3. Fills(Fail(r), r, e, row)
    BY FailFacts DEF Fills, Alike
  <2>4. CASE e.v = "bad"
    <3>1. x = Fail(r)
      BY <1>3, <2>4 DEF SecondStep, Taken
    <3> QED
      BY <2>3, <3>1
  <2>5. CASE e.v # "bad" /\ e.n = "bit"
    <3>1. x = bit_position(r, e)
      BY <1>3, <2>5 DEF SecondStep, Taken
    <3> QED
      BY <1>3, <2>1, <2>5, <3>1, BitFills
  <2>6. CASE e.v # "bad" /\ e.n = "enum"
    <3>1. x = enum_value(r, e)
      BY <1>3, <2>6 DEF SecondStep, Taken
    <3> QED
      BY <1>3, <2>1, <2>6, <3>1, EnumFills
  <2>7. CASE e.v # "bad" /\ e.n = "revision"
    <3>1. x = [r EXCEPT !.arr[a] = latest_first(r.arr[a], e)]
      BY <1>3, <2>7 DEF SecondStep, Taken
    <3>2. x = [r EXCEPT !.arr[e.n] = latest_first(r.arr[e.n], e)]
      BY <2>2, <3>1
    <3> DEFINE q == latest_first(r.arr[e.n], e)
    <3> HIDE DEF x, a
    <3>3. IsSeq(q) /\ Len(q) = Len(r.arr[e.n]) + 1
      BY <2>1, LatestFirstFacts
    <3> HIDE DEF q
    <3>4. Fills([r EXCEPT !.arr[e.n] = q], r, e, row)
      BY <1>3, <3>3, ItemFacts
    <3> QED
      BY <3>2, <3>4 DEF q, x
  <2>8. CASE e.v # "bad" /\ e.n \notin {"bit", "enum", "revision"}
    <3>1. x = [r EXCEPT !.arr[a] = Append(r.arr[a], e)]
      BY <1>3, <2>8 DEF SecondStep, Taken
    <3>2. x = [r EXCEPT !.arr[e.n] = Append(r.arr[e.n], e)]
      BY <2>2, <3>1
    <3> DEFINE q == Append(r.arr[e.n], e)
    <3> HIDE DEF x, a
    <3>3. IsSeq(q) /\ Len(q) = Len(r.arr[e.n]) + 1
      BY <2>1, AppendFacts
    <3> HIDE DEF q
    <3>4. Fills([r EXCEPT !.arr[e.n] = q], r, e, row)
      BY <1>3, <3>3, ItemFacts
    <3> QED
      BY <3>2, <3>4 DEF q, x
  <2> QED
    BY <2>4, <2>5, <2>6, <2>7, <2>8
<1> QED
  BY <1>2, <1>3
-----------------------------------------------------------------------------
(* Positions of bits and values of enums *)

IsElem(e) == e = [f \in {"n", "v", "k", "auto"} |-> e[f]] /\ e.k \in Int /\ e.auto \in BOOLEAN

Increasing(s) ==
  /\ \A i \in 1..Len(s) : s[i].k \in Int
  /\ \A i, j \in 1..Len(s) : i < j => s[i].k < s[j].k

\* The counter is above the positions of all bits.
Bits(a, next) == Increasing(a) /\ \A i \in 1..Len(a) : a[i].k < next

\* The counter is not below a value of an enum.
Enums(a, next) ==
  /\ \A i \in 1..Len(a) : a[i].k \in Int /\ a[i].k <= next
  /\ \A i, j \in 1..Len(a) : i < j /\ ~a[j].auto => a[i].k # a[j].k

Numbered(arr, next) ==
  /\ next \in Int
  /\ "bit" \in DOMAIN arr => Bits(arr["bit"], next)
  /\ "enum" \in DOMAIN arr => Enums(arr["enum"], next)

\* Those not above a number come first in an increasing sequence.
LEMMA PrefixBelow ==
  ASSUME NEW s, IsSeq(s), Increasing(s), NEW v \in Int
  PROVE  \E i \in 0..Len(s) : {j \in 1..Len(s) : s[j].k <= v} = 1..i
<1>1. PICK n \in Nat : n = Len(s)
  BY DEF IsSeq
<1> DEFINE D(m) == {j \in 1..m : s[j].k <= v}
           A == {m \in Nat : m <= n => \E i \in 0..m : D(m) = 1..i}
<1>2. 0 \in A
  <2>1. D(0) = 1..0
    OBVIOUS
  <2> QED
    BY <2>1
<1>3. ASSUME NEW m \in Nat, m \in A PROVE m + 1 \in A
  <2>1. SUFFICES ASSUME m + 1 <= n PROVE \E i \in 0..(m + 1) : D(m + 1) = 1..i
    OBVIOUS
  <2>2. m + 1 \in 1..Len(s) /\ \A j \in 1..m : j \in 1..Len(s) /\ j < m + 1
    BY <1>1, <2>1
  <2>3. s[m + 1].k \in Int /\ \A j \in 1..m : s[j].k \in Int /\ s[j].k < s[m + 1].k
    BY <2>2 DEF Increasing
  <2>4. CASE s[m + 1].k <= v
    <3>1. \A j \in 1..m : s[j].k <= v
      BY <2>3, <2>4
    <3>2. D(m + 1) = 1..(m + 1)
      BY <2>4, <3>1
    <3> HIDE DEF D
    <3> QED
      BY <3>2
  <2>5. CASE ~(s[m + 1].k <= v)
    <3>1. D(m + 1) = D(m)
      BY <2>5
    <3>2. PICK i \in 0..m : D(m) = 1..i
      BY <1>3, <2>1
    <3> HIDE DEF D
    <3>3. i \in 0..(m + 1)
      OBVIOUS
    <3> QED
      BY <3>1, <3>2, <3>3
  <2> QED
    BY <2>4, <2>5
<1> HIDE DEF A
<1>4. n \in A
  BY <1>2, <1>3, SetInduction
<1> QED
  BY <1>1, <1>4 DEF A

\* A bit with a new position is put in its place.
LEMMA SortedKeeps ==
  ASSUME NEW s, IsSeq(s), Increasing(s), NEW e, e.k \in Int, \A j \in 1..Len(s) : s[j].k # e.k
  PROVE  Increasing(SortedIn(s, e))
<1> DEFINE q == SortedIn(s, e)
           v == e.k
           D == {j \in 1..Len(s) : s[j].k <= v}
<1>1. PICK n \in Int : n = Len(s) /\ n >= 0
  BY DEF IsSeq
<1>2. PICK i \in 0..Len(s) : i = Cardinality(D) /\ Inserted(q, s, e, i)
  BY SortedInFacts
<1>3. PICK m \in 0..Len(s) : D = 1..m
  BY PrefixBelow
<1>4. i = m
  <2>1. 1 \in Int /\ m \in Int
    OBVIOUS
  <2>2. Cardinality(1..m) = IF 1 > m THEN 0 ELSE m - 1 + 1
    BY <2>1, FS_Interval, Zenon
  <2> HIDE DEF D
  <2> QED
    BY <1>1, <1>2, <1>3, <2>2
<1>5. \A j \in 1..n : s[j].k \in Int /\ (j <= i => s[j].k < v) /\ (j > i => v < s[j].k)
  <2>1. \A j \in 1..n : s[j].k \in Int /\ s[j].k # v
    BY <1>1 DEF Increasing
  <2>2. \A j \in 1..n : s[j].k <= v <=> j \in 1..i
    BY <1>1, <1>3, <1>4
  <2>3. \A j \in 1..n : j \in 1..i <=> j <= i
    BY <1>1
  <2> HIDE DEF v
  <2>4. v \in Int
    BY DEF v
  <2> QED
    BY <2>1, <2>2, <2>3, <2>4, <1>1
<1>6. \A j \in 1..(n + 1) : q[j].k = IF j <= i THEN s[j].k ELSE IF j = i + 1 THEN v ELSE s[j - 1].k
  BY <1>1, <1>2 DEF Inserted
<1>7. Len(q) = n + 1
  BY <1>1, <1>2 DEF Inserted
<1>8. \A a, b \in 1..n : a < b => s[a].k < s[b].k
  BY <1>1 DEF Increasing
<1>9. v \in Int /\ i \in Int /\ 0 <= i /\ i <= n
  BY <1>1
<1> DEFINE f == [j \in 1..n |-> s[j].k]
           g == [j \in 1..(n + 1) |-> q[j].k]
<1>10. /\ \A j \in 1..n : f[j] \in Int /\ (j <= i => f[j] < v) /\ (j > i => v < f[j])
       /\ \A a, b \in 1..n : a < b => f[a] < f[b]
  BY <1>5, <1>8
<1>11. ASSUME NEW j \in 1..(n + 1)
       PROVE  g[j] = IF j <= i THEN f[j] ELSE IF j = i + 1 THEN v ELSE f[j - 1]
  <2>1. CASE j <= i
    <3>1. j \in 1..n
      BY <1>9, <2>1
    <3> QED
      BY <1>6, <2>1, <3>1
  <2>2. CASE j = i + 1
    BY <1>6, <1>9, <2>2
  <2>3. CASE ~(j <= i) /\ j # i + 1
    <3>1. j - 1 \in 1..n
      BY <1>9, <2>3
    <3> QED
      BY <1>6, <2>3, <3>1
  <2> QED
    BY <2>1, <2>2, <2>3
<1> HIDE DEF f, v, q, g
<1>12. ASSUME NEW a \in 1..(n + 1), NEW b \in 1..(n + 1), a < b PROVE g[a] < g[b]
  <2>1. CASE b <= i
    <3>1. a \in 1..n /\ b \in 1..n /\ a <= i
      BY <1>9, <1>12, <2>1
    <3>2. g[a] = f[a] /\ g[b] = f[b]
      BY <1>11, <2>1, <3>1
    <3> QED
      BY <1>10, <1>12, <3>1, <3>2
  <2>2. CASE b = i + 1
    BY <1>9, <1>10, <1>11, <1>12, <2>2
  <2>3. CASE b > i + 1
    <3>1. g[b] = f[b - 1] /\ b - 1 \in 1..n /\ b - 1 > i
      BY <1>9, <1>11, <2>3
    <3>2. CASE a <= i
      BY <1>9, <1>10, <1>11, <3>1, <3>2
    <3>3. CASE a = i + 1
      BY <1>9, <1>10, <1>11, <3>1, <3>3
    <3>4. CASE a > i + 1
      <4>1. g[a] = f[a - 1] /\ a - 1 \in 1..n /\ a - 1 < b - 1
        BY <1>9, <1>11, <1>12, <3>4
      <4> QED
        BY <1>10, <3>1, <4>1
    <3> QED
      BY <1>9, <3>2, <3>3, <3>4
  <2> QED
    BY <1>9, <2>1, <2>2, <2>3
<1>13. ASSUME NEW a \in 1..(n + 1) PROVE g[a] \in Int
  BY <1>9, <1>10, <1>11
<1>14. \A j \in 1..(n + 1) : g[j] = q[j].k
  BY DEF g
<1> QED
  BY <1>7, <1>12, <1>13, <1>14 DEF Increasing, q
\* A bit gets a position no bit before it has, and the counter stays above.
LEMMA BitNumbers ==
  ASSUME NEW r, Shape(r), Numbered(r.arr, r.next), NEW cnt, Arrays(r.arr, cnt), "bit" \in cnt,
         NEW e, IsElem(e)
  PROVE  LET x == bit_position(r, e) IN
         /\ x.next \in Int /\ r.next <= x.next
         /\ \E q : x.arr = [r.arr EXCEPT !["bit"] = q] /\ Bits(q, x.next)
<1> DEFINE x == bit_position(r, e)
           s == r.arr["bit"]
           next == IF ~e.auto /\ Raised_bits(e.k, r.next) THEN e.k + 1 ELSE r.next
           b == IF e.auto THEN [e EXCEPT !.k = next] ELSE e
           last == IF e.auto THEN next + 1 ELSE next
           q == SortedIn(s, b)
           y == [r EXCEPT !.arr["bit"] = q, !.next = last]
           refused == \/ \E j \in 1..Len(s) : s[j].v = e.v
                      \/ ~e.auto /\ e.k \notin 0..PosMax
                      \/ ~e.auto /\ ~Raised_bits(e.k, r.next) /\ e.k \in {s[j].k : j \in 1..Len(s)}
                      \/ e.auto /\ next > PosMax
<1>0. r.arr = [n \in cnt |-> r.arr[n]] /\ IsSeq(s)
  BY DEF Arrays
<1>1. x = IF refused THEN Fail(r) ELSE y
  BY DEF bit_position
<1>2. r.next \in Int /\ Increasing(s) /\ \A j \in 1..Len(s) : s[j].k \in Int /\ s[j].k < r.next
  BY <1>0 DEF Numbered, Bits, Increasing
<1>3. CASE refused
  <2>1. x.next = r.next /\ x.arr = r.arr
    BY <1>1, <1>3, FailFacts DEF Alike
  <2>2. r.arr = [r.arr EXCEPT !["bit"] = s]
    BY <1>0
  <2>3. Bits(s, r.next)
    BY <1>0 DEF Numbered
  <2> HIDE DEF x, s
  <2> QED
    BY <1>2, <2>1, <2>2, <2>3 DEF x
<1>4. CASE ~refused
  <2>1. e.k \in Int /\ e.auto \in BOOLEAN
    BY DEF IsElem
  <2>2. next \in Int /\ r.next <= next /\ last \in Int /\ next <= last
    BY <1>2, <2>1 DEF Raised_bits
  <2>3. b.k = IF e.auto THEN next ELSE e.k
    BY DEF IsElem
  <2>4. b.k \in Int /\ b.k < last
    BY <1>2, <2>1, <2>3 DEF Raised_bits
  <2>5. \A j \in 1..Len(s) : s[j].k # b.k
    <3>1. CASE e.auto
      BY <1>2, <2>2, <2>3, <3>1
    <3>2. CASE ~e.auto /\ Raised_bits(e.k, r.next)
      BY <1>2, <2>1, <2>3, <3>2 DEF Raised_bits
    <3>3. CASE ~e.auto /\ ~Raised_bits(e.k, r.next)
      BY <1>4, <2>3, <3>3
    <3> QED
      BY <2>1, <3>1, <3>2, <3>3
  <2>6. y.next = last /\ y.arr = [r.arr EXCEPT !["bit"] = q]
    BY DEF Shape, Fields
  <2>7. x = y
    BY <1>1, <1>4
  <2> HIDE DEF refused, next, b, last, y, x, s
  <2>8. Increasing(q)
    BY <1>0, <1>2, <2>4, <2>5, SortedKeeps
  <2>9. \A j \in 1..Len(q) : q[j].k < last
    <3>1. PICK i \in 0..Len(s) : Inserted(q, s, b, i)
      BY <1>0, SortedInFacts
    <3>2. \A j \in 1..Len(s) : s[j].k \in Int /\ s[j].k < last
      <4>1. r.next <= last
        BY <1>2, <2>2
      <4> QED
        BY <1>2, <2>2, <4>1
    <3>3. ASSUME NEW j \in 1..Len(q) PROVE q[j].k < last
      <4>1. Len(s) \in Nat /\ Len(q) = Len(s) + 1
        BY <1>0, <3>1 DEF Inserted, IsSeq
      <4>2. q[j] = IF j <= i THEN s[j] ELSE IF j = i + 1 THEN b ELSE s[j - 1]
        BY <3>1, <4>1 DEF Inserted
      <4> HIDE DEF q
      <4>3. j <= i => j \in 1..Len(s)
        BY <4>1
      <4>4. ~(j <= i) /\ j # i + 1 => j - 1 \in 1..Len(s)
        BY <4>1
      <4> QED
        BY <2>4, <3>2, <4>2, <4>3, <4>4
    <3> QED
      BY <3>3
  <2> HIDE DEF q
  <2>10. r.next <= last
    BY <1>2, <2>2
  <2> QED
    BY <2>2, <2>6, <2>7, <2>8, <2>9, <2>10 DEF Bits, x
<1> QED
  BY <1>3, <1>4

\* A value stated for an enum is new, and the counter does not fall below one.
LEMMA EnumNumbers ==
  ASSUME NEW r, Shape(r), Numbered(r.arr, r.next), NEW cnt, Arrays(r.arr, cnt), "enum" \in cnt,
         NEW e, IsElem(e)
  PROVE  LET x == enum_value(r, e) IN
         /\ x.next \in Int /\ r.next <= x.next
         /\ \E q : x.arr = [r.arr EXCEPT !["enum"] = q] /\ Enums(q, x.next)
<1> DEFINE x == enum_value(r, e)
           s == r.arr["enum"]
           next == IF ~e.auto /\ Raised_enum(e.k, r.next) THEN e.k + 1 ELSE r.next
           assigned == e.auto \/ e.k = -1
           m == IF assigned THEN [e EXCEPT !.k = next, !.auto = TRUE] ELSE e
           last == IF assigned THEN next + 1 ELSE next
           q == Append(s, m)
           y == [r EXCEPT !.arr["enum"] = q, !.next = last]
           refused == \/ \E j \in 1..Len(s) : s[j].v = e.v
                      \/ ~e.auto /\ e.k > EnumMax
                      \/ ~e.auto /\ ~Raised_enum(e.k, r.next) /\ e.k \in {s[j].k : j \in 1..Len(s)}
                      \/ assigned /\ next > EnumMax
<1>0. r.arr = [n \in cnt |-> r.arr[n]] /\ IsSeq(s)
  BY DEF Arrays
<1>1. x = IF refused THEN Fail(r) ELSE y
  BY DEF enum_value
<1>2. r.next \in Int /\ Enums(s, r.next)
  BY <1>0 DEF Numbered
<1>3. CASE refused
  <2>1. x.next = r.next /\ x.arr = r.arr
    BY <1>1, <1>3, FailFacts DEF Alike
  <2>2. r.arr = [r.arr EXCEPT !["enum"] = s]
    BY <1>0
  <2> HIDE DEF x, s
  <2> QED
    BY <1>2, <2>1, <2>2 DEF x
<1>4. CASE ~refused
  <2>1. e.k \in Int /\ e.auto \in BOOLEAN
    BY DEF IsElem
  <2>2. next \in Int /\ r.next <= next /\ last \in Int /\ next <= last
    BY <1>2, <2>1 DEF Raised_enum
  <2>3. m.k = (IF assigned THEN next ELSE e.k) /\ (m.auto <=> assigned)
    BY DEF IsElem
  <2>4. m.k \in Int /\ m.k <= last
    BY <1>2, <2>1, <2>2, <2>3 DEF Raised_enum
  <2>5. ~m.auto => \A j \in 1..Len(s) : s[j].k # m.k
    <3>1. CASE assigned
      BY <2>3, <3>1
    <3>2. CASE ~assigned /\ Raised_enum(e.k, r.next)
      <4>1. e.k > r.next /\ m.k = e.k
        BY <2>3, <3>2 DEF Raised_enum
      <4> HIDE DEF m
      <4> QED
        BY <1>2, <2>1, <4>1 DEF Enums
    <3>3. CASE ~assigned /\ ~Raised_enum(e.k, r.next)
      BY <1>4, <2>3, <3>3
    <3> QED
      BY <3>1, <3>2, <3>3
  <2>6. y.next = last /\ y.arr = [r.arr EXCEPT !["enum"] = q]
    BY DEF Shape, Fields
  <2>7. x = y
    BY <1>1, <1>4
  <2> HIDE DEF refused, next, m, last, y, x, s, assigned
  <2>8. Len(s) \in Nat /\ Len(q) = Len(s) + 1 /\ q[Len(s) + 1] = m /\ \A j \in 1..Len(s) : q[j] = s[j]
    BY <1>0, AppendFacts DEF IsSeq
  <2> HIDE DEF q
  <2>9. r.next <= last
    BY <1>2, <2>2
  <2>10. \A j \in 1..Len(q) : q[j].k \in Int /\ q[j].k <= last
    <3>1. \A j \in 1..Len(s) : s[j].k \in Int /\ s[j].k <= last
      BY <1>2, <2>2, <2>9 DEF Enums
    <3>2. \A j \in 1..Len(q) : j \in 1..Len(s) \/ j = Len(s) + 1
      BY <2>8
    <3> QED
      BY <2>4, <2>8, <3>1, <3>2
  <2>11. ASSUME NEW i \in 1..Len(q), NEW j \in 1..Len(q), i < j, ~q[j].auto PROVE q[i].k # q[j].k
    <3>1. i \in 1..Len(s) /\ (j \in 1..Len(s) \/ j = Len(s) + 1)
      BY <2>8, <2>11
    <3>2. CASE j \in 1..Len(s)
      <4>1. q[i] = s[i] /\ q[j] = s[j]
        BY <2>8, <3>1, <3>2
      <4> QED
        BY <1>2, <2>11, <3>1, <3>2, <4>1 DEF Enums
    <3>3. CASE j = Len(s) + 1
      <4>1. q[i] = s[i] /\ q[j] = m
        BY <2>8, <3>1, <3>3
      <4> QED
        BY <2>5, <2>11, <3>1, <4>1
    <3> QED
      BY <3>1, <3>2, <3>3
  <2>12. Enums(q, last)
    BY <2>10, <2>11 DEF Enums
  <2> QED
    BY <2>2, <2>6, <2>7, <2>9, <2>12 DEF x
<1> QED
  BY <1>3, <1>4
\* One element of the second loop keeps the numbers apart.
LEMMA SecondStepNumbers ==
  ASSUME NEW kind \in AllKinds, NEW r, Shape(r), Arrays(r.arr, ReadRow(kind).cnt), NEW e, IsElem(e),
         Taken(ReadRow(kind), e.n) => e.n \in ReadRow(kind).cnt, Numbered(r.arr, r.next)
  PROVE  LET x == SecondStep(kind, r, e) IN Numbered(x.arr, x.next)
<1> DEFINE x == SecondStep(kind, r, e)
           row == ReadRow(kind)
           a == IF row.blind THEN CHOOSE n \in row.cnt : TRUE ELSE e.n
<1>1. row.blind \in BOOLEAN /\ (row.blind => \E n : row.cnt = {n})
  BY RowFacts DEF Consistent
<1>2. Numbered(Fail(r).arr, Fail(r).next)
  BY FailFacts DEF Alike
<1>3. CASE ~r.ok \/ ~Taken(row, e.n)
  <2>1. x = r
    BY <1>3 DEF SecondStep, Taken
  <2> QED
    BY <2>1
<1>4. CASE r.ok /\ Taken(row, e.n)
  <2>1. e.n \in row.cnt /\ r.arr = [n \in row.cnt |-> r.arr[n]] /\ DOMAIN r.arr = row.cnt
    BY <1>4 DEF Arrays
  <2>2. a = e.n
    BY <1>1, <2>1
  <2>3. r.next \in Int
    BY DEF Numbered
  <2>4. CASE e.v = "bad"
    <3>1. x = Fail(r)
      BY <1>4, <2>4 DEF SecondStep, Taken
    <3> QED
      BY <1>2, <3>1
  <2>5. CASE e.v # "bad" /\ e.n = "bit"
    <3>1. x = bit_position(r, e)
      BY <1>4, <2>5 DEF SecondStep, Taken
    <3>2. "bit" \in row.cnt
      BY <2>1, <2>5
    <3>3. /\ x.next \in Int /\ r.next <= x.next
          /\ \E q : x.arr = [r.arr EXCEPT !["bit"] = q] /\ Bits(q, x.next)
      BY <3>1, <3>2, BitNumbers
    <3>4. PICK q : x.arr = [r.arr EXCEPT !["bit"] = q] /\ Bits(q, x.next)
      BY <3>3
    <3> HIDE DEF x
    <3>5. x.arr["bit"] = q /\ DOMAIN x.arr = DOMAIN r.arr /\ ("enum" \in DOMAIN r.arr => x.arr["enum"] = r.arr["enum"])
      BY <2>1, <3>2, <3>4
    <3>6. "enum" \in DOMAIN r.arr => Enums(r.arr["enum"], x.next)
      <4>1. SUFFICES ASSUME "enum" \in DOMAIN r.arr PROVE Enums(r.arr["enum"], x.next)
        OBVIOUS
      <4>2. Enums(r.arr["enum"], r.next)
        BY <4>1 DEF Numbered
      <4> QED
        BY <2>3, <3>3, <4>2 DEF Enums
    <3> QED
      BY <3>3, <3>4, <3>5, <3>6 DEF Numbered, x
  <2>6. CASE e.v # "bad" /\ e.n = "enum"
    <3>1. x = enum_value(r, e)
      BY <1>4, <2>6 DEF SecondStep, Taken
    <3>2. "enum" \in row.cnt
      BY <2>1, <2>6
    <3>3. /\ x.next \in Int /\ r.next <= x.next
          /\ \E q : x.arr = [r.arr EXCEPT !["enum"] = q] /\ Enums(q, x.next)
      BY <3>1, <3>2, EnumNumbers
    <3>4. PICK q : x.arr = [r.arr EXCEPT !["enum"] = q] /\ Enums(q, x.next)
      BY <3>3
    <3> HIDE DEF x
    <3>5. x.arr["enum"] = q /\ DOMAIN x.arr = DOMAIN r.arr /\ ("bit" \in DOMAIN r.arr => x.arr["bit"] = r.arr["bit"])
      BY <2>1, <3>2, <3>4
    <3>6. "bit" \in DOMAIN r.arr => Bits(r.arr["bit"], x.next)
      <4>1. SUFFICES ASSUME "bit" \in DOMAIN r.arr PROVE Bits(r.arr["bit"], x.next)
        OBVIOUS
      <4>2. Bits(r.arr["bit"], r.next)
        BY <4>1 DEF Numbered
      <4> QED
        BY <2>3, <3>3, <4>2 DEF Bits, Increasing
    <3> QED
      BY <3>3, <3>4, <3>5, <3>6 DEF Numbered, x
  <2>7. CASE e.v # "bad" /\ e.n \notin {"bit", "enum"}
    <3>1. PICK q : x = [r EXCEPT !.arr[a] = q]
      <4>1. CASE e.n = "revision"
        BY <1>4, <2>7, <4>1 DEF SecondStep, Taken
      <4>2. CASE e.n # "revision"
        BY <1>4, <2>7, <4>2 DEF SecondStep, Taken
      <4> QED
        BY <4>1, <4>2
    <3>2. x.arr = [r.arr EXCEPT ![e.n] = q] /\ x.next = r.next
      BY <2>2, <3>1 DEF Shape, Fields
    <3> HIDE DEF x, a
    <3>3. DOMAIN x.arr = DOMAIN r.arr /\ \A n \in DOMAIN r.arr : n # e.n => x.arr[n] = r.arr[n]
      BY <2>1, <3>2
    <3> QED
      BY <2>7, <3>2, <3>3 DEF Numbered, x
  <2> QED
    BY <2>4, <2>5, <2>6, <2>7
<1> QED
  BY <1>3, <1>4
-----------------------------------------------------------------------------
(* The loops *)

\* The elements that are still linked are elements of the statement.
From(l, s) == IsSeq(l) /\ \A i \in 1..Len(l) : \E j \in 1..Len(s) : l[i] = s[j]

\* One element more is linked.
LEMMA FromAppend ==
  ASSUME NEW l, NEW s, From(l, s), NEW j \in 1..Len(s)
  PROVE  From(Append(l, s[j]), s)
<1> DEFINE q == Append(l, s[j])
<1>1. /\ IsSeq(l) /\ IsSeq(q) /\ Len(q) = Len(l) + 1 /\ q[Len(l) + 1] = s[j]
      /\ \A i \in 1..Len(l) : q[i] = l[i]
  BY AppendFacts DEF From
<1> HIDE DEF q
<1>2. \A i \in 1..Len(q) : i \in 1..Len(l) \/ i = Len(l) + 1
  BY <1>1 DEF IsSeq
<1>3. \A i \in 1..Len(q) : \E m \in 1..Len(s) : q[i] = s[m]
  BY <1>1, <1>2 DEF From
<1> QED
  BY <1>1, <1>3 DEF From, q

\* Nothing is linked before a loop starts again.
LEMMA FromEmpty ==
  ASSUME NEW s
  PROVE  From(<< >>, s)
BY EmptyFacts DEF From

\* An element of an element's list.
LEMMA FromFrom ==
  ASSUME NEW l, NEW s, NEW t, From(l, s), From(s, t)
  PROVE  From(l, t)
BY DEF From

\* The structure before a loop: nothing is linked.
LEMMA UnlinkedFacts ==
  ASSUME NEW r, Shape(r)
  PROVE  Alike([r EXCEPT !.left = <<>>], r) /\ [r EXCEPT !.left = <<>>].left = <<>>
BY DEF Alike, Shape, Fields

\* read_yin_common counts and fills nothing and links nothing new.
LEMMA CommonLoop ==
  ASSUME NEW kind, NEW c, NEW r, Shape(r), IsSeq(r.left)
  PROVE  Alike(read_yin_common(kind, c, r), r) /\ From(read_yin_common(kind, c, r).left, r.left)
<1> DEFINE s == r.left
           r0 == [r EXCEPT !.left = <<>>]
           x == Loop("common", kind, c, r0, s)
           y == [x EXCEPT !.conf = IF c.par = "none" THEN "true" ELSE c.conf]
           z == read_yin_common(kind, c, r)
<1>1. z = r \/ z = x \/ z = y
  BY DEF read_yin_common
<1>2. Alike(r0, r) /\ r0.left = <<>>
  BY UnlinkedFacts
<1>3. PICK n \in Nat : n = Len(s)
  BY DEF IsSeq
<1> HIDE DEF r0
<1>4. PICK h : Unfolds(h, "common", kind, c, r0, s, Len(s)) /\ x = h[Len(s)]
  BY <1>3, LoopUnfolds
<1> HIDE DEF x
<1> DEFINE A == {k \in Nat : k <= n => Alike(h[k], r) /\ From(h[k].left, s)}
<1>5. 0 \in A
  BY <1>2, <1>4, FromEmpty DEF Unfolds
<1>6. ASSUME NEW k \in Nat, k \in A PROVE k + 1 \in A
  <2>1. SUFFICES ASSUME k + 1 <= n PROVE Alike(h[k + 1], r) /\ From(h[k + 1].left, s)
    OBVIOUS
  <2>2. Alike(h[k], r) /\ From(h[k].left, s)
    BY <1>6, <2>1
  <2>3. k + 1 \in 1..Len(s) /\ (k + 1) - 1 = k
    BY <1>3, <2>1
  <2>4. h[k + 1] = CommonStep(kind, c, h[k], s[k + 1])
    BY <1>4, <2>3 DEF Unfolds, LoopStep
  <2> HIDE DEF s
  <2>5. Passes(h[k + 1], h[k], s[k + 1])
    BY <2>2, <2>4, CommonStepFacts DEF Alike
  <2>6. From(Append(h[k].left, s[k + 1]), s)
    BY <2>2, <2>3, FromAppend
  <2> QED
    BY <2>2, <2>5, <2>6 DEF Passes, Alike
<1> HIDE DEF A
<1>7. n \in A
  BY <1>5, <1>6, SetInduction
<1>8. Alike(x, r) /\ From(x.left, s)
  BY <1>3, <1>4, <1>7 DEF A
<1>9. Alike(y, x) /\ y.left = x.left
  BY <1>8 DEF Alike, Shape, Fields
<1>10. Alike(r, r) /\ From(r.left, s)
  BY DEF Alike, From
<1> HIDE DEF y, z
<1> QED
  BY <1>1, <1>8, <1>9, <1>10 DEF Alike, z
\* The counters say how many elements of a name are linked, and only those and what a loop
\* that frees nothing has stored are.
Counting(x, row) ==
  /\ IsSeq(x.left)
  /\ x.cnt = [n \in row.cnt |-> Counted(x.left, Len(x.left), n)]
  /\ \A i \in 1..Len(x.left) : x.left[i].n \in row.cnt \/ (x.left[i].n \in row.one /\ ~row.frees)

\* The tests between the loops only fail.
LEMMA CompleteFacts ==
  ASSUME NEW kind, NEW c, NEW r, Shape(r)
  PROVE  Alike(CompleteOrFail(kind, c, r), r) /\ CompleteOrFail(kind, c, r).left = r.left
<1>1. CompleteOrFail(kind, c, r) = r \/ CompleteOrFail(kind, c, r) = Fail(r)
  BY DEF CompleteOrFail
<1>2. Alike(r, r)
  BY DEF Alike
<1> QED
  BY <1>1, <1>2, FailFacts

\* Counting stays right when an element is kept linked.
LEMMA CountingStep ==
  ASSUME NEW x, NEW r, NEW e, NEW row, Counts(x, r, e, row), Counting(r, row)
  PROVE  Counting(x, row)
<1>1. CASE x.left = r.left /\ x.cnt = r.cnt
  BY <1>1 DEF Counting
<1>2. CASE x.left = Append(r.left, e)
  <2> DEFINE l == r.left
             q == Append(l, e)
  <2>1. /\ IsSeq(l) /\ IsSeq(q) /\ Len(q) = Len(l) + 1 /\ q[Len(l) + 1] = e
        /\ \A i \in 1..Len(l) : q[i] = l[i]
    BY AppendFacts DEF Counting
  <2>2. x.left = q
    BY <1>2
  <2>3. r.cnt = [n \in row.cnt |-> Counted(l, Len(l), n)]
    BY DEF Counting
  <2>4. \A i \in 1..Len(l) : l[i].n \in row.cnt \/ (l[i].n \in row.one /\ ~row.frees)
    BY DEF Counting
  <2>5. \/ e.n \in row.cnt /\ x.cnt = [r.cnt EXCEPT ![e.n] = r.cnt[e.n] + 1]
        \/ e.n \in row.one \ row.cnt /\ ~row.frees /\ x.cnt = r.cnt
        \/ x.left = r.left /\ x.cnt = r.cnt
    BY DEF Counts
  <2> HIDE DEF q, l
  <2>6. PICK m \in Nat : m = Len(l)
    BY <2>1 DEF IsSeq
  <2>7. x.left # r.left
    <3>1. Len(q) # Len(l)
      BY <2>1, <2>6
    <3> QED
      BY <2>2, <3>1 DEF l
  <2>8. ASSUME NEW n PROVE /\ Counted(q, m + 1, n) = (IF e.n = n THEN Counted(l, m, n) + 1 ELSE Counted(l, m, n))
                           /\ Counted(l, m, n) \in Nat
    <3>1. Counted(q, m, n) = Counted(l, m, n)
      BY <2>1, <2>6, CountedSame
    <3>2. q[m + 1].n = e.n
      BY <2>1, <2>6
    <3> QED
      BY <3>1, <3>2, CountedFacts
  <2>9. x.cnt = [n \in row.cnt |-> Counted(q, m + 1, n)]
    <3>1. CASE e.n \in row.cnt /\ x.cnt = [r.cnt EXCEPT ![e.n] = r.cnt[e.n] + 1]
      <4>1. r.cnt[e.n] = Counted(l, m, e.n)
        BY <2>3, <2>6, <3>1
      <4>2. x.cnt = [n \in row.cnt |-> IF n = e.n THEN Counted(l, m, e.n) + 1 ELSE Counted(l, m, n)]
        BY <2>3, <2>6, <3>1, <4>1
      <4>3. \A n \in row.cnt : Counted(q, m + 1, n) = IF n = e.n THEN Counted(l, m, e.n) + 1 ELSE Counted(l, m, n)
        BY <2>8
      <4> QED
        BY <4>2, <4>3
    <3>2. CASE e.n \in row.one \ row.cnt /\ x.cnt = r.cnt
      <4>1. \A n \in row.cnt : Counted(q, m + 1, n) = Counted(l, m, n)
        BY <2>8, <3>2
      <4>2. x.cnt = [n \in row.cnt |-> Counted(l, m, n)]
        BY <2>3, <2>6, <3>2
      <4> QED
        BY <4>1, <4>2
    <3> QED
      BY <2>5, <2>7, <3>1, <3>2
  <2>10. Len(q) = m + 1
    BY <2>1, <2>6
  <2>11. \A i \in 1..Len(q) : q[i].n \in row.cnt \/ (q[i].n \in row.one /\ ~row.frees)
    <3>1. \A i \in 1..Len(q) : i \in 1..Len(l) \/ i = Len(l) + 1
      BY <2>1, <2>6
    <3>2. e.n \in row.cnt \/ (e.n \in row.one /\ ~row.frees)
      BY <2>5, <2>7
    <3> QED
      BY <2>1, <2>4, <3>1, <3>2
  <2> QED
    BY <2>1, <2>2, <2>9, <2>10, <2>11 DEF Counting
<1> QED
  BY <1>1, <1>2 DEF Counts

\* The first loop counts what it leaves linked.
LEMMA FirstLoopFacts ==
  ASSUME NEW kind \in AllKinds, NEW c, NEW r, Shape(r), IsSeq(r.left),
         r.cnt = [n \in ReadRow(kind).cnt |-> 0]
  PROVE  LET z == first_loop(kind, c, r) IN
         Shape(z) /\ z.arr = r.arr /\ z.next = r.next /\ From(z.left, r.left) /\ Counting(z, ReadRow(kind))
<1> DEFINE s == r.left
           row == ReadRow(kind)
           r0 == [r EXCEPT !.left = <<>>]
           x == Loop("first", kind, c, r0, s)
           z == first_loop(kind, c, r)
<1>1. z = CompleteOrFail(kind, c, x)
  BY DEF first_loop
<1>2. Alike(r0, r) /\ r0.left = <<>>
  BY UnlinkedFacts
<1>3. PICK n \in Nat : n = Len(s)
  BY DEF IsSeq
<1> HIDE DEF r0, z
<1>4. PICK h : Unfolds(h, "first", kind, c, r0, s, Len(s)) /\ x = h[Len(s)]
  BY <1>3, LoopUnfolds
<1> HIDE DEF x
<1> DEFINE P(y) == Shape(y) /\ y.arr = r.arr /\ y.next = r.next /\ From(y.left, s) /\ Counting(y, row)
           A == {k \in Nat : k <= n => P(h[k])}
<1>5. 0 \in A
  <2>1. h[0] = r0
    BY <1>4 DEF Unfolds
  <2>2. Counting(r0, row)
    <3>1. \A m : Counted(<<>>, 0, m) = 0
      BY CountedFacts
    <3>2. r0.cnt = [m \in row.cnt |-> Counted(<<>>, 0, m)]
      BY <1>2, <3>1 DEF Alike
    <3> HIDE DEF row
    <3> QED
      BY <1>2, <3>2, EmptyFacts DEF Counting
  <2>3. P(r0)
    BY <1>2, <2>2, FromEmpty DEF Alike
  <2> QED
    BY <2>1, <2>3
<1>6. ASSUME NEW k \in Nat, k \in A PROVE k + 1 \in A
  <2>1. SUFFICES ASSUME k + 1 <= n PROVE P(h[k + 1])
    OBVIOUS
  <2>2. P(h[k])
    BY <1>6, <2>1
  <2>3. k + 1 \in 1..Len(s) /\ (k + 1) - 1 = k
    BY <1>3, <2>1
  <2>4. h[k + 1] = FirstStep(kind, c, h[k], s[k + 1])
    BY <1>4, <2>3 DEF Unfolds, LoopStep
  <2> HIDE DEF s
  <2>5. Counts(h[k + 1], h[k], s[k + 1], row)
    BY <2>2, <2>4, FirstStepFacts
  <2>6. From(Append(h[k].left, s[k + 1]), s)
    BY <2>2, <2>3, FromAppend
  <2> HIDE DEF row
  <2>7. Counting(h[k + 1], row)
    BY <2>2, <2>5, CountingStep
  <2>8. h[k + 1].left = h[k].left \/ h[k + 1].left = Append(h[k].left, s[k + 1])
    BY <2>5 DEF Counts
  <2>9. Shape(h[k + 1]) /\ h[k + 1].arr = r.arr /\ h[k + 1].next = r.next
    BY <2>2, <2>5 DEF Counts
  <2> QED
    BY <2>2, <2>6, <2>7, <2>8, <2>9
<1> HIDE DEF A
<1>7. n \in A
  BY <1>5, <1>6, SetInduction
<1>8. P(x)
  BY <1>3, <1>4, <1>7 DEF A
<1>9. Alike(z, x) /\ z.left = x.left
  BY <1>1, <1>8, CompleteFacts
<1>10. P(z)
  BY <1>8, <1>9 DEF Alike, Counting
<1> QED
  BY <1>10 DEF z
\* The arrays after the first k linked elements.
Filled(x, l, k, row) ==
  /\ Arrays(x.arr, row.cnt) /\ Numbered(x.arr, x.next)
  /\ \A n \in row.cnt : /\ Len(x.arr[n]) <= Counted(l, k, n)
                        /\ x.ok /\ Taken(row, n) => Len(x.arr[n]) = Counted(l, k, n)

\* One more item is one more counted.
LEMMA FilledStep ==
  ASSUME NEW kind \in AllKinds, NEW x, NEW l, NEW k \in Nat, Shape(x), IsElem(l[k + 1]),
         Taken(ReadRow(kind), l[k + 1].n) => l[k + 1].n \in ReadRow(kind).cnt,
         Filled(x, l, k, ReadRow(kind))
  PROVE  LET y == SecondStep(kind, x, l[k + 1]) IN
         Shape(y) /\ y.left = x.left /\ y.cnt = x.cnt /\ Filled(y, l, k + 1, ReadRow(kind))
<1> DEFINE e == l[k + 1]
           row == ReadRow(kind)
           y == SecondStep(kind, x, e)
<1>1. Arrays(x.arr, row.cnt) /\ Numbered(x.arr, x.next)
  BY DEF Filled
<1>2. Fills(y, x, e, row)
  BY <1>1, SecondStepFacts
<1>3. Numbered(y.arr, y.next)
  BY <1>1, SecondStepNumbers
<1>4. Taken(row, e.n) => e.n \in row.cnt
  OBVIOUS
<1>5. \A n : /\ Counted(l, k, n) \in Nat
             /\ Counted(l, k + 1, n) = IF e.n = n THEN Counted(l, k, n) + 1 ELSE Counted(l, k, n)
  BY CountedFacts
<1>6. \A n \in row.cnt : /\ Len(x.arr[n]) <= Counted(l, k, n) /\ IsSeq(x.arr[n]) /\ Len(x.arr[n]) \in Nat
                         /\ x.ok /\ Taken(row, n) => Len(x.arr[n]) = Counted(l, k, n)
  BY DEF Filled, Arrays, IsSeq
<1> HIDE DEF e, y, row
<1>7. CASE y.arr = x.arr /\ (y.ok => ~Taken(row, e.n))
  <2>1. \A n \in row.cnt : Len(y.arr[n]) <= Counted(l, k + 1, n)
    <3>1. \A n : Counted(l, k, n) <= Counted(l, k + 1, n) /\ Counted(l, k + 1, n) \in Nat
      BY <1>5
    <3> QED
      BY <1>5, <1>6, <1>7, <3>1
  <2>2. \A n \in row.cnt : y.ok /\ Taken(row, n) => Len(y.arr[n]) = Counted(l, k + 1, n)
    BY <1>2, <1>5, <1>6, <1>7 DEF Fills
  <2> QED
    BY <1>1, <1>2, <1>3, <1>7, <2>1, <2>2 DEF Filled, Fills, e, y, row
<1>8. CASE Taken(row, e.n) /\ \E q : y.arr = [x.arr EXCEPT ![e.n] = q] /\ IsSeq(q) /\ Len(q) = Len(x.arr[e.n]) + 1
  <2>1. PICK q : y.arr = [x.arr EXCEPT ![e.n] = q] /\ IsSeq(q) /\ Len(q) = Len(x.arr[e.n]) + 1
    BY <1>8
  <2>2. e.n \in row.cnt
    BY <1>4, <1>8
  <2>3. y.arr = [n \in row.cnt |-> IF n = e.n THEN q ELSE x.arr[n]]
    BY <1>1, <2>1, <2>2 DEF Arrays
  <2>4. \A n \in row.cnt : y.arr[n] = IF n = e.n THEN q ELSE x.arr[n]
    BY <2>3
  <2>5. Arrays(y.arr, row.cnt)
    <3>1. y.arr = [n \in row.cnt |-> y.arr[n]]
      BY <2>3
    <3>2. \A n \in row.cnt : IsSeq(y.arr[n])
      BY <1>6, <2>1, <2>4
    <3> QED
      BY <3>1, <3>2 DEF Arrays
  <2>6. ASSUME NEW n \in row.cnt PROVE /\ Len(y.arr[n]) <= Counted(l, k + 1, n)
                                       /\ y.ok /\ Taken(row, n) => Len(y.arr[n]) = Counted(l, k + 1, n)
    <3>1. y.ok => x.ok
      BY <1>2 DEF Fills
    <3>2. CASE n = e.n
      <4>1. Len(y.arr[n]) = Len(x.arr[n]) + 1 /\ Counted(l, k + 1, n) = Counted(l, k, n) + 1
        BY <1>5, <2>1, <2>4, <3>2
      <4> QED
        BY <1>5, <1>6, <3>1, <4>1
    <3>3. CASE n # e.n
      <4>1. y.arr[n] = x.arr[n] /\ Counted(l, k + 1, n) = Counted(l, k, n)
        BY <1>5, <2>4, <3>3
      <4> QED
        BY <1>6, <3>1, <4>1
    <3> QED
      BY <3>2, <3>3
  <2> QED
    BY <1>2, <1>3, <2>5, <2>6 DEF Filled, Fills, e, y, row
<1> QED
  BY <1>2, <1>7, <1>8 DEF Fills

\* The second loop fills what the first one counted.
LEMMA SecondLoopFacts ==
  ASSUME NEW kind \in AllKinds, NEW c, NEW r, Shape(r), Counting(r, ReadRow(kind)),
         \A i \in 1..Len(r.left) : IsElem(r.left[i]),
         r.arr = [n \in ReadRow(kind).cnt |-> <<>>], r.next = 0
  PROVE  LET z == second_loop(kind, c, r) IN
         /\ Shape(z) /\ z.left = r.left /\ z.cnt = r.cnt
         /\ Filled(z, r.left, Len(r.left), ReadRow(kind))
<1> DEFINE l == r.left
           row == ReadRow(kind)
           z == second_loop(kind, c, r)
<1>1. z = Loop("second", kind, c, r, l)
  BY DEF second_loop
<1>2. PICK m \in Nat : m = Len(l)
  BY DEF Counting, IsSeq
<1>3. PICK h : Unfolds(h, "second", kind, c, r, l, Len(l)) /\ z = h[Len(l)]
  BY <1>1, <1>2, LoopUnfolds
<1> HIDE DEF z
<1>4. ASSUME NEW i \in 1..m PROVE Taken(row, l[i].n) => l[i].n \in row.cnt
  <2>1. l[i].n \in row.cnt \/ (l[i].n \in row.one /\ ~row.frees)
    BY <1>2 DEF Counting
  <2>2. Consistent(row, kind)
    BY RowFacts
  <2> HIDE DEF row
  <2> QED
    BY <2>1, <2>2 DEF Consistent, Taken
<1> DEFINE P(y, k) == Shape(y) /\ y.left = l /\ y.cnt = r.cnt /\ Filled(y, l, k, row)
           A == {k \in Nat : k <= m => P(h[k], k)}
<1>5. 0 \in A
  <2>1. h[0] = r
    BY <1>3 DEF Unfolds
  <2>2. Arrays(r.arr, row.cnt)
    BY EmptyFacts DEF Arrays
  <2>3. \A n \in row.cnt : Len(r.arr[n]) = 0 /\ Counted(l, 0, n) = 0
    BY CountedFacts, EmptyFacts
  <2>4. Numbered(r.arr, r.next)
    BY EmptyFacts DEF Numbered, Bits, Enums, Increasing
  <2>5. P(r, 0)
    BY <2>2, <2>3, <2>4 DEF Filled
  <2> QED
    BY <2>1, <2>5
<1>6. ASSUME NEW k \in Nat, k \in A PROVE k + 1 \in A
  <2>1. SUFFICES ASSUME k + 1 <= m PROVE P(h[k + 1], k + 1)
    OBVIOUS
  <2>2. P(h[k], k)
    BY <1>6, <2>1
  <2>3. k + 1 \in 1..Len(l) /\ (k + 1) - 1 = k /\ k + 1 \in 1..m
    BY <1>2, <2>1
  <2>4. h[k + 1] = SecondStep(kind, h[k], l[k + 1])
    BY <1>3, <2>3 DEF Unfolds, LoopStep
  <2>5. IsElem(l[k + 1]) /\ (Taken(row, l[k + 1].n) => l[k + 1].n \in row.cnt)
    BY <1>4, <2>3
  <2> HIDE DEF l
  <2> QED
    BY <2>2, <2>4, <2>5, FilledStep
<1> HIDE DEF A
<1>7. m \in A
  BY <1>5, <1>6, SetInduction
<1>8. P(z, m)
  BY <1>2, <1>3, <1>7 DEF A
<1> QED
  BY <1>2, <1>8 DEF z

\* The children are read; the arrays are left alone.
LEMMA DataLoopFacts ==
  ASSUME NEW kind, NEW r, Shape(r)
  PROVE  Alike(data_loop(kind, r), r)
<1> DEFINE kids == InOrder(kind, r.kids)
           new == [i \in 1..Len(kids) |-> Sub(ReadAs(kind, kids[i].n), "v")]
<1>1. data_loop(kind, r) = Fail(r) \/ data_loop(kind, r) = [r EXCEPT !.left = <<>>, !.kids = new]
  BY DEF data_loop
<1> HIDE DEF kids, new
<1>2. Alike([r EXCEPT !.left = <<>>, !.kids = new], r)
  BY DEF Alike, Shape, Fields
<1> QED
  BY <1>1, <1>2, FailFacts
-----------------------------------------------------------------------------
(* The specification *)

\* Substatements with and without a number are elements.
LEMMA SubFacts ==
  ASSUME NEW n, NEW v, NEW k \in Int
  PROVE  IsElem(Sub(n, v)) /\ IsElem(Num(n, v, k))
BY DEF IsElem, Sub, Num

\* The substatements of an input are elements.
LEMMA SubsFacts ==
  ASSUME NEW n, NEW e \in Subs(n)
  PROVE  IsElem(e)
<1>1. PosMax \in Nat /\ EnumMax \in Nat
  BY BoundsAssumption
<1>2. \/ \E v : e = Sub(n, v)
      \/ \E v : \E k \in Int : e = Num(n, v, k)
  <2>1. CASE n \in DOMAIN Valued
    <3>1. n \in {"status", "config", "mandatory", "when", "must", "nacm", "container"}
      BY <2>1 DEF Valued
    <3>2. e \in {Sub(n, v) : v \in Valued[n]}
      BY <2>1, <3>1 DEF Subs
    <3> QED
      BY <3>2
  <2>2. CASE n = "ordered-by"
    BY <2>2 DEF Subs, Valued
  <2>3. CASE n \in {"min-elements", "max-elements", "revision"}
    <3>1. \E v : \E k \in {0, 1, 2} : e = Num(n, v, k)
      BY <2>3 DEF Subs, Valued
    <3> QED
      BY <3>1
  <2>4. CASE n = "bit"
    <3>1. e \in {Sub(n, v) : v \in {"a", "b", "c"}} \cup {Num(n, v, k) : v \in {"a", "b", "c"}, k \in 0..PosMax + 1}
      BY <2>4 DEF Subs, Valued
    <3>2. 0..PosMax + 1 \subseteq Int
      BY <1>1
    <3> QED
      BY <3>1, <3>2
  <2>5. CASE n = "enum"
    <3>1. e \in {Sub(n, v) : v \in {"a", "b", "c"}} \cup {Num(n, v, k) : v \in {"a", "b", "c"}, k \in -1..EnumMax + 1}
      BY <2>5 DEF Subs, Valued
    <3>2. -1..EnumMax + 1 \subseteq Int
      BY <1>1
    <3> QED
      BY <3>1, <3>2
  <2>6. CASE n \notin DOMAIN Valued \cup {"ordered-by", "min-elements", "max-elements", "revision", "bit", "enum"}
    <3>1. e \in {Sub(n, "v")}
      BY <2>6 DEF Subs
    <3> QED
      BY <3>1
  <2> QED
    BY <2>1, <2>2, <2>3, <2>4, <2>5, <2>6
<1> QED
  BY <1>2, SubFacts

\* What a statement must have is a sequence of elements.
LEMMA RequiredFacts ==
  ASSUME NEW kind, NEW S, {Sub(n, "v") : n \in {"namespace", "prefix", "belongs-to", "type", "key"}} \subseteq S
  PROVE  Required(kind) \in Seq(S)
<1> DEFINE N == {"namespace", "prefix", "belongs-to", "type", "key"}
<1>1. \A n \in N : Sub(n, "v") \in S
  OBVIOUS
<1>2. \A a, b \in S : <<a, b>> \in Seq(S) /\ <<a>> \in Seq(S) /\ <<>> \in Seq(S)
  OBVIOUS
<1>3. <<>> \in Seq(S)
  BY EmptySeq
<1>4. \/ Required(kind) = <<>>
      \/ \E a, b \in N : Required(kind) = <<Sub(a, "v"), Sub(b, "v")>> \/ Required(kind) = <<Sub(a, "v")>>
  <2>1. CASE kind = "module"
    BY <2>1 DEF Required
  <2>2. CASE kind = "submodule"
    BY <2>2 DEF Required
  <2>3. CASE kind = "import"
    BY <2>3 DEF Required
  <2>4. CASE kind \in {"leaf", "leaf-list", "typedef"}
    BY <2>4 DEF Required
  <2>5. CASE kind = "list"
    BY <2>5 DEF Required
  <2>6. CASE kind \notin {"module", "submodule", "import", "leaf", "leaf-list", "typedef", "list"}
    BY <2>6 DEF Required
  <2> QED
    BY <2>1, <2>2, <2>3, <2>4, <2>5, <2>6
<1>5. ASSUME NEW x \in N, NEW y \in N PROVE <<Sub(x, "v"), Sub(y, "v")>> \in Seq(S) /\ <<Sub(x, "v")>> \in Seq(S)
  BY <1>1, <1>2
<1> QED
  BY <1>3, <1>4, <1>5, Zenon

\* Every input is a sequence of elements.
LEMMA InputsFacts ==
  ASSUME NEW kind, NEW s \in Inputs(kind)
  PROVE  IsSeq(s) /\ \A i \in 1..Len(s) : IsElem(s[i])
<1> DEFINE U == UNION {Subs(n) : n \in Names(kind)}
           m == IF kind \in TypeKinds THEN MaxItems ELSE MaxSubs
           some == UNION {[1..i -> U] : i \in 0..m}
           R == {Sub(n, "v") : n \in {"namespace", "prefix", "belongs-to", "type", "key"}}
           S == U \cup R
<1>1. s \in some \cup {t \o Required(kind) : t \in some}
  BY DEF Inputs
<1>2. m \in Nat
  BY BoundsAssumption
<1>3. \A e \in S : IsElem(e)
  BY SubsFacts, SubFacts
<1> HIDE DEF U, m
<1>4. \A t \in some : t \in Seq(S)
  <2>1. SUFFICES ASSUME NEW i \in 0..m, NEW t \in [1..i -> U] PROVE t \in Seq(S)
    OBVIOUS
  <2>2. i \in Nat /\ t \in [1..i -> S]
    BY <1>2
  <2> HIDE DEF S
  <2> QED
    BY <2>2, SeqDef
<1>5. Required(kind) \in Seq(S)
  BY RequiredFacts
<1> HIDE DEF S, some
<1>6. s \in Seq(S)
  <2>1. CASE s \in some
    BY <1>4, <2>1
  <2>2. CASE s \in {t \o Required(kind) : t \in some}
    BY <1>4, <1>5, <2>2, ConcatProperties
  <2> QED
    BY <1>1, <2>1, <2>2
<1>7. IsSeq(s)
  BY <1>6, SeqIsSeq
<1> QED
  BY <1>3, <1>6, <1>7, ElementOfSeq
\* A statement is a sequence of elements.
Elements == stmt.kind \in AllKinds /\ IsSeq(stmt.subs) /\ \A i \in 1..Len(stmt.subs) : IsElem(stmt.subs[i])

\* Before the second loop there is nothing in the arrays; before the first one nothing is
\* counted, and after it what is linked is counted.
Unfilled ==
  /\ pc \in {"common", "first", "second"} =>
       /\ w.arr = [n \in ReadRow(stmt.kind).cnt |-> <<>>] /\ w.next = 0
       /\ From(w.left, stmt.subs)
  /\ pc \in {"common", "first"} => w.cnt = [n \in ReadRow(stmt.kind).cnt |-> 0]
  /\ pc = "second" => Counting(w, ReadRow(stmt.kind))

\* The invariant of the reader.
ReadInv ==
  /\ Elements
  /\ Shape(w) /\ Arrays(w.arr, ReadRow(stmt.kind).cnt)
  /\ Unfilled
  /\ ArraysFull
  /\ Numbered(w.arr, w.next)

\* Empty arrays are full when nothing is counted, and have no numbers.
LEMMA EmptyArrays ==
  ASSUME NEW S, NEW arr, arr = [n \in S |-> <<>>]
  PROVE  Arrays(arr, S) /\ Numbered(arr, 0) /\ DOMAIN arr = S /\ \A n \in S : Len(arr[n]) = 0
BY EmptyFacts DEF Arrays, Numbered, Bits, Enums, Increasing

\* A statement that is going to be read.
LEMMA ReadInvInit == Init => ReadInv
<1> SUFFICES ASSUME Init PROVE ReadInv
  OBVIOUS
<1>0. PICK kind \in Kinds : \E c \in Places(kind), s \in Inputs(kind) :
        /\ stmt = [kind |-> kind, arg |-> ReadRow(kind).arg, subs |-> s]
        /\ pc = "common" /\ w = Fresh(kind, c, s)
  BY DEF Init
<1>1. PICK c \in Places(kind), s \in Inputs(kind) :
        /\ stmt = [kind |-> kind, arg |-> ReadRow(kind).arg, subs |-> s]
        /\ pc = "common" /\ w = Fresh(kind, c, s)
  BY <1>0
<1>2. stmt.kind = kind /\ stmt.subs = s
  BY <1>1
<1>3. IsSeq(s) /\ \A i \in 1..Len(s) : IsElem(s[i])
  BY InputsFacts
<1>4. kind \in AllKinds
  BY KindsAssumption
<1> DEFINE row == ReadRow(kind)
<1>5. /\ Shape(w) /\ w.left = s /\ w.cnt = [n \in row.cnt |-> 0] /\ w.arr = [n \in row.cnt |-> <<>>] /\ w.next = 0
  BY <1>1 DEF Fresh, Shape, Fields
<1>6. Arrays(w.arr, row.cnt) /\ Numbered(w.arr, 0) /\ DOMAIN w.arr = row.cnt /\ \A n \in row.cnt : Len(w.arr[n]) = 0
  BY <1>5, EmptyArrays
<1>7. Elements
  BY <1>2, <1>3, <1>4 DEF Elements
<1>8. Unfilled
  <2>1. From(s, s)
    BY <1>3 DEF From
  <2> QED
    BY <1>1, <1>2, <1>5, <2>1 DEF Unfilled
<1>9. ArraysFull
  BY <1>1, <1>5, <1>6 DEF ArraysFull
<1> QED
  BY <1>2, <1>5, <1>6, <1>7, <1>8, <1>9 DEF ReadInv

\* What is not taken by the second loop is not in a statement without a misread name.
LEMMA NotMisread ==
  ASSUME Elements, Without(stmt.subs, Misread), NEW l, From(l, stmt.subs),
         NEW n \in ReadRow(stmt.kind).cnt, ~Taken(ReadRow(stmt.kind), n)
  PROVE  Counted(l, Len(l), n) = 0
<1>1. stmt.kind = "notification" /\ n = "if-feature"
  BY RowFacts DEF Consistent, Taken, Elements
<1>2. \A j \in 1..Len(stmt.subs) : stmt.subs[j].n # n
  <2>1. <<stmt.kind, n>> \in Misread
    BY <1>1, MisreadAssumption
  <2> QED
    BY <2>1 DEF Without
<1>3. {i \in 1..Len(l) : l[i].n = n} = {}
  BY <1>2 DEF From
<1> QED
  BY <1>3, FS_EmptySet DEF Counted

\* A part of a reader keeps the statement.
LEMMA PartFacts ==
  ASSUME NEW from, NEW to, NEW r, Part(from, to, r), Elements
  PROVE  /\ pc = from /\ w' = r /\ stmt' = stmt /\ ((pc' = to /\ r.ok) \/ pc' = "error")
         /\ Elements'
<1>1. pc = from /\ w' = r /\ stmt' = stmt /\ ((pc' = to /\ r.ok) \/ pc' = "error")
  BY DEF Part
<1>2. Elements'
  BY <1>1 DEF Elements
<1> QED
  BY <1>1, <1>2

\* read_yin_common.
LEMMA ReadCommonInv == ReadInv /\ ReadCommon => ReadInv'
<1> SUFFICES ASSUME ReadInv, ReadCommon PROVE ReadInv'
  OBVIOUS
<1> DEFINE kind == stmt.kind
           row == ReadRow(kind)
           r == read_yin_common(kind, ctx, w)
<1>1. /\ pc = "common" /\ w' = r /\ stmt' = stmt /\ (pc' = "first" \/ pc' = "error") /\ Elements'
  BY PartFacts DEF ReadInv, ReadCommon
<1>2. /\ Shape(w) /\ From(w.left, stmt.subs) /\ w.arr = [n \in row.cnt |-> <<>>] /\ w.next = 0
      /\ w.cnt = [n \in row.cnt |-> 0]
  BY <1>1 DEF ReadInv, Unfilled
<1>3. Alike(r, w) /\ From(r.left, w.left)
  BY <1>2, CommonLoop DEF From
<1>4. From(r.left, stmt.subs)
  BY <1>2, <1>3, FromFrom
<1> HIDE DEF r, row
<1>5. Shape(w') /\ w'.arr = [n \in row.cnt |-> <<>>] /\ w'.next = 0 /\ w'.cnt = [n \in row.cnt |-> 0]
  BY <1>1, <1>2, <1>3 DEF Alike
<1>6. ReadRow(stmt'.kind) = row
  BY <1>1 DEF row
<1>7. Arrays(w'.arr, row.cnt) /\ Numbered(w'.arr, w'.next) /\ DOMAIN w'.arr = row.cnt /\ \A n \in row.cnt : Len(w'.arr[n]) = 0
  BY <1>5, EmptyArrays
<1>8. Unfilled'
  BY <1>1, <1>4, <1>5, <1>6 DEF Unfilled
<1>9. ArraysFull'
  BY <1>1, <1>5, <1>7 DEF ArraysFull
<1> QED
  BY <1>1, <1>5, <1>6, <1>7, <1>8, <1>9 DEF ReadInv

\* The first loop.
LEMMA FirstLoopInv == ReadInv /\ FirstLoop => ReadInv'
<1> SUFFICES ASSUME ReadInv, FirstLoop PROVE ReadInv'
  OBVIOUS
<1> DEFINE kind == stmt.kind
           row == ReadRow(kind)
           r == first_loop(kind, ctx, w)
<1>1. /\ pc = "first" /\ w' = r /\ stmt' = stmt /\ (pc' = "second" \/ pc' = "error") /\ Elements'
  BY PartFacts DEF ReadInv, FirstLoop
<1>2. /\ Shape(w) /\ From(w.left, stmt.subs) /\ w.arr = [n \in row.cnt |-> <<>>] /\ w.next = 0
      /\ w.cnt = [n \in row.cnt |-> 0] /\ kind \in AllKinds
  BY <1>1 DEF ReadInv, Unfilled, Elements
<1>3. Shape(r) /\ r.arr = w.arr /\ r.next = w.next /\ From(r.left, w.left) /\ Counting(r, row)
  BY <1>2, FirstLoopFacts DEF From
<1>4. From(r.left, stmt.subs)
  BY <1>2, <1>3, FromFrom
<1> HIDE DEF r, row
<1>5. Shape(w') /\ w'.arr = [n \in row.cnt |-> <<>>] /\ w'.next = 0 /\ Counting(w', row)
  BY <1>1, <1>2, <1>3
<1>6. ReadRow(stmt'.kind) = row
  BY <1>1 DEF row
<1>7. Arrays(w'.arr, row.cnt) /\ Numbered(w'.arr, w'.next) /\ DOMAIN w'.arr = row.cnt /\ \A n \in row.cnt : Len(w'.arr[n]) = 0
  BY <1>5, EmptyArrays
<1>8. Unfilled'
  BY <1>1, <1>4, <1>5, <1>6 DEF Unfilled
<1>9. ArraysFull'
  <2>1. PICK m \in Nat : m = Len(w'.left)
    BY <1>5 DEF Counting, IsSeq
  <2>2. \A n \in row.cnt : w'.cnt[n] = Counted(w'.left, m, n) /\ Counted(w'.left, m, n) \in Nat
    BY <1>5, <2>1, CountedFacts DEF Counting
  <2> QED
    BY <1>1, <1>7, <2>2 DEF ArraysFull
<1> QED
  BY <1>1, <1>5, <1>6, <1>7, <1>8, <1>9 DEF ReadInv

\* The second loop.
LEMMA SecondLoopInv == ReadInv /\ SecondLoop => ReadInv'
<1> SUFFICES ASSUME ReadInv, SecondLoop PROVE ReadInv'
  OBVIOUS
<1> DEFINE kind == stmt.kind
           row == ReadRow(kind)
           l == w.left
           r == second_loop(kind, ctx, w)
<1>1. /\ pc = "second" /\ w' = r /\ stmt' = stmt /\ ((pc' = "data" /\ r.ok) \/ pc' = "error") /\ Elements'
  BY PartFacts DEF ReadInv, SecondLoop
<1>2. /\ Shape(w) /\ From(l, stmt.subs) /\ w.arr = [n \in row.cnt |-> <<>>] /\ w.next = 0
      /\ Counting(w, row) /\ kind \in AllKinds /\ Elements
  BY <1>1 DEF ReadInv, Unfilled, Elements
<1>3. \A i \in 1..Len(l) : IsElem(l[i])
  BY <1>2 DEF From, Elements
<1>4. Shape(r) /\ r.left = l /\ r.cnt = w.cnt /\ Filled(r, l, Len(l), row)
  BY <1>2, <1>3, SecondLoopFacts
<1>5. \A n \in row.cnt : ~Taken(row, n) /\ Without(stmt.subs, Misread) => Counted(l, Len(l), n) = 0
  BY <1>2, NotMisread
<1> HIDE DEF r, row
<1>6. ReadRow(stmt'.kind) = row
  BY <1>1 DEF row
<1>7. \A n \in row.cnt : /\ w'.cnt[n] = Counted(l, Len(l), n)
                         /\ Len(w'.arr[n]) \in Nat /\ Len(w'.arr[n]) <= Counted(l, Len(l), n)
                         /\ r.ok /\ Taken(row, n) => Len(w'.arr[n]) = Counted(l, Len(l), n)
  <2>1. w'.cnt = [n \in row.cnt |-> Counted(l, Len(l), n)]
    BY <1>1, <1>2, <1>4 DEF Counting
  <2>2. w'.arr = r.arr
    BY <1>1
  <2>3. \A n \in row.cnt : Len(r.arr[n]) \in Nat
    BY <1>4 DEF Filled, Arrays, IsSeq
  <2>4. \A n \in row.cnt : /\ Len(r.arr[n]) <= Counted(l, Len(l), n)
                           /\ r.ok /\ Taken(row, n) => Len(r.arr[n]) = Counted(l, Len(l), n)
    BY <1>4 DEF Filled
  <2> QED
    BY <2>1, <2>2, <2>3, <2>4
<1>8. Arrays(w'.arr, row.cnt) /\ Numbered(w'.arr, w'.next) /\ DOMAIN w'.arr = row.cnt
  BY <1>1, <1>4 DEF Filled, Arrays
<1>9. Unfilled'
  BY <1>1 DEF Unfilled
<1>10. ArraysFull'
  <2>1. ASSUME NEW n \in row.cnt, r.ok, Without(stmt.subs, Misread) PROVE Len(w'.arr[n]) = w'.cnt[n]
    BY <1>5, <1>7, <2>1
  <2> QED
    BY <1>1, <1>7, <1>8, <2>1 DEF ArraysFull, Without
<1> QED
  BY <1>1, <1>4, <1>6, <1>8, <1>9, <1>10 DEF ReadInv

\* The loop over the children.
LEMMA DataLoopInv == ReadInv /\ DataLoop => ReadInv'
<1> SUFFICES ASSUME ReadInv, DataLoop PROVE ReadInv'
  OBVIOUS
<1> DEFINE r == data_loop(stmt.kind, w)
<1>1. /\ pc = "data" /\ w' = r /\ stmt' = stmt /\ (pc' = "read" \/ pc' = "error") /\ Elements'
  BY PartFacts DEF ReadInv, DataLoop
<1>2. Alike(r, w)
  BY DataLoopFacts DEF ReadInv
<1> HIDE DEF r
<1>3. Shape(w') /\ w'.arr = w.arr /\ w'.cnt = w.cnt /\ w'.next = w.next
  BY <1>1, <1>2 DEF Alike
<1>4. Unfilled'
  BY <1>1 DEF Unfilled
<1>5. ArraysFull'
  BY <1>1, <1>3 DEF ReadInv, ArraysFull, Without
<1> QED
  BY <1>1, <1>3, <1>4, <1>5 DEF ReadInv

\* Printing reads the structure only.
LEMMA PrintModelInv == ReadInv /\ PrintModel => ReadInv'
<1> SUFFICES ASSUME ReadInv, PrintModel PROVE ReadInv'
  OBVIOUS
<1>1. pc = "read" /\ pc' = "printed" /\ stmt' = stmt /\ w' = w
  BY DEF PrintModel
<1>2. Unfilled'
  BY <1>1 DEF Unfilled
<1>3. ArraysFull'
  BY <1>1 DEF ReadInv, ArraysFull, Without
<1> QED
  BY <1>1, <1>2, <1>3 DEF ReadInv, Elements

\* Every step of the reader keeps the invariant.
LEMMA ReadInvNext == ReadInv /\ [Next]_vars => ReadInv'
<1> SUFFICES ASSUME ReadInv, [Next]_vars PROVE ReadInv'
  OBVIOUS
<1>1. CASE UNCHANGED vars
  <2>1. pc' = pc /\ stmt' = stmt /\ w' = w
    BY <1>1 DEF vars
  <2> QED
    BY <2>1 DEF ReadInv, Elements, Unfilled, ArraysFull, Without
<1> QED
  BY <1>1, ReadCommonInv, FirstLoopInv, SecondLoopInv, DataLoopInv, PrintModelInv DEF Next

\* The counters, the linked elements and the arrays of a structure agree in every state of a
\* reader, for a statement with any number of substatements.
THEOREM ReadInvariance == Spec => []ReadInv
<1>1. Init => ReadInv
  BY ReadInvInit
<1>2. ReadInv /\ [Next]_vars => ReadInv'
  BY ReadInvNext
<1> QED
  BY <1>1, <1>2, PTL DEF Spec

\* The arrays of a structure have room for all that the second loop stores, and the room is
\* used up unless the reader is known to lose a substatement of this name (parser_yin.c:4330).
THEOREM ArraysExact == Spec => []ArraysFull
<1>1. ReadInv => ArraysFull
  BY DEF ReadInv
<1> QED
  BY <1>1, ReadInvariance, PTL

\* Bits of a type have different positions, in order, and a value stated for an enum is not
\* that of one before it, whatever the order of stated and assigned numbers
\* (parser_yin.c:378 and :571).
THEOREM PositionsUnique == Spec => []NumbersUnique
<1>1. ReadInv => NumbersUnique
  BY DEF ReadInv, Numbered, Bits, Enums, Increasing, NumbersUnique
<1> QED
  BY <1>1, ReadInvariance, PTL
-----------------------------------------------------------------------------
(* The two printers *)

\* The parts of a row of the YIN printer.
LEMMA PartsFacts ==
  ASSUME NEW arg, NEW parts, NEW kids
  PROVE  Parts(arg, parts, kids).parts = parts
BY DEF Parts

\* Both printers have the same parts of every statement in the same order.
LEMMA RowsAgree ==
  ASSUME NEW kind \in AllKinds
  PROVE  YangRow(kind) = YinRow(kind).parts
<1>1. CASE kind = "module"
  <2>1. YinRow(kind) = yin_print_model(FALSE) /\ YangRow(kind) = yang_print_model(FALSE)
    BY <1>1 DEF YinRow, YangRow
  <2>2. yin_print_model(FALSE).parts = yang_print_model(FALSE)
    BY PartsFacts DEF yin_print_model, yang_print_model
  <2> QED
    BY <2>1, <2>2
<1>2. CASE kind = "submodule"
  <2>1. YinRow(kind) = yin_print_model(TRUE) /\ YangRow(kind) = yang_print_model(TRUE)
    BY <1>2 DEF YinRow, YangRow
  <2>2. yin_print_model(TRUE).parts = yang_print_model(TRUE)
    BY PartsFacts DEF yin_print_model, yang_print_model
  <2> QED
    BY <2>1, <2>2
<1>3. CASE kind = "import"
  <2>1. YinRow(kind) = yin_print_import /\ YangRow(kind) = yang_print_import
    BY <1>3 DEF YinRow, YangRow
  <2>2. yin_print_import.parts = yang_print_import
    BY PartsFacts DEF yin_print_import, yang_print_import
  <2> QED
    BY <2>1, <2>2
<1>4. CASE kind = "include"
  <2>1. YinRow(kind) = yin_print_include /\ YangRow(kind) = yang_print_include
    BY <1>4 DEF YinRow, YangRow
  <2>2. yin_print_include.parts = yang_print_include
    BY PartsFacts DEF yin_print_include, yang_print_include
  <2> QED
    BY <2>1, <2>2
<1>5. CASE kind = "revision"
  <2>1. YinRow(kind) = yin_print_revision /\ YangRow(kind) = yang_print_revision
    BY <1>5 DEF YinRow, YangRow
  <2>2. yin_print_revision.parts = yang_print_revision
    BY PartsFacts DEF yin_print_revision, yang_print_revision
  <2> QED
    BY <2>1, <2>2
<1>6. CASE kind = "feature"
  <2>1. YinRow(kind) = yin_print_feature /\ YangRow(kind) = yang_print_feature
    BY <1>6 DEF YinRow, YangRow
  <2>2. yin_print_feature.parts = yang_print_feature
    BY PartsFacts DEF yin_print_feature, yang_print_feature, yin_print_snode_common, yang_print_snode_common
  <2> QED
    BY <2>1, <2>2
<1>7. CASE kind = "identity"
  <2>1. YinRow(kind) = yin_print_identity /\ YangRow(kind) = yang_print_identity
    BY <1>7 DEF YinRow, YangRow
  <2>2. yin_print_identity.parts = yang_print_identity
    BY PartsFacts DEF yin_print_identity, yang_print_identity, yin_print_snode_common, yang_print_snode_common
  <2> QED
    BY <2>1, <2>2
<1>8. CASE kind = "typedef"
  <2>1. YinRow(kind) = yin_print_typedef /\ YangRow(kind) = yang_print_typedef
    BY <1>8 DEF YinRow, YangRow
  <2>2. yin_print_typedef.parts = yang_print_typedef
    BY PartsFacts DEF yin_print_typedef, yang_print_typedef, yin_print_snode_common, yang_print_snode_common
  <2> QED
    BY <2>1, <2>2
<1>9. CASE kind = "when"
  <2>1. YinRow(kind) = yin_print_when /\ YangRow(kind) = yang_print_when
    BY <1>9 DEF YinRow, YangRow
  <2>2. yin_print_when.parts = yang_print_when
    BY PartsFacts DEF yin_print_when, yang_print_when
  <2> QED
    BY <2>1, <2>2
<1>10. CASE kind = "must"
  <2>1. YinRow(kind) = yin_print_must /\ YangRow(kind) = yang_print_must
    BY <1>10 DEF YinRow, YangRow
  <2>2. yin_print_must.parts = yang_print_must
    BY PartsFacts DEF yin_print_must, yang_print_must, yin_print_restr_sub, yang_print_restr
  <2> QED
    BY <2>1, <2>2
<1>11. CASE kind = "pattern"
  <2>1. YinRow(kind) = yin_print_restr /\ YangRow(kind) = yang_print_restr
    BY <1>11 DEF YinRow, YangRow
  <2>2. yin_print_restr.parts = yang_print_restr
    BY PartsFacts DEF yin_print_restr, yang_print_restr, yin_print_restr_sub
  <2> QED
    BY <2>1, <2>2
<1>12. CASE kind = "container"
  <2>1. YinRow(kind) = yin_print_container /\ YangRow(kind) = yang_print_container
    BY <1>12 DEF YinRow, YangRow
  <2>2. yin_print_container.parts = yang_print_container
    BY PartsFacts DEF yin_print_container, yang_print_container, yin_print_snode_common, yang_print_snode_common, yin_print_snode_common2, yang_print_snode_common2
  <2> QED
    BY <2>1, <2>2
<1>13. CASE kind = "case"
  <2>1. YinRow(kind) = yin_print_case /\ YangRow(kind) = yang_print_case
    BY <1>13 DEF YinRow, YangRow
  <2>2. yin_print_case.parts = yang_print_case
    BY PartsFacts DEF yin_print_case, yang_print_case, yin_print_snode_common, yang_print_snode_common, yin_print_snode_common2, yang_print_snode_common2
  <2> QED
    BY <2>1, <2>2
<1>14. CASE kind = "choice"
  <2>1. YinRow(kind) = yin_print_choice /\ YangRow(kind) = yang_print_choice
    BY <1>14 DEF YinRow, YangRow
  <2>2. yin_print_choice.parts = yang_print_choice
    BY PartsFacts DEF yin_print_choice, yang_print_choice, yin_print_snode_common, yang_print_snode_common, yin_print_snode_common2, yang_print_snode_common2
  <2> QED
    BY <2>1, <2>2
<1>15. CASE kind = "anyxml"
  <2>1. YinRow(kind) = yin_print_anyxml /\ YangRow(kind) = yang_print_anyxml
    BY <1>15 DEF YinRow, YangRow
  <2>2. yin_print_anyxml.parts = yang_print_anyxml
    BY PartsFacts DEF yin_print_anyxml, yang_print_anyxml, yin_print_snode_common, yang_print_snode_common, yin_print_snode_common2, yang_print_snode_common2
  <2> QED
    BY <2>1, <2>2
<1>16. CASE kind = "leaf"
  <2>1. YinRow(kind) = yin_print_leaf /\ YangRow(kind) = yang_print_leaf
    BY <1>16 DEF YinRow, YangRow
  <2>2. yin_print_leaf.parts = yang_print_leaf
    BY PartsFacts DEF yin_print_leaf, yang_print_leaf, yin_print_snode_common, yang_print_snode_common, yin_print_snode_common2, yang_print_snode_common2
  <2> QED
    BY <2>1, <2>2
<1>17. CASE kind = "leaf-list"
  <2>1. YinRow(kind) = yin_print_leaflist /\ YangRow(kind) = yang_print_leaflist
    BY <1>17 DEF YinRow, YangRow
  <2>2. yin_print_leaflist.parts = yang_print_leaflist
    BY PartsFacts DEF yin_print_leaflist, yang_print_leaflist, yin_print_snode_common, yang_print_snode_common, yin_print_snode_common2, yang_print_snode_common2
  <2> QED
    BY <2>1, <2>2
<1>18. CASE kind = "list"
  <2>1. YinRow(kind) = yin_print_list /\ YangRow(kind) = yang_print_list
    BY <1>18 DEF YinRow, YangRow
  <2>2. yin_print_list.parts = yang_print_list
    BY PartsFacts DEF yin_print_list, yang_print_list, yin_print_snode_common, yang_print_snode_common, yin_print_snode_common2, yang_print_snode_common2
  <2> QED
    BY <2>1, <2>2
<1>19. CASE kind = "grouping"
  <2>1. YinRow(kind) = yin_print_grouping /\ YangRow(kind) = yang_print_grouping
    BY <1>19 DEF YinRow, YangRow
  <2>2. yin_print_grouping.parts = yang_print_grouping
    BY PartsFacts DEF yin_print_grouping, yang_print_grouping, yin_print_snode_common, yang_print_snode_common
  <2> QED
    BY <2>1, <2>2
<1>20. CASE kind = "uses"
  <2>1. YinRow(kind) = yin_print_uses /\ YangRow(kind) = yang_print_uses
    BY <1>20 DEF YinRow, YangRow
  <2>2. yin_print_uses.parts = yang_print_uses
    BY PartsFacts DEF yin_print_uses, yang_print_uses, yin_print_snode_common, yang_print_snode_common
  <2> QED
    BY <2>1, <2>2
<1>21. CASE kind = "input"
  <2>1. YinRow(kind) = yin_print_input_output /\ YangRow(kind) = yang_print_input_output
    BY <1>21 DEF YinRow, YangRow
  <2>2. yin_print_input_output.parts = yang_print_input_output
    BY PartsFacts DEF yin_print_input_output, yang_print_input_output
  <2> QED
    BY <2>1, <2>2
<1>22. CASE kind = "rpc"
  <2>1. YinRow(kind) = yin_print_rpc /\ YangRow(kind) = yang_print_rpc
    BY <1>22 DEF YinRow, YangRow
  <2>2. yin_print_rpc.parts = yang_print_rpc
    BY PartsFacts DEF yin_print_rpc, yang_print_rpc, yin_print_snode_common, yang_print_snode_common
  <2> QED
    BY <2>1, <2>2
<1>23. CASE kind = "notification"
  <2>1. YinRow(kind) = yin_print_notif /\ YangRow(kind) = yang_print_notif
    BY <1>23 DEF YinRow, YangRow
  <2>2. yin_print_notif.parts = yang_print_notif
    BY PartsFacts DEF yin_print_notif, yang_print_notif, yin_print_snode_common, yang_print_snode_common
  <2> QED
    BY <2>1, <2>2
<1>24. CASE kind = "augment"
  <2>1. YinRow(kind) = yin_print_augment /\ YangRow(kind) = yang_print_augment
    BY <1>24 DEF YinRow, YangRow
  <2>2. yin_print_augment.parts = yang_print_augment
    BY PartsFacts DEF yin_print_augment, yang_print_augment, yin_print_snode_common, yang_print_snode_common
  <2> QED
    BY <2>1, <2>2
<1>25. CASE kind = "refine"
  <2>1. YinRow(kind) = yin_print_refine /\ YangRow(kind) = yang_print_refine
    BY <1>25 DEF YinRow, YangRow
  <2>2. yin_print_refine.parts = yang_print_refine
    BY PartsFacts DEF yin_print_refine, yang_print_refine, yin_print_snode_common, yang_print_snode_common
  <2> QED
    BY <2>1, <2>2
<1>26. CASE kind \in TypeStmts
  <2>1. YinRow(kind) = yin_print_type(kind) /\ YangRow(kind) = yang_print_type(kind)
    BY <1>26 DEF YinRow, YangRow, TypeStmts
  <2>2. yin_print_type(kind).parts = yang_print_type(kind)
    BY PartsFacts DEF yin_print_type, yang_print_type
  <2> QED
    BY <2>1, <2>2
<1> QED
  BY <1>1, <1>2, <1>3, <1>4, <1>5, <1>6, <1>7, <1>8, <1>9, <1>10, <1>11, <1>12, <1>13, <1>14, <1>15, <1>16, <1>17, <1>18, <1>19, <1>20, <1>21, <1>22, <1>23, <1>24, <1>25, <1>26 DEF AllKinds, TypeStmts

\* What was printed is what the YIN printer makes of the structure.
PrintInv ==
  /\ stmt.kind \in AllKinds
  /\ pc = "printed" => out.subs = Printed(stmt.kind, ctx, w, YinRow(stmt.kind).parts)

\* The YANG printer prints the substatements the YIN printer prints, in the same order, of
\* every structure a reader returns (printer_yang.c and printer_yin.c).
THEOREM SamePrinted == Spec => []PrintersAgree
<1>1. Init => PrintInv
  BY KindsAssumption DEF Init, PrintInv
<1>2. PrintInv /\ [Next]_vars => PrintInv'
  <2> SUFFICES ASSUME PrintInv, [Next]_vars PROVE PrintInv'
    OBVIOUS
  <2>1. ASSUME NEW from, NEW to, NEW r, Part(from, to, r), to # "printed" PROVE PrintInv'
    BY <2>1 DEF PrintInv, Part
  <2>2. CASE ReadCommon
    BY <2>1, <2>2 DEF ReadCommon
  <2>3. CASE FirstLoop
    BY <2>1, <2>3 DEF FirstLoop
  <2>4. CASE SecondLoop
    BY <2>1, <2>4 DEF SecondLoop
  <2>5. CASE DataLoop
    BY <2>1, <2>5 DEF DataLoop
  <2>6. CASE PrintModel
    BY <2>6 DEF PrintModel, PrintInv
  <2>7. CASE UNCHANGED vars
    BY <2>7 DEF vars, PrintInv
  <2> QED
    BY <2>2, <2>3, <2>4, <2>5, <2>6, <2>7 DEF Next
<1>3. PrintInv => PrintersAgree
  BY RowsAgree DEF PrintInv, PrintersAgree
<1> QED
  BY <1>1, <1>2, <1>3, PTL DEF Spec
=============================================================================
