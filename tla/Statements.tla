------------------------------ MODULE Statements ------------------------------
(***************************************************************************)
(* Reading one YIN statement, printing what was read and reading the       *)
(* printed statement again.                                                *)
(*                                                                         *)
(* The read_yin_* and fill_yin_* functions share one shape, which is the   *)
(* control of this module: read_yin_common takes the statements all nodes  *)
(* share, a first loop stores the substatements that may occur once and    *)
(* counts those that may repeat, arrays of that many items are allocated,  *)
(* a second loop over what is still linked fills them, and the child nodes *)
(* are read last.  What differs between the statements is in the rows of   *)
(* YinStatements and YangPrinter.                                          *)
(*                                                                         *)
(* A substatement is its name n, its argument v ("bad" is one the code     *)
(* refuses), a number k (min-elements, bit, enum) and auto, TRUE when a    *)
(* bit or an enum states no number.  Name "garbage" is an element of       *)
(* another namespace, "unknown" a keyword no statement has.                *)
(***************************************************************************)
EXTENDS YinStatements, YangPrinter, Integers, FiniteSets, SequencesExt

CONSTANTS Kinds,    \* the statements that are read
          Misread,  \* pairs <<kind, substatement>> the readers are known to lose
          Unprinted,\* pairs <<kind, substatement>> the YIN printer is known to lose
          EnumMax,  \* INT32_MAX, the highest value of an enum
          PosMax,   \* UINT32_MAX, the highest position of a bit
          MaxSubs,  \* bound: substatements of a statement, what it must have apart
          MaxItems  \* bound: bits or enums of a type

ASSUME BoundsAssumption == EnumMax \in Nat /\ PosMax \in Nat /\ MaxSubs \in Nat /\ MaxItems \in Nat
ASSUME KindsAssumption == Kinds \subseteq AllKinds
\* parser_yin.c:4330 looks for "if-features".
ASSUME MisreadAssumption == <<"notification", "if-feature">> \in Misread

VARIABLES stmt,  \* the statement: its kind, the attribute of its argument, its substatements
          ctx,   \* where it stands: its parent and how it is read
          pc,    \* the part of the reader that runs next
          w,     \* the structure that is filled, with the elements that are still linked
          out    \* the statement that was printed
vars == <<stmt, ctx, pc, w, out>>

-----------------------------------------------------------------------------
(* Inputs *)

Sub(n, v) == [n |-> n, v |-> v, k |-> 0, auto |-> TRUE]
Num(n, v, k) == [n |-> n, v |-> v, k |-> k, auto |-> FALSE]

Valued ==
  [status |-> {"current", "deprecated", "obsolete", "bad"}, config |-> {"true", "false", "bad"},
   mandatory |-> {"true", "false", "bad"}, when |-> {"v", "bad"}, must |-> {"v", "bad"},
   nacm |-> {"write", "all", "bad"}, container |-> {"v", "bad"}]

Subs(n) ==
  CASE n \in DOMAIN Valued -> {Sub(n, v) : v \in Valued[n]}
    [] n = "ordered-by" -> {Sub(n, v) : v \in {"user", "system", "bad"}}
    [] n = "min-elements" -> {Num(n, "num", 0), Num(n, "num", 2), Num(n, "bad", 0)}
    [] n = "max-elements" -> {Num(n, "num", 0), Num(n, "num", 1), Num(n, "unbounded", 0)}
    [] n = "revision" -> {Num(n, "v", 1), Num(n, "v", 2)}
    [] n = "bit" -> {Sub(n, v) : v \in {"a", "b", "c"}}
                      \cup {Num(n, v, k) : v \in {"a", "b", "c"}, k \in 0..PosMax + 1}
    [] n = "enum" -> {Sub(n, v) : v \in {"a", "b", "c"}}
                       \cup {Num(n, v, k) : v \in {"a", "b", "c"}, k \in -1..EnumMax + 1}
    [] OTHER -> {Sub(n, "v")}

TypeKinds == {k \in Kinds : ReadRow(k).cnt \in {{"bit"}, {"enum"}}}

\* The names a function tests, one it does not know, and elements of other namespaces.
Names(kind) ==
  LET row == ReadRow(kind) IN
  row.one \cup row.cnt \cup row.kids \cup {"unknown", "garbage"}
    \cup (IF kind \in {"module", "submodule"} THEN {"extension"} ELSE {})
    \cup (IF "common" \in row.opt THEN Common \cup {"config", "nacm"} ELSE {})

\* What a statement must have; every input is read with and without it.
Required(kind) ==
  CASE kind = "module" -> <<Sub("namespace", "v"), Sub("prefix", "v")>>
    [] kind = "submodule" -> <<Sub("belongs-to", "v")>>
    [] kind = "import" -> <<Sub("prefix", "v")>>
    [] kind \in {"leaf", "leaf-list", "typedef"} -> <<Sub("type", "v")>>
    [] kind = "list" -> <<Sub("key", "v")>>
    [] OTHER -> <<>>

Inputs(kind) ==
  LET s == UNION {Subs(n) : n \in Names(kind)}
      n == IF kind \in TypeKinds THEN MaxItems ELSE MaxSubs
      some == UNION {[1..i -> s] : i \in 0..n}
  IN some \cup {t \o Required(kind) : t \in some}

Place(par, conf, nacm, resolve, derived) ==
  [par |-> par, conf |-> conf, nacm |-> nacm, resolve |-> resolve, derived |-> derived]
Top == Place("none", "none", {}, TRUE, FALSE)
InAny == {Place("node", "true", {}, TRUE, FALSE), Place("node", "false", {"write"}, TRUE, FALSE),
          Place("node", "none", {}, FALSE, FALSE)}
Places(kind) ==
  CASE kind \in DataStmts -> InAny \cup {Top, Place("grouping", "none", {}, FALSE, FALSE)}
    [] kind \in {"case", "input"} -> InAny
    [] kind \in {"grouping", "rpc", "notification", "augment"} -> {[Top EXCEPT !.resolve = FALSE]}
    [] kind \in TypeStmts -> {Top, [Top EXCEPT !.derived = TRUE]}
    [] OTHER -> {Top}

-----------------------------------------------------------------------------
(* Reading *)

Fail(r) == [r EXCEPT !.ok = FALSE]

MayNacm(kind, c) ==
  LET opt == ReadRow(kind).opt IN "nacm" \in opt \/ ("nogrp" \in opt /\ c.par # "grouping")

\* mutant: the parent's NACM marks are not taken over
Fresh_own(kind, c, subs) ==
  [ok |-> TRUE, left |-> subs, seen |-> {}, one |-> <<>>, flags |-> {}, target |-> {},
   cnt |-> [n \in ReadRow(kind).cnt |-> 0], arr |-> [n \in ReadRow(kind).cnt |-> <<>>],
   kids |-> <<>>, conf |-> "none", next |-> 0, nacm |-> {}]
\* calloc of the structure, and the flags inherited before the substatements are read
Fresh(kind, c, subs) ==
  [ok |-> TRUE, left |-> subs, seen |-> {}, one |-> <<>>, flags |-> {}, target |-> {},
   cnt |-> [n \in ReadRow(kind).cnt |-> 0], arr |-> [n \in ReadRow(kind).cnt |-> <<>>],
   kids |-> <<>>, conf |-> "none", next |-> 0,
   nacm |-> IF MayNacm(kind, c) /\ c.par # "none" /\ "noparent" \notin ReadRow(kind).opt
            THEN c.nacm ELSE {}]

Stored(r, e) ==
  [r EXCEPT !.seen = @ \cup {e.n},
            !.one = [n \in DOMAIN r.one \cup {e.n} |-> IF n = e.n THEN e ELSE r.one[n]]]

CommonStep(kind, c, r, e) ==
  IF ~r.ok \/ e.n = "garbage" THEN r
  ELSE
  CASE e.n = "nacm" ->
         IF ~MayNacm(kind, c) THEN r
         ELSE IF e.v = "bad" THEN Fail(r) ELSE [r EXCEPT !.nacm = @ \cup {e.v}]
    [] e.n \in Common \/ (e.n = "config" /\ "config" \in ReadRow(kind).opt) ->
         IF e.n \in r.seen \/ e.v = "bad" THEN Fail(r)
         ELSE IF e.n = "status" THEN [r EXCEPT !.seen = @ \cup {e.n}, !.flags = {e.v}]
         ELSE IF e.n = "config" THEN [r EXCEPT !.seen = @ \cup {e.n}, !.conf = e.v]
         ELSE Stored(r, e)
    [] OTHER -> [r EXCEPT !.left = Append(@, e)]

\* The nodes a refine with this substatement can be meant for.
RefineTargets(n) ==
  CASE n = "default" -> {"leaf", "choice"}
    [] n = "mandatory" -> {"leaf", "choice", "anyxml"}
    [] n \in {"min-elements", "max-elements"} -> {"list", "leaf-list"}
    [] n = "presence" -> {"container"}
    [] n = "must" -> {"list", "leaf-list", "container", "anyxml"}

\* target_type narrows with every substatement; an empty set stands for 0, no limitation.
Narrowed(r, n) ==
  LET t == IF r.target = {} THEN RefineTargets(n) ELSE r.target \cap RefineTargets(n)
  IN IF t = {} THEN Fail(r) ELSE [r EXCEPT !.target = t]

BadValue(kind, c, e) ==
  \/ e.v = "bad"
  \/ e.n = "max-elements" /\ e.v = "num" /\ e.k = 0
  \/ kind = "type leafref" /\ c.derived

StoreOne(kind, r, e) ==
  CASE e.n = "ordered-by" /\ (e.v = "system" \/ r.conf = "false") ->
         [r EXCEPT !.seen = @ \cup {e.n}]
    [] e.n \in {"min-elements", "max-elements"} /\ kind # "refine" /\ e.k = 0 ->
         [r EXCEPT !.seen = @ \cup {e.n}]
    \* bits 3 and 4 of flags, which are also "status current" and "status deprecated"
    [] e.n = "min-elements" /\ kind = "refine" -> Stored([r EXCEPT !.flags = @ \cup {"current"}], e)
    [] e.n = "max-elements" /\ kind = "refine" -> Stored([r EXCEPT !.flags = @ \cup {"deprecated"}], e)
    [] OTHER -> Stored(r, e)

\* mutant: a single substatement is taken twice
Twice_never(kind, r, e) == FALSE
\* fill_yin_import has no test for a second prefix.
Twice(kind, r, e) == e.n \in r.seen /\ <<kind, e.n>> # <<"import", "prefix">>

\* The loop over a revision does not look at namespaces; extensions of a module only cause a
\* warning.
IgnoredNames(kind) ==
  CASE kind = "revision" -> {}
    [] kind \in {"module", "submodule"} -> {"garbage", "nacm", "extension"}
    [] OTHER -> {"garbage", "nacm"}

FirstStep(kind, c, r, e) ==
  LET row == ReadRow(kind)
      kept == [r EXCEPT !.left = Append(@, e)]
      ignored == e.n = "ordered-by" /\ r.conf = "false"
      r1 == IF kind = "refine" /\ e.n \in row.one \cup row.cnt THEN Narrowed(r, e.n) ELSE r
  IN IF ~r.ok \/ e.n \in IgnoredNames(kind) THEN r
     ELSE
     CASE e.n \in row.kids -> [r EXCEPT !.kids = Append(@, e)]
       [] e.n \in row.cnt -> IF ~r1.ok THEN r1
                             ELSE [r1 EXCEPT !.cnt[e.n] = @ + 1, !.left = Append(@, e)]
       [] e.n \in row.one ->
            IF Twice(kind, r, e) \/ (~ignored /\ BadValue(kind, c, e)) \/ ~r1.ok THEN Fail(r)
            ELSE LET r2 == StoreOne(kind, r1, e)
                 IN IF row.frees THEN r2 ELSE [r2 EXCEPT !.left = Append(@, e)]
       [] OTHER -> Fail(r)

Has(r, n) == n \in DOMAIN r.one
NumOf(r, n) == IF Has(r, n) THEN r.one[n].k ELSE 0

\* The tests between the two loops, and the one of read_yin_choice after the second.
Complete(kind, c, r) ==
  /\ kind \in {"leaf", "leaf-list", "typedef"} => Has(r, "type")
  /\ kind = "list" /\ r.conf = "true" => Has(r, "key")
  /\ kind \in {"list", "leaf-list"} /\ Has(r, "max-elements")
       => NumOf(r, "min-elements") <= NumOf(r, "max-elements")
  /\ kind = "choice" /\ Has(r, "default") /\ Has(r, "mandatory") => r.one["mandatory"].v = "false"
  /\ kind = "import" => Has(r, "prefix")
  /\ kind = "module" => Has(r, "namespace") /\ Has(r, "prefix")
  /\ kind = "submodule" => Has(r, "belongs-to")
  /\ kind = "type decimal64" => (Has(r, "fraction-digits") <=> ~c.derived)
  /\ kind = "type leafref" => (Has(r, "path") <=> ~c.derived)
  /\ kind = "type identityref" => Has(r, "base") \/ c.derived
  /\ kind = "type union" => r.cnt["type"] > 0 \/ c.derived
  /\ kind = "type bits" => (r.cnt["bit"] > 0 <=> ~c.derived)
  /\ kind = "type enumeration" => (r.cnt["enum"] > 0 <=> ~c.derived)

CompleteOrFail(kind, c, r) == IF r.ok /\ ~Complete(kind, c, r) THEN Fail(r) ELSE r

\* Bits are kept ordered by their positions.
SortedIn(s, e) ==
  LET i == Cardinality({j \in 1..Len(s) : s[j].k <= e.k})
  IN SubSeq(s, 1, i) \o <<e>> \o SubSeq(s, i + 1, Len(s))

\* mutant: the counter is not raised by a position equal to it
Raised_bits_above(k, next) == k > next
Raised_bits(k, next) == k >= next
Raised_enum(k, next) == k > next

bit_position(r, e) ==
  LET used == {r.arr["bit"][j].k : j \in 1..Len(r.arr["bit"])}
      next == IF ~e.auto /\ Raised_bits(e.k, r.next) THEN e.k + 1 ELSE r.next
      b == IF e.auto THEN [e EXCEPT !.k = next] ELSE e
  IN IF \/ \E j \in 1..Len(r.arr["bit"]) : r.arr["bit"][j].v = e.v
        \/ ~e.auto /\ e.k \notin 0..PosMax
        \/ ~e.auto /\ ~Raised_bits(e.k, r.next) /\ e.k \in used
        \/ e.auto /\ next > PosMax
     THEN Fail(r)
     ELSE [r EXCEPT !.arr["bit"] = SortedIn(@, b), !.next = IF e.auto THEN next + 1 ELSE next]

\* v_ is -1 when no value was stated, and also when the value stated is -1.
enum_value(r, e) ==
  LET used == {r.arr["enum"][j].k : j \in 1..Len(r.arr["enum"])}
      next == IF ~e.auto /\ Raised_enum(e.k, r.next) THEN e.k + 1 ELSE r.next
      assigned == e.auto \/ e.k = -1
      m == IF assigned THEN [e EXCEPT !.k = next, !.auto = TRUE] ELSE e
  IN IF \/ \E j \in 1..Len(r.arr["enum"]) : r.arr["enum"][j].v = e.v
        \/ ~e.auto /\ e.k > EnumMax
        \/ ~e.auto /\ ~Raised_enum(e.k, r.next) /\ e.k \in used
        \/ assigned /\ next > EnumMax
     THEN Fail(r)
     ELSE [r EXCEPT !.arr["enum"] = Append(@, m), !.next = IF assigned THEN next + 1 ELSE next]

\* The latest revision is kept at position 0; a second one of a date is reported, not refused.
latest_first(s, e) ==
  IF s # <<>> /\ e.k > s[1].k THEN Append(<<e>> \o Tail(s), s[1]) ELSE Append(s, e)

SecondStep(kind, r, e) ==
  LET row == ReadRow(kind)
      a == IF row.blind THEN CHOOSE n \in row.cnt : TRUE ELSE e.n
  IN IF ~r.ok \/ (~row.blind /\ e.n \notin row.fill) THEN r
     ELSE IF e.v = "bad" THEN Fail(r)
     ELSE
     CASE e.n = "bit" -> bit_position(r, e)
       [] e.n = "enum" -> enum_value(r, e)
       [] e.n = "revision" -> [r EXCEPT !.arr[a] = latest_first(@, e)]
       [] OTHER -> [r EXCEPT !.arr[a] = Append(@, e)]

\* LY_TREE_FOR: a loop takes the elements one after the other.
LoopStep(loop, kind, c, r, e) ==
  CASE loop = "common" -> CommonStep(kind, c, r, e)
    [] loop = "first" -> FirstStep(kind, c, r, e)
    [] loop = "second" -> SecondStep(kind, r, e)

Loop(loop, kind, c, r, s) ==
  LET upto[k \in 0..Len(s)] ==
        IF k = 0 THEN r ELSE LoopStep(loop, kind, c, upto[k - 1], s[k])
  IN  upto[Len(s)]

read_yin_common(kind, c, r) ==
  LET opt == ReadRow(kind).opt
      r1 == Loop("common", kind, c, [r EXCEPT !.left = <<>>], r.left)
  IN IF "common" \notin opt THEN r
     ELSE IF r1.conf = "none" /\ ("inherit" \in opt \/ ("resolve" \in opt /\ c.resolve))
     THEN [r1 EXCEPT !.conf = IF c.par = "none" THEN "true" ELSE c.conf]
     ELSE r1

first_loop(kind, c, r) ==
  CompleteOrFail(kind, c, Loop("first", kind, c, [r EXCEPT !.left = <<>>], r.left))

second_loop(kind, c, r) == Loop("second", kind, c, r, r.left)

\* The function that reads a child: fill_yin_augment reads a choice with read_yin_case.
ReadAs(kind, n) == IF kind = "augment" /\ n = "choice" THEN "case" ELSE n

\* Groupings of a module are read before its other nodes.
InOrder(kind, kids) ==
  LET IsGrouping(e) == e.n = "grouping"
      IsOther(e) == e.n # "grouping"
  IN IF kind \in {"module", "submodule"}
     THEN SelectSeq(kids, IsGrouping) \o SelectSeq(kids, IsOther)
     ELSE kids

data_loop(kind, r) ==
  LET kids == InOrder(kind, r.kids) IN
  IF \E i \in 1..Len(kids) : kids[i].v = "bad" THEN Fail(r)
  ELSE [r EXCEPT !.left = <<>>,
                 !.kids = [i \in 1..Len(kids) |-> Sub(ReadAs(kind, kids[i].n), "v")]]

\* The parts of a reader follow each other until one of them fails.
IfRead(r, F(_)) == IF r.ok THEN F(r) ELSE r
Reading(kind, c, subs) ==
  IfRead(IfRead(IfRead(read_yin_common(kind, c, Fresh(kind, c, subs)),
                       LAMBDA r : first_loop(kind, c, r)),
                LAMBDA r : second_loop(kind, c, r)),
         LAMBDA r : data_loop(kind, r))

-----------------------------------------------------------------------------
(* Printing *)

print_nacmext(c, r) ==
  LET above == IF c.par = "none" THEN {} ELSE c.nacm
      named == IF r.nacm = above THEN {} ELSE r.nacm \ above
  IN (IF "write" \in named THEN <<Sub("nacm", "write")>> ELSE <<>>)
       \o (IF "all" \in named THEN <<Sub("nacm", "all")>> ELSE <<>>)

\* mutant: config of a top level node is never printed
print_config_nested(kind, c, r) ==
  IF kind # "refine" /\ c.par # "none" /\ r.conf \notin {c.conf, "none"}
  THEN <<Sub("config", r.conf)>> ELSE <<>>
print_config(kind, c, r) ==
  IF \/ kind = "refine" /\ r.conf # "none"
     \/ kind # "refine" /\ c.par # "none" /\ r.conf \notin {c.conf, "none"}
     \/ kind # "refine" /\ c.par = "none" /\ r.conf = "false"
  THEN <<Sub("config", r.conf)>> ELSE <<>>

print_status(r) ==
  IF r.flags = {} THEN <<>>
  ELSE <<Sub("status", IF "current" \in r.flags THEN "current"
                       ELSE IF "deprecated" \in r.flags THEN "deprecated" ELSE "obsolete")>>

\* The branch of yin_print_refine on target_type, and the bits that say min and max are set
RefinePart(r, n) ==
  CASE n = "default" -> r.target \cap {"leaf", "choice"} # {} /\ Has(r, n)
    [] n = "presence" -> r.target = {"container"} /\ Has(r, n)
    [] n = "min-elements" -> r.target \cap {"leaf", "choice"} = {} /\ "current" \in r.flags
                               /\ r.target \cap {"list", "leaf-list"} # {}
    [] n = "max-elements" -> r.target \cap {"leaf", "choice"} = {} /\ "deprecated" \in r.flags
                               /\ r.target \cap {"list", "leaf-list"} # {}
    [] OTHER -> Has(r, n)

PrintPart(kind, c, r, n) ==
  CASE n = "nacm" -> print_nacmext(c, r)
    [] n = "config" -> print_config(kind, c, r)
    [] n = "status" -> print_status(r)
    [] n = "kids" -> SelectSeq(r.kids, LAMBDA e : e.n \in YinRow(kind).kids)
    [] n \in DOMAIN r.arr -> r.arr[n]
    [] OTHER -> IF ~(IF kind = "refine" THEN RefinePart(r, n) ELSE Has(r, n)) THEN <<>>
                ELSE <<IF Has(r, n) THEN r.one[n]
                        ELSE Num(n, IF n = "max-elements" THEN "unbounded" ELSE "num", 0)>>

Printed(kind, c, r, parts) ==
  FoldLeft(LAMBDA s, n : s \o PrintPart(kind, c, r, n), <<>>, parts)

-----------------------------------------------------------------------------
(* One action per part of a reader, then the printer and the second reading. *)

NoStmt == [kind |-> "none", arg |-> "none", subs |-> <<>>]

Init ==
  \E kind \in Kinds : \E c \in Places(kind) : \E s \in Inputs(kind) :
    /\ stmt = [kind |-> kind, arg |-> ReadRow(kind).arg, subs |-> s]
    /\ ctx = c
    /\ pc = "common"
    /\ w = Fresh(kind, c, s)
    /\ out = NoStmt

Part(from, to, r) ==
  /\ pc = from
  /\ w' = r
  /\ pc' = IF r.ok THEN to ELSE "error"
  /\ UNCHANGED <<stmt, ctx, out>>

ReadCommon == Part("common", "first", read_yin_common(stmt.kind, ctx, w))
FirstLoop == Part("first", "second", first_loop(stmt.kind, ctx, w))
SecondLoop == Part("second", "data", second_loop(stmt.kind, ctx, w))
DataLoop == Part("data", "read", data_loop(stmt.kind, w))

PrintModel ==
  /\ pc = "read"
  /\ pc' = "printed"
  /\ out' = [kind |-> stmt.kind, arg |-> YinRow(stmt.kind).arg,
             subs |-> Printed(stmt.kind, ctx, w, YinRow(stmt.kind).parts)]
  /\ UNCHANGED <<stmt, ctx, w>>

Next == ReadCommon \/ FirstLoop \/ SecondLoop \/ DataLoop \/ PrintModel
Spec == Init /\ [][Next]_vars

-----------------------------------------------------------------------------
(* Properties *)

Has_in(s, n) == \E i \in 1..Len(s) : s[i].n = n
Named(s, n) == SelectSeq(s, LAMBDA e : e.n = n)
Without(s, pairs) == \A i \in 1..Len(s) : <<stmt.kind, s[i].n>> \notin pairs
Ranged(s) == {s[i] : i \in 1..Len(s)}

\* The items allocated for an array are the items filled, so that nothing is written past an
\* array and no empty item is left in it: what the first loop counts is what the second one
\* stores (parser_yin.c, every pair of loops around a calloc).
ArraysFull ==
  \A n \in DOMAIN w.arr :
    /\ Len(w.arr[n]) <= w.cnt[n]
    /\ pc \in {"data", "read", "printed"} /\ Without(stmt.subs, Misread) => Len(w.arr[n]) = w.cnt[n]

\* What a statement says once is said in the structure, unless it is the default.
SaysDefault(e) ==
  \/ e.n = "ordered-by" /\ (e.v = "system" \/ w.conf = "false")
  \/ e.n \in {"min-elements", "max-elements"} /\ e.k = 0 /\ stmt.kind # "refine"

\* The structure a reader returns holds what the statement says and nothing else: the single
\* substatements, the arrays and the children in the order of the statement, the latest
\* revision first, config as stated or as the parent's, and the NACM marks of the node and of its parent.
Faithful ==
  pc = "read" /\ Without(stmt.subs, Misread) =>
    LET s == stmt.subs
        row == ReadRow(stmt.kind)
        common == IF "common" \in row.opt THEN {"description", "reference"} ELSE {}
        own == {e.v : e \in Ranged(Named(s, "nacm"))}
        kids == InOrder(stmt.kind, SelectSeq(s, LAMBDA e : e.n \in row.kids))
    IN /\ \A n \in row.one \cup common :
            IF Has_in(s, n) /\ ~SaysDefault(Last(Named(s, n)))
            THEN n \in DOMAIN w.one /\ w.one[n] = Last(Named(s, n)) ELSE n \notin DOMAIN w.one
       /\ \A n \in row.cnt :
            IF n = "bit" THEN Len(w.arr[n]) = Len(Named(s, n))
                                /\ {b.v : b \in Ranged(w.arr[n])} = {b.v : b \in Ranged(Named(s, n))}
            ELSE [i \in 1..Len(w.arr[n]) |-> w.arr[n][i].v]
                   = [i \in 1..Len(Named(s, n)) |-> Named(s, n)[i].v]
       /\ "revision" \in row.cnt => \A e \in Ranged(w.arr["revision"]) : e.k <= w.arr["revision"][1].k
       /\ [i \in 1..Len(w.kids) |-> w.kids[i].n] = [i \in 1..Len(kids) |-> kids[i].n]
       /\ stmt.kind # "refine" /\ "common" \in row.opt =>
            w.flags = {e.v : e \in Ranged(Named(s, "status"))}
       /\ "config" \in row.opt /\ Has_in(s, "config") => w.conf = Last(Named(s, "config")).v
       /\ w.nacm = IF MayNacm(stmt.kind, ctx)
                   THEN own \cup (IF "noparent" \in row.opt THEN {} ELSE ctx.nacm) ELSE {}

\* A statement the rules of the readers allow, said without their loops: no unknown name, nothing
\* single twice, no refused argument, everything required, and numbers and targets that fit.
WellFormed(kind, c, s) ==
  LET row == ReadRow(kind)
      common == IF "common" \in row.opt THEN Common ELSE {}
      config == IF "config" \in row.opt THEN {"config"} ELSE {}
      ignored == IgnoredNames(kind) \ (IF MayNacm(kind, c) THEN {"nacm"} ELSE {})
      single == row.one \cup common \cup config
      conf == IF Has_in(s, "config") /\ config # {} THEN Named(s, "config")[1].v
              ELSE IF "resolve" \in row.opt /\ c.resolve
                   THEN IF c.par = "none" THEN "true" ELSE c.conf ELSE "none"
      Stated(n) == Named(s, n) # <<>>
      K(n) == IF Stated(n) THEN Named(s, n)[1].k ELSE 0
      refined == {s[i].n : i \in 1..Len(s)} \cap (row.one \cup row.cnt)
  IN /\ \A e \in Ranged(s) :
          \/ e.n \in ignored
          \/ e.n = "ordered-by" /\ conf = "false" /\ e.n \in row.one
          \/ /\ e.n \in single \cup row.cnt \cup row.kids
                          \cup (IF "common" \in row.opt THEN {"nacm"} ELSE {})
             /\ e.v # "bad"
             /\ ~(e.n = "max-elements" /\ e.v = "num" /\ e.k = 0)
     /\ \A n \in single : <<kind, n>> # <<"import", "prefix">> => Len(Named(s, n)) <= 1
     /\ kind = "list" /\ conf = "true" => Stated("key")
     /\ kind \in {"list", "leaf-list"} /\ K("max-elements") # 0 => K("min-elements") <= K("max-elements")
     /\ kind = "refine" /\ refined # {} => \E t \in DataStmts : \A n \in refined : t \in RefineTargets(n)
     /\ \A e \in Ranged(Required(kind)) : e.n # "key" => Stated(e.n)
     /\ kind = "choice" /\ Stated("default") /\ Stated("mandatory") => Named(s, "mandatory")[1].v = "false"
     /\ kind \in {"type bits", "type enumeration", "type decimal64", "type leafref"} =>
          (c.derived <=> ~\E n \in {"bit", "enum", "fraction-digits", "path"} : Stated(n))
     /\ kind \in {"type identityref", "type union"} /\ ~c.derived => Stated("base") \/ Stated("type")
     /\ \A n \in {"bit", "enum"} : Len(Named(s, n)) = Cardinality({e.v : e \in Ranged(Named(s, n))})

\* Numbers apart, a statement is refused exactly if it is not well formed: no order of the
\* substatements hides a fault from the loops, and none makes them refuse a good statement.
RefusedIff ==
  stmt.kind \notin {"type bits", "type enumeration"} =>
    /\ pc = "error" => ~WellFormed(stmt.kind, ctx, stmt.subs)
    /\ pc = "read" => WellFormed(stmt.kind, ctx, stmt.subs)

\* No two bits of a type have the same position, whichever of them were stated and in whichever
\* order (the search of parser_yin.c:378 is skipped for a position above all before it), and a
\* value stated for an enum is not that of an enum before it.
NumbersUnique ==
  /\ "bit" \in DOMAIN w.arr =>
       LET a == w.arr["bit"] IN \A i, j \in 1..Len(a) : i < j => a[i].k < a[j].k
  /\ "enum" \in DOMAIN w.arr =>
       LET a == w.arr["enum"] IN \A i, j \in 1..Len(a) : i < j /\ ~a[j].auto => a[i].k # a[j].k

SameAsRead(r) ==
  /\ r.ok
  /\ r.one = w.one /\ r.arr = w.arr /\ r.kids = w.kids
  /\ r.conf = w.conf /\ r.nacm = w.nacm /\ r.flags = w.flags

\* What yin_print_* prints of a structure is read as an equal structure: the same argument
\* attribute, no refusal, and nothing lost or added, with everything that is inherited.
RoundTrip ==
  pc = "printed" /\ Without(stmt.subs, Misread \cup Unprinted) /\ <<stmt.kind, "argument">> \notin Unprinted =>
    out.arg = stmt.arg /\ SameAsRead(Reading(stmt.kind, ctx, out.subs))

\* The YANG printer and the YIN printer print the same substatements of a structure in the same
\* order: a part added to one of the two files is in the other one.
PrintersAgree ==
  pc = "printed" => Printed(stmt.kind, ctx, w, YangRow(stmt.kind)) = out.subs
=============================================================================
