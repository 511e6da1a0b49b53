------------------------------ MODULE Deviations ------------------------------
(***************************************************************************)
(* Deviations of a module (parser_yin.c, fill_yin_deviation), and taking   *)
(* them back for printing (printer.c, lys_switch_deviations) and when the  *)
(* deviating module turns out to be wrong (parser_yin.c, yin_read_module). *)
(*                                                                         *)
(* A deviation changes its target in place and keeps a shallow copy of the *)
(* original node.  The copy and the target change places, by the pointers  *)
(* of their neighbours (lys_node_switch), whenever the original module is  *)
(* wanted.  A target that is not supported is unlinked instead.            *)
(***************************************************************************)
EXTENDS Integers, Sequences, FiniteSets, SequencesExt

CONSTANTS Nodes,      \* the nodes of the deviated module
          Copies,     \* what lys_node_dup can return
          Kids,       \* [Nodes \cup {Root} -> Seq(Nodes)]: the tree as it was read
          Root, Null,
          Kind,       \* [Nodes -> kinds of schema nodes]
          Keys,       \* the leafs that are keys of a list
          Starts,     \* the properties the nodes can have at first, a set of functions on Nodes
          Stmts,      \* the deviation statements the modules can have
          MaxModules, \* deviating modules that are read
          MaxDevs,    \* deviations of one module
          Again,      \* whether a target may be deviated by a second deviation statement
          Lost        \* pairs <<mod, property>> the code is known not to apply

ASSUME SizesAssumption == MaxModules \in Nat /\ MaxDevs \in Nat

VARIABLES h,      \* the heap: next, prev, parent, child, name and properties, and module->data
          devs,   \* the deviations that are known, in the order of their modules
          pc,     \* "idle", "reading" a module, "failing", "printing" or "crashed"
          mods,   \* the number of modules that were read or begun
          saved,  \* history: the heap when the operation under way began
          marked, \* module->deviated
          ext     \* the imports marked external 2, with the modules that were freed since
vars == <<h, devs, pc, mods, saved, marked, ext>>

Objs == Nodes \cup Copies
Absent == "none"

-----------------------------------------------------------------------------
(* The tree and its pointers *)

IndexIn(s, n) == CHOOSE i \in 1..Len(s) : s[i] = n
ParentOf(n) == CHOOSE q \in Nodes \cup {Root} : \E i \in 1..Len(Kids[q]) : Kids[q][i] = n
FirstOf(s) == IF s = <<>> THEN Null ELSE s[1]

Linked(props) ==
  LET Sib(n) == Kids[ParentOf(n)]
      At(n) == IndexIn(Sib(n), n)
  IN [data |-> FirstOf(Kids[Root]),
      name |-> [o \in Objs |-> IF o \in Nodes THEN o ELSE Null],
      next |-> [o \in Objs |-> IF o \in Nodes /\ At(o) < Len(Sib(o)) THEN Sib(o)[At(o) + 1] ELSE Null],
      prev |-> [o \in Objs |-> IF o \notin Nodes THEN o
                               ELSE IF At(o) = 1 THEN Last(Sib(o)) ELSE Sib(o)[At(o) - 1]],
      parent |-> [o \in Objs |-> IF o \in Nodes /\ ParentOf(o) # Root THEN ParentOf(o) ELSE Null],
      child |-> [o \in Objs |-> IF o \in Nodes THEN FirstOf(Kids[o]) ELSE Null],
      p |-> [o \in Objs |-> props[IF o \in Nodes THEN o ELSE FirstOf(Kids[Root])]]]

\* The nodes a walk over the module finds, whatever its pointers are.
RECURSIVE Grown(_, _)
Grown(g, s) ==
  LET t == s \cup {g.next[o] : o \in s} \cup {g.child[o] : o \in s}
  IN IF t \ {Null} = s THEN s ELSE Grown(g, t \ {Null})
Reached(g) == Grown(g, {g.data} \ {Null})

\* resolve_augment_schema_nodeid; names are unique in the module, so a name is a path.
Resolve(g, n) ==
  IF \E o \in Reached(g) : g.name[o] = n
  THEN CHOOSE o \in Reached(g) : g.name[o] = n
  ELSE Null

lys_node_unlink(g, o) ==
  LET q == g.parent[o]
      g1 == IF g.data = o THEN [g EXCEPT !.data = g.next[o]] ELSE g
      g2 == IF q # Null
            THEN [g1 EXCEPT !.child[q] = IF @ = o THEN g.next[o] ELSE @, !.parent[o] = Null]
            ELSE g1
      first == IF q # Null THEN g2.child[q]
               ELSE CHOOSE f \in Objs : g2.next[g2.prev[f]] = Null /\ (f = o \/ g2.prev[f] = o)
      g3 == IF g2.next[o] # Null THEN [g2 EXCEPT !.prev[g2.next[o]] = g2.prev[o]]
            ELSE [g2 EXCEPT !.prev[first] = g2.prev[o]]
      g4 == IF g3.next[g3.prev[o]] # Null THEN [g3 EXCEPT !.next[g3.prev[o]] = g3.next[o]] ELSE g3
  IN IF g2.prev[o] = o THEN g2 ELSE [g4 EXCEPT !.next[o] = Null, !.prev[o] = o]

\* The end of lys_node_addchild, for a node that is in no tree.
lys_node_addchild(g, q, o) ==
  IF q = Null
  THEN IF g.data = Null THEN [g EXCEPT !.data = o]
       ELSE [g EXCEPT !.next[g.prev[g.data]] = o, !.prev[o] = g.prev[g.data], !.prev[g.data] = o]
  ELSE IF g.child[q] = Null THEN [g EXCEPT !.child[q] = o, !.parent[o] = q]
  ELSE [g EXCEPT !.next[g.prev[g.child[q]]] = o, !.prev[o] = g.prev[g.child[q]],
                 !.parent[o] = q, !.prev[g.child[q]] = o]

lys_node_switch(g, dst, src) ==
  LET g1 == IF g.prev[dst] # dst THEN [g EXCEPT !.next[g.prev[dst]] = src] ELSE g
      g2 == IF g1.next[dst] # Null THEN [g1 EXCEPT !.prev[g1.next[dst]] = src] ELSE g1
      g3 == IF g2.next[dst] = Null /\ g2.parent[dst] # Null
            THEN [g2 EXCEPT !.prev[g2.child[g2.parent[dst]]] = src] ELSE g2
      g4 == [g3 EXCEPT !.next[src] = g3.next[dst], !.next[dst] = Null]
      g5 == IF g4.prev[dst] # dst THEN [g4 EXCEPT !.prev[src] = g4.prev[dst]] ELSE g4
      q == g5.parent[dst]
      g6 == IF q # Null THEN [g5 EXCEPT !.child[q] = IF @ = dst THEN src ELSE @] ELSE g5
      Moved(o) == IF o = src THEN q ELSE IF o = dst THEN Null
                  ELSE IF g6.parent[o] = dst THEN src ELSE g6.parent[o]
  IN [g6 EXCEPT !.prev[dst] = dst, !.parent = [o \in Objs |-> Moved(o)],
                !.child[src] = g6.child[dst], !.child[dst] = Null]

\* mutant: the copy shares no restrictions with the node
shallow_copy_must(g, o, c) ==
  [g EXCEPT !.name[c] = g.name[o], !.p[c] = [g.p[o] EXCEPT !.must = <<>>], !.next[c] = Null,
            !.prev[c] = c, !.parent[c] = Null, !.child[c] = Null]
\* lys_node_dup with shallow set: a node of its own with the same properties.
shallow_copy(g, o, c) ==
  [g EXCEPT !.name[c] = g.name[o], !.p[c] = g.p[o], !.next[c] = Null, !.prev[c] = c,
            !.parent[c] = Null, !.child[c] = Null]

-----------------------------------------------------------------------------
(* The properties of one deviate statement.  r holds the target's          *)
(* properties p, what this deviate has stated (seen), whether the variable *)
(* list points to the target, and how it ends.                             *)

Fail(r) == [r EXCEPT !.end = "error"]
Running(r) == r.end = "ok"

Allowed(kind, n) ==
  CASE n = "config" -> TRUE
    [] n = "default" -> kind \in {"leaf", "choice"}
    [] n = "mandatory" -> kind \in {"leaf", "choice", "anyxml"}
    [] n \in {"min", "max"} -> kind \in {"list", "leaf-list"}
    [] n \in {"type", "units"} -> kind \in {"leaf", "leaf-list"}
    [] n = "must" -> kind \in {"leaf", "container", "leaf-list", "list", "anyxml"}
    [] n = "unique" -> kind = "list"
    [] OTHER -> FALSE

\* What the target has after a delete: config is inherited again, the default of a choice and
\* the pointer to the units are left as they are.
Deleted(kind, above, r, e) ==
  CASE e.n = "config" -> above
    [] e.n = "default" /\ kind = "choice" -> r.p[e.n]
    [] e.n = "units" -> r.p[e.n]
    [] OTHER -> Absent

\* config is inherited, so every node has it and it can be added nevertheless
Exists(mod, r, e) == mod = "add" /\ e.n # "config" /\ r.p[e.n] # Absent

single_property(kind, above, mod, r, e) ==
  IF \/ ~Allowed(kind, e.n) \/ e.n \in r.seen \/ e.v = "bad"
     \/ Exists(mod, r, e)
     \/ mod = "delete" /\ (e.n = "type" \/ r.p[e.n] # e.v)
  THEN Fail(r)
  ELSE [r EXCEPT !.seen = @ \cup {e.n},
                 !.p[e.n] = IF mod = "delete" THEN Deleted(kind, above, r, e) ELSE e.v]

\* mutant: the last item is dropped and the deleted one stays
WithoutItem_last(s, i) == SubSeq(s, 1, Len(s) - 1)
\* The item is overwritten by the last one of the array.
WithoutItem(s, i) == SubSeq([s EXCEPT ![i] = Last(s)], 1, Len(s) - 1)
delete_item(r, e) ==
  IF \E i \in 1..Len(r.p[e.n]) : r.p[e.n][i] = e.v
  THEN LET i == CHOOSE i \in 1..Len(r.p[e.n]) :
                  r.p[e.n][i] = e.v /\ \A j \in 1..(i - 1) : r.p[e.n][j] # e.v
       IN [r EXCEPT !.p[e.n] = WithoutItem(@, i)]
  ELSE Fail(r)

\* Before the arrays are filled: replace drops what is there.  The loop over the musts takes
\* their number from the variable list, which is only set by a unique statement before, and
\* takes every must but the first from beyond the pointer to the array.
array_begin(kind, mod, r, n, es) ==
  IF es = <<>> \/ ~Running(r) THEN r
  ELSE IF ~Allowed(kind, n) \/ (mod = "replace" /\ r.p[n] = <<>>) THEN Fail(r)
  ELSE IF n = "must" /\ mod = "replace" /\ (~r.list \/ Len(r.p[n]) > 1) THEN [r EXCEPT !.end = "crash"]
  ELSE [r EXCEPT !.p[n] = IF mod = "replace" THEN <<>> ELSE @, !.list = @ \/ n = "unique"]

array_item(mod, r, e) ==
  IF ~Running(r) THEN r
  ELSE IF mod = "delete" THEN delete_item(r, e)
  ELSE [r EXCEPT !.p[e.n] = Append(@, e.v)]

Arrays == {"must", "unique"}

one_deviate(kind, above, r, d) ==
  LET single == SelectSeq(d.subs, LAMBDA e : e.n \notin Arrays)
      many == SelectSeq(d.subs, LAMBDA e : e.n \in Arrays)
      Only(n) == SelectSeq(d.subs, LAMBDA e : e.n = n)
      r1 == FoldLeft(LAMBDA x, e : IF Running(x) THEN single_property(kind, above, d.mod, x, e) ELSE x,
                     [r EXCEPT !.seen = {}], single)
      r2 == array_begin(kind, d.mod, r1, "must", Only("must"))
      r3 == array_begin(kind, d.mod, r2, "unique", Only("unique"))
  IN CASE ~Running(r) -> r
       [] d.mod = "not-supported" -> Fail(r)
       [] OTHER -> FoldLeft(LAMBDA x, e : array_item(d.mod, x, e), r3, many)

\* All deviate statements of a deviation of target o.
all_deviates(g, o, ds) ==
  LET above == IF g.parent[o] = Null THEN "true" ELSE g.p[g.parent[o]].config
  IN FoldLeft(LAMBDA r, d : one_deviate(Kind[g.name[o]], above, r, d),
              [end |-> "ok", p |-> g.p[o], seen |-> {}, list |-> FALSE], ds)

Unsupported(s) == s.deviates[1].mod = "not-supported"

-----------------------------------------------------------------------------
(* Actions *)

Dev(s, no, orig) == [mod |-> mods, target |-> s.target, no |-> no, orig |-> orig, stmt |-> s]
Untouched(n) == Again \/ ~\E i \in 1..Len(devs) : devs[i].target = n
OwnDevs == SelectSeq(devs, LAMBDA d : d.mod = mods)

Init ==
  /\ \E props \in Starts : h = Linked(props)
  /\ devs = <<>> /\ pc = "idle" /\ mods = 0 /\ marked = FALSE
  /\ saved = h /\ ext = [used |-> {}, freed |-> {}]

\* read_sub_module begins to read a module with deviations.
BeginModule ==
  /\ pc = "idle" /\ mods < MaxModules
  /\ pc' = "reading" /\ mods' = mods + 1 /\ saved' = h
  /\ UNCHANGED <<h, devs, marked, ext>>

\* A target that does not exist: the error path frees a deviation that has no deviates yet,
\* and lys_deviation_free looks at the first one.
DeviateNothing(s) ==
  /\ pc = "reading" /\ Len(OwnDevs) < MaxDevs /\ Resolve(h, s.target) = Null
  /\ pc' = "crashed"
  /\ UNCHANGED <<h, devs, mods, saved, marked, ext>>

\* One deviation that makes its target not supported; it stands alone.
DeviateNo(s) ==
  LET o == Resolve(h, s.target) IN
  /\ pc = "reading" /\ Len(OwnDevs) < MaxDevs /\ Untouched(s.target)
  /\ o # Null /\ Unsupported(s)
  /\ marked' = TRUE /\ ext' = [ext EXCEPT !.used = @ \cup {mods}]
  /\ IF Len(s.deviates) > 1 \/ h.name[o] \in Keys
     THEN h' = h /\ devs' = Append(devs, Dev(s, TRUE, Null)) /\ pc' = "failing"
     ELSE h' = lys_node_unlink(h, o) /\ devs' = Append(devs, Dev(s, TRUE, o)) /\ pc' = pc
  /\ UNCHANGED <<mods, saved>>

\* One deviation that adds, replaces or deletes properties.  What an error leaves behind is
\* left to the error path of the module.
Deviate(s) ==
  LET o == Resolve(h, s.target)
      free == {c \in Copies : h.name[c] = Null}
      r == all_deviates(h, o, s.deviates)
  IN /\ pc = "reading" /\ Len(OwnDevs) < MaxDevs /\ Untouched(s.target)
     /\ o # Null /\ ~Unsupported(s) /\ free # {}
     /\ marked' = TRUE /\ ext' = [ext EXCEPT !.used = @ \cup {mods}]
     /\ LET c == CHOOSE c \in free : TRUE
            g == shallow_copy(h, o, c)
        IN /\ h' = [g EXCEPT !.p[o] = r.p]
           /\ devs' = Append(devs, Dev(s, FALSE, c))
     /\ pc' = CASE r.end = "ok" -> pc [] r.end = "error" -> "failing" [] r.end = "crash" -> "crashed"
     /\ UNCHANGED <<mods, saved>>

EndModule == pc = "reading" /\ pc' = "idle" /\ UNCHANGED <<h, devs, mods, saved, marked, ext>>

\* Another statement of the module is wrong.
OtherError == pc = "reading" /\ pc' = "failing" /\ UNCHANGED <<h, devs, mods, saved, marked, ext>>

remove_deviation(g, d) ==
  IF d.orig = Null THEN g ELSE lys_node_switch(g, Resolve(g, d.target), d.orig)

\* lys_deviation_free, called for the module that is freed: orig_node is freed and leaves its
\* tree, even if it was just put there.
free_deviation(g, d) ==
  IF d.orig = Null THEN g ELSE [lys_node_unlink(g, d.orig) EXCEPT !.data = g.data]

\* The error path of yin_read_module.  A target that is not supported is not found, and elem is
\* whatever it was before.  The import that marks the module as deviating stays.
RemoveDeviations ==
  /\ pc = "failing"
  /\ IF \E i \in 1..Len(OwnDevs) : OwnDevs[i].no /\ OwnDevs[i].orig # Null
     THEN pc' = "crashed" /\ UNCHANGED <<h, devs, ext>>
     ELSE /\ h' = FoldLeft(free_deviation, FoldLeft(remove_deviation, h, OwnDevs), OwnDevs)
          /\ devs' = SelectSeq(devs, LAMBDA d : d.mod # mods)
          /\ ext' = [ext EXCEPT !.freed = @ \cup {mods}]
          /\ pc' = "idle"
  /\ UNCHANGED <<mods, saved, marked>>

\* mutant: dev->orig_node keeps the node that was put into the tree
kept_node_never(d, o) == d
kept_node(d, o) == [d EXCEPT !.orig = o]

\* One turn of the loop of lys_switch_deviations.
switch_one(x, d) ==
  LET g == x.h
      q == IF ParentOf(d.target) = Root THEN Null ELSE Resolve(g, ParentOf(d.target))
      o == Resolve(g, d.target)
      Turn(g2, orig) == [h |-> g2, devs |-> Append(x.devs, kept_node(d, orig))]
  IN CASE d.no /\ d.orig # Null ->
            IF q = Null /\ ParentOf(d.target) # Root THEN Turn(g, d.orig)
            ELSE Turn(lys_node_addchild(g, q, d.orig), Null)
       [] o = Null -> Turn(g, d.orig)
       [] d.no /\ d.orig = Null /\ o # Null -> Turn(lys_node_unlink(g, o), o)
       [] OTHER -> Turn(lys_node_switch(g, o, d.orig), o)

lys_switch_deviations(from, to) ==
  LET x == FoldLeft(switch_one, [h |-> h, devs |-> <<>>], devs) IN
  /\ pc = from
  /\ IF ext.used \cap ext.freed # {}
     THEN pc' = "crashed" /\ UNCHANGED <<h, devs, marked>>
     ELSE /\ pc' = to /\ h' = x.h /\ devs' = x.devs
          /\ marked' = IF ext.used = {} THEN marked ELSE ~marked
  /\ UNCHANGED <<mods, ext>>

\* lys_print_ with the format YIN or YANG: the original module is put in place, printed, and
\* the deviated one is put back, whether printing worked or not.
PrintBegin == lys_switch_deviations("idle", "printing") /\ saved' = h
PrintEnd == lys_switch_deviations("printing", "idle") /\ saved' = saved

Next ==
  \/ BeginModule \/ EndModule \/ OtherError \/ RemoveDeviations
  \/ \E s \in Stmts : DeviateNothing(s) \/ DeviateNo(s) \/ Deviate(s)
  \/ PrintBegin \/ PrintEnd
Spec == Init /\ [][Next]_vars

-----------------------------------------------------------------------------
(* Properties *)

\* The siblings from o on, cut when they do not end.
Level(g, o) ==
  LET f[n \in 0..Cardinality(Objs)] ==
        IF n = 0 THEN <<o>>
        ELSE LET s == f[n - 1] IN IF g.next[Last(s)] = Null THEN s ELSE Append(s, g.next[Last(s)])
  IN IF o = Null THEN <<>> ELSE f[Cardinality(Objs)]
NamesOf(g, s) == [i \in 1..Len(s) |-> g.name[s[i]]]

\* What a walk over the module sees: the nodes with their children in order and properties.
View(g) ==
  [top |-> NamesOf(g, Level(g, g.data)),
   node |-> [n \in {g.name[o] : o \in Reached(g)} |->
              LET o == Resolve(g, n)
              IN [kids |-> NamesOf(g, Level(g, g.child[o])), p |-> g.p[o],
                  up |-> IF g.parent[o] = Null THEN Null ELSE g.name[g.parent[o]]]]]

\* Every list of siblings ends, and prev leads back through it from its first node.
Rings(g) ==
  \A first \in {g.data} \cup {g.child[o] : o \in Reached(g)} :
    LET s == Level(g, first) IN
    first # Null =>
      /\ g.next[Last(s)] = Null /\ g.prev[s[1]] = Last(s)
      /\ \A i \in 2..Len(s) : g.prev[s[i]] = s[i - 1]

\* Printing a module leaves it as it was: after the second exchange of lys_print_ a walk sees the
\* same nodes, order and properties, the sibling lists are sound, and the module is marked as
\* deviated exactly if deviations are applied (printer.c:126).
PrintRestores ==
  [][PrintEnd /\ pc' = "idle" => View(h') = View(saved) /\ Rings(h') /\ marked' = (ext.used # {})]_vars

\* The module that is printed is the one without deviations: every node has the properties and
\* the place it was read with, and only the order of nodes that were not supported may differ.
PrintedOriginal ==
  pc = "printing" =>
    LET v == View(h)
        Same(s, t) == Len(s) = Len(t) /\ {s[i] : i \in 1..Len(s)} = {t[i] : i \in 1..Len(t)}
    IN /\ Same(v.top, Kids[Root]) /\ DOMAIN v.node = Nodes /\ Rings(h) /\ ~(marked /\ devs # <<>>)
       /\ \E props \in Starts : \A n \in Nodes : v.node[n].p = props[n] /\ Same(v.node[n].kids, Kids[n])

\* The meaning of a deviate on one property: RFC 6020, 7.18.3.2, as far as the reader follows it.
RefItems(s, mod, vs) ==
  CASE mod = "add" -> s \o vs [] mod = "replace" -> vs
    [] mod = "delete" -> FoldLeft(RemoveFirst, s, vs)
RefProp(p, n, d, above) ==
  LET es == SelectSeq(d.subs, LAMBDA e : e.n = n)
      vs == [i \in 1..Len(es) |-> es[i].v]
  IN IF es = <<>> THEN p[n]
     ELSE IF n \in Arrays THEN RefItems(p[n], d.mod, vs)
     ELSE IF d.mod # "delete" THEN vs[1] ELSE IF n = "config" THEN above ELSE Absent
RefApplied(p, ds, above) ==
  FoldLeft(LAMBDA q, d : [n \in DOMAIN q |-> RefProp(q, n, d, above)], p, ds)
Bag(s) == [x \in {s[i] : i \in 1..Len(s)} |-> Cardinality({i \in 1..Len(s) : s[i] = x})]
SameProps(p, q) ==
  \A n \in DOMAIN p : IF n \in Arrays THEN Bag(p[n]) = Bag(q[n]) ELSE p[n] = q[n]
Faultless(s) ==
  \A i \in 1..Len(s.deviates) : \A j \in 1..Len(s.deviates[i].subs) :
    <<s.deviates[i].mod, s.deviates[i].subs[j].n>> \notin Lost

\* A deviation that is accepted has exactly the effect of its deviate statements in their order,
\* on its target and on nothing else.
Applied ==
  [][pc = "reading" /\ pc' = "reading" /\ ~Last(devs').no /\ Faultless(Last(devs').stmt) =>
       LET s == Last(devs').stmt
           o == Resolve(h, s.target)
           above == IF h.parent[o] = Null THEN "true" ELSE h.p[h.parent[o]].config
           before == View(h).node
           after == View(h').node
       IN /\ SameProps(after[s.target].p, RefApplied(h.p[o], s.deviates, above))
          /\ [before EXCEPT ![s.target].p = 0] = [after EXCEPT ![s.target].p = 0]]_vars

\* A module that is refused leaves the modules it deviates as they were: "remove applied
\* deviations" (parser_yin.c:5467).
RejectedRestores ==
  [][RemoveDeviations /\ pc' = "idle" => View(h') = View(saved)]_vars
=============================================================================
