-------------------------------- MODULE Uses --------------------------------
(***************************************************************************)
(* Groupings, uses and derived types, and the list of unresolved schema    *)
(* items that lets them refer forward (src/src/resolve.c, tree_schema.c,   *)
(* parser_yin.c).  A uses is resolved by copying the nodes of its          *)
(* grouping.  A grouping must not be copied while a uses in it is          *)
(* unresolved; that is what its nacm byte counts.  What is left after the  *)
(* module has been read is tried again and again until nothing changes.    *)
(*                                                                         *)
(* A schema is its typedefs, its groupings and its data nodes in the order *)
(* they are read; a node is a leaf with the name of its type or a uses     *)
(* with the name of its grouping.  A node is the path to it: the grouping  *)
(* (or the data tree) and the position at each level.  Each uses stands    *)
(* for a container with that uses in it, so the names of copied nodes      *)
(* never clash (lys_check_id is not part of this module).  Left out are    *)
(* refine and augment, the status check and groupings in groupings.        *)
(***************************************************************************)
EXTENDS Integers, Sequences, FiniteSets, SequencesExt, Closure

CONSTANTS
  Schemas,   \* the documents: [tpdfs, grps, data]
  Data,      \* the root of data nodes
  Builtin,   \* names of the built-in types
  NacmMod    \* 2 ^ width of lys_node.nacm

ASSUME NacmType == NacmMod \in Nat /\ NacmMod > 1

NodeStmt == [kind : {"leaf", "uses"}, arg : STRING]
OnceNamed(s) == \A j, k \in DOMAIN s : s[j].name = s[k].name => j = k

\* Names are not used twice: lyp_check_identifier and lys_check_id refuse that.
ASSUME SchemasType ==
  \A s \in Schemas :
    /\ s.tpdfs \in Seq([name : STRING, type : STRING]) /\ OnceNamed(s.tpdfs)
    /\ s.grps \in Seq([name : STRING, body : Seq(NodeStmt)]) /\ OnceNamed(s.grps)
    /\ s.data \in Seq(NodeStmt)
    /\ \A k \in DOMAIN s.tpdfs : s.tpdfs[k].name \notin Builtin
    /\ \A k \in DOMAIN s.grps : s.grps[k].name # Data

\* No grouping has more nodes than the counter of its unresolved uses can tell.
CountersSuffice ==
  \A s \in Schemas : \A k \in DOMAIN s.grps : Len(s.grps[k].body) < NacmMod

VARIABLES
  schema,      \* the document being read
  at,          \* what is read of it: 0 the typedefs, k the grouping k, then the data
  pos,         \* statements of that read so far
  base,        \* typedefs whose type has its base set
  grps,        \* groupings added to the module
  nacm,        \* grouping -> its nacm byte
  tree,        \* path -> [kind, arg, res]: res when resolved
  unres,       \* struct unres_schema: [kind, item, done]
  todo,        \* calls to make before the current one returns, next one first
  i,           \* loop variable of resolve_unres_schema
  unres_count, \* its two counters
  res_count,
  status       \* "parse", "resolve", "ok", "error", or "lost" in a recursion

vars == <<schema, at, pos, base, grps, nacm, tree, unres, todo, i, unres_count, res_count, status>>

Grps == {schema.grps[k].name : k \in DOMAIN schema.grps}
Tpdfs == {schema.tpdfs[k].name : k \in DOMAIN schema.tpdfs}

\* The sections of the document in the order read_sub_module gets to them: the
\* typedefs, the body of each grouping, the data nodes.
DataAt == Len(schema.grps) + 1
Root(k) == IF k = DataAt THEN Data ELSE schema.grps[k].name
Section(k) ==
  IF k = 0 THEN schema.tpdfs ELSE IF k = DataAt THEN schema.data ELSE schema.grps[k].body

Init ==
  /\ schema \in Schemas
  /\ at = 0 /\ pos = 0 /\ base = {} /\ grps = {} /\ tree = << >> /\ unres = << >> /\ todo = << >>
  /\ nacm = [g \in Grps |-> 0]
  /\ i = 0 /\ unres_count = 0 /\ res_count = 0
  /\ status = "parse"

Below(p) == {q \in DOMAIN tree : Len(q) > Len(p) /\ SubSeq(q, 1, Len(p)) = p}

-----------------------------------------------------------------------------
(* Mutants of the definitions below.                                       *)

Copyable_any(p) == tree[p].arg \in grps
Again_never == FALSE
Again_always == res_count < unres_count

-----------------------------------------------------------------------------
(* resolve.c: resolve_unres_schema_uses, resolve_uses; tree_schema.c:      *)
(* lys_node_dup, lys_type_dup                                              *)

\* resolve_superior_type: a typedef counts once its own base is known.
TypeKnown(t) == t \in Builtin \/ t \in base

\* The grouping exists and has no unresolved uses.
Copyable(p) == tree[p].arg \in grps /\ nacm[tree[p].arg] = 0

\* A nested grouping counts the uses in it that wait; only the first try of a
\* uses adds to the number.
Incremented(p, first) ==
  IF first /\ p[1] # Data THEN [nacm EXCEPT ![p[1]] = (@ + 1) % NacmMod] ELSE nacm

\* What lys_node_dup cannot finish for a copy: a leaf whose type is on the list
\* and a uses without children are tried again in their new place.
Unfinished(q) ==
  \/ tree[q].kind = "leaf" /\ ~tree[q].res
  \/ tree[q].kind = "uses" /\ Below(q) = {}

\* The copies of the nodes of the grouping, below the uses p.
Copies(p) == {p \o Tail(q) : q \in Below(<<tree[p].arg>>)}
Origin(p, c) == <<tree[p].arg>> \o SubSeq(c, Len(p) + 1, Len(c))

\* Nodes of one root in the order of the document.
Before(a, b) ==
  \E n \in 2..Len(b) :
    /\ n > Len(a) \/ a[n] < b[n]
    /\ \A k \in 2..(n - 1) : k <= Len(a) /\ a[k] = b[k]
Rank(S, c) == Cardinality({e \in S : Before(e, c)})
InOrder(S) == [k \in 1..Cardinality(S) |-> CHOOSE c \in S : Rank(S, c) = k - 1]

Call(op, path, first) == [op |-> op, path |-> path, first |-> first]
Calling == todo # << >> /\ status \in {"parse", "resolve"}

\* resolve_uses.  A uses that is itself in the grouping is below the node it
\* copies, so lys_node_dup meets its own copies and does not end.
resolve_uses(p, first) ==
  IF p[1] = tree[p].arg
  THEN status' = "lost" /\ UNCHANGED <<tree, todo>>
  ELSE LET C == Copies(p)
           again == {c \in C : Unfinished(Origin(p, c))}
           tries == InOrder(again)
       IN  /\ tree' = [c \in DOMAIN tree \cup C |->
                        IF c \in C THEN [tree[Origin(p, c)] EXCEPT !.res = @ /\ c \notin again]
                        ELSE tree[c]]
           /\ todo' = [k \in DOMAIN tries |-> Call("try", tries[k], TRUE)]
                      \o <<Call("end", p, first)>> \o (IF todo = << >> THEN << >> ELSE Tail(todo))
           /\ UNCHANGED status

\* unres_schema_add_node: the item could not be resolved, keep it for later.
Queue(kind, item) == unres' = Append(unres, [kind |-> kind, item |-> item, done |-> FALSE])

\* unres_schema_add_node of the first call of todo.
AddNode ==
  /\ Calling /\ Head(todo).op = "try"
  /\ LET p == Head(todo).path
     IN  IF tree[p].kind = "leaf"
         THEN /\ todo' = Tail(todo)
              /\ IF TypeKnown(tree[p].arg)
                 THEN tree' = [tree EXCEPT ![p].res = TRUE] /\ UNCHANGED unres
                 ELSE Queue("type", p) /\ UNCHANGED tree
              /\ UNCHANGED <<nacm, status>>
         ELSE IF Copyable(p)
              THEN resolve_uses(p, TRUE) /\ UNCHANGED <<nacm, unres>>
              ELSE /\ nacm' = Incremented(p, TRUE) /\ Queue("uses", p) /\ todo' = Tail(todo)
                   /\ UNCHANGED <<tree, status>>
  /\ UNCHANGED <<schema, at, pos, base, grps, i, unres_count, res_count>>

\* resolve_uses returned.  A uses from the list is taken off the number of its
\* grouping, which must not be 0.
UsesResolved ==
  /\ Calling /\ Head(todo).op = "end"
  /\ LET p == Head(todo).path
     IN  /\ todo' = Tail(todo)
         /\ IF Head(todo).first
            THEN /\ tree' = [tree EXCEPT ![p].res = TRUE]
                 /\ UNCHANGED <<nacm, unres, i, res_count, status>>
            ELSE IF p[1] # Data /\ nacm[p[1]] = 0
            THEN status' = "error" /\ UNCHANGED <<nacm, tree, unres, i, res_count>>
            ELSE /\ nacm' = IF p[1] = Data THEN nacm ELSE [nacm EXCEPT ![p[1]] = @ - 1]
                 /\ tree' = [tree EXCEPT ![p].res = TRUE]
                 /\ unres' = [unres EXCEPT ![i].done = TRUE]
                 /\ i' = i + 1 /\ res_count' = res_count + 1
                 /\ UNCHANGED status
  /\ UNCHANGED <<schema, at, pos, base, grps, unres_count>>

-----------------------------------------------------------------------------
(* parser_yin.c: read_sub_module and what it calls                         *)

Reading == status = "parse" /\ todo = << >> /\ pos < Len(Section(at))
SectionRead == status = "parse" /\ todo = << >> /\ pos = Len(Section(at))
Stmt == Section(at)[pos + 1]

fill_yin_typedef ==
  /\ Reading /\ at = 0
  /\ IF TypeKnown(Stmt.type)
     THEN base' = base \cup {Stmt.name} /\ UNCHANGED unres
     ELSE Queue("typedef", Stmt) /\ UNCHANGED base
  /\ pos' = pos + 1
  /\ UNCHANGED <<schema, at, grps, nacm, tree, todo, i, unres_count, res_count, status>>

\* The grouping is in the module before its nodes are read.
read_yin_grouping ==
  /\ SectionRead /\ at < Len(schema.grps)
  /\ at' = at + 1 /\ pos' = 0
  /\ grps' = grps \cup {Root(at + 1)}
  /\ UNCHANGED <<schema, base, nacm, tree, unres, todo, i, unres_count, res_count, status>>

\* The loop over the data definition statements follows.
read_data ==
  /\ SectionRead /\ at = Len(schema.grps)
  /\ at' = at + 1 /\ pos' = 0
  /\ UNCHANGED <<schema, base, grps, nacm, tree, unres, todo, i, unres_count, res_count, status>>

\* read_yin_leaf and read_yin_uses, up to their call of unres_schema_add_node.
read_yin_node ==
  /\ Reading /\ at # 0
  /\ LET new == <<Root(at), pos + 1>>
     IN  /\ tree' = [p \in DOMAIN tree \cup {new} |->
                      IF p = new THEN [kind |-> Stmt.kind, arg |-> Stmt.arg, res |-> FALSE]
                      ELSE tree[p]]
         /\ todo' = <<Call("try", new, TRUE)>>
  /\ pos' = pos + 1
  /\ UNCHANGED <<schema, at, base, grps, nacm, unres, i, unres_count, res_count, status>>

-----------------------------------------------------------------------------
(* resolve.c: resolve_unres_schema                                         *)

NextPass == i' = 1 /\ unres_count' = 0 /\ res_count' = 0

\* yin_read_module: the list is resolved when there is something on it.
ReadEnds ==
  /\ SectionRead /\ at = DataAt
  /\ IF unres = << >>
     THEN status' = "ok" /\ UNCHANGED <<i, unres_count, res_count>>
     ELSE status' = "resolve" /\ NextPass
  /\ UNCHANGED <<schema, at, pos, base, grps, nacm, tree, unres, todo>>

\* An item that is a type: fill_yin_type of a typedef or of a leaf.
ResolveType(u) ==
  LET name == IF u.kind = "typedef" THEN u.item.type ELSE tree[u.item].arg
  IN  /\ IF TypeKnown(name)
         THEN /\ unres' = [unres EXCEPT ![i].done = TRUE]
              /\ res_count' = res_count + 1
              /\ IF u.kind = "typedef"
                 THEN base' = base \cup {u.item.name} /\ UNCHANGED tree
                 ELSE tree' = [tree EXCEPT ![u.item].res = TRUE] /\ UNCHANGED base
         ELSE UNCHANGED <<unres, res_count, base, tree>>
      /\ i' = i + 1
      /\ UNCHANGED <<nacm, todo, status>>

ResolveUses(u) ==
  /\ IF Copyable(u.item)
     THEN resolve_uses(u.item, FALSE) /\ UNCHANGED <<i, nacm>>
     ELSE /\ nacm' = Incremented(u.item, FALSE) /\ i' = i + 1
          /\ UNCHANGED <<tree, todo, status>>
  /\ UNCHANGED <<unres, res_count, base>>

\* One turn of the inner loop; the list may have grown since the last one.
ResolveItem ==
  /\ status = "resolve" /\ todo = << >> /\ i <= Len(unres)
  /\ IF unres[i].done
     THEN i' = i + 1 /\ UNCHANGED <<base, nacm, tree, unres, todo, unres_count, res_count, status>>
     ELSE /\ unres_count' = unres_count + 1
          /\ IF unres[i].kind = "uses" THEN ResolveUses(unres[i]) ELSE ResolveType(unres[i])
  /\ UNCHANGED <<schema, at, pos, grps>>

Again == res_count # 0 /\ res_count < unres_count
Stuck == res_count < unres_count

PassEnds ==
  /\ status = "resolve" /\ todo = << >> /\ i > Len(unres)
  /\ IF Again
     THEN NextPass /\ UNCHANGED status
     ELSE status' = (IF Stuck THEN "error" ELSE "ok") /\ UNCHANGED <<i, unres_count, res_count>>
  /\ UNCHANGED <<schema, at, pos, base, grps, nacm, tree, unres, todo>>

Done == status \in {"ok", "error", "lost"} /\ UNCHANGED vars

Next ==
  \/ fill_yin_typedef \/ read_yin_grouping \/ read_data \/ read_yin_node
  \/ AddNode \/ UsesResolved
  \/ ReadEnds \/ ResolveItem \/ PassEnds
  \/ Done

\* The calls of one thread go on until the module is read.
Spec == Init /\ [][Next]_vars /\ WF_vars(Next)

-----------------------------------------------------------------------------
(* Properties                                                              *)

TypeOK ==
  /\ at \in 0..DataAt /\ pos \in 0..Len(Section(at)) /\ base \subseteq Tpdfs /\ grps \subseteq Grps
  /\ nacm \in [Grps -> 0..(NacmMod - 1)]
  /\ \A p \in DOMAIN tree : tree[p].kind \in {"leaf", "uses"} /\ tree[p].res \in BOOLEAN
  /\ \A k \in DOMAIN unres : unres[k].kind \in {"typedef", "type", "uses"}
  /\ \A k \in DOMAIN todo : todo[k].path \in DOMAIN tree
  /\ i \in Nat /\ unres_count \in Nat /\ res_count \in 0..unres_count
  /\ status \in {"parse", "resolve", "ok", "error", "lost"}

Waiting(g) == {k \in DOMAIN unres : unres[k].kind = "uses" /\ ~unres[k].done /\ unres[k].item[1] = g}

\* The nacm byte of a grouping is the number of its uses that wait on the list,
\* as far as a byte can tell: the tries of an item, first or later, successful
\* or not, and the copies that are queued for it keep the two together.
NacmExact == \A g \in Grps : nacm[g] = Cardinality(Waiting(g)) % NacmMod

\* A resolved uses has a copy of every node its grouping has, at any depth and
\* at any time between two items: no grouping was copied too early.
CopyExact ==
  todo = << >> =>
    \A p \in DOMAIN tree : tree[p].kind = "uses" /\ tree[p].res =>
      {SubSeq(q, Len(p) + 1, Len(q)) : q \in Below(p)} = {Tail(q) : q \in Below(<<tree[p].arg>>)}

\* Copies are complete, and the counters that hold them back agree with the list
\* of unresolved items (resolve_unres_schema_uses, lys_node_dup).
CopiesExact == TypeOK /\ NacmExact /\ CopyExact

\* What the names say, without any order: each is defined, and neither the
\* groupings nor the typedefs refer to themselves.
Targets(edges, n) == {e[2] : e \in {e \in edges : e[1] = n}}
Ends(edges) == {e[1] : e \in edges} \cup {e[2] : e \in edges}
Reach(edges, n) ==
  Closure(Ends(edges), Targets(edges, n), [x \in Ends(edges) |-> Targets(edges, x)])
Nodes(kind, body) == {body[k].arg : k \in {k \in DOMAIN body : body[k].kind = kind}}
Bodies == {schema.grps[k].body : k \in DOMAIN schema.grps} \cup {schema.data}
UsesEdges == UNION {{schema.grps[k].name} \X Nodes("uses", schema.grps[k].body) : k \in DOMAIN schema.grps}
TypeEdges == {<<schema.tpdfs[k].name, schema.tpdfs[k].type>> : k \in DOMAIN schema.tpdfs}
Sound ==
  /\ \A b \in Bodies : Nodes("uses", b) \subseteq Grps /\ Nodes("leaf", b) \subseteq Tpdfs \cup Builtin
  /\ \A g \in Grps : g \notin Reach(UsesEdges, g)
  /\ \A t \in Tpdfs : t \notin Reach(TypeEdges, t) /\ Reach(TypeEdges, t) \subseteq Tpdfs \cup Builtin

\* The order of the definitions does not matter: a schema is accepted exactly
\* when its references are sound.
AcceptedIffSound == (status = "ok" => Sound) /\ (status = "error" => ~Sound)

\* Reading a module ends, with success or with an error.
Returns == <>(status \in {"ok", "error"})
=============================================================================
