------------------------------ MODULE Identity ------------------------------
(***************************************************************************)
(* Identities and their bases (src/src/resolve.c, parser_yin.c,            *)
(* tree_schema.c).  Every identity has a pointer to its base and a list of *)
(* backlinks to the identities derived from it, which resolve_identref     *)
(* searches to decide whether a value is derived from the base of a type.  *)
(* A module read a second time, or one that is refused, is freed after its *)
(* identities were linked to the bases they have in other modules.         *)
(*                                                                         *)
(* A document is the sequence of its identity statements.  The name of an  *)
(* identity is qualified, so it tells its module, and the modules that own *)
(* the bases are imported.  Submodules are not told apart from the module  *)
(* they belong to, and the status check of a base is left out.             *)
(***************************************************************************)
EXTENDS Naturals, Sequences, FiniteSets, SequencesExt, Closure

CONSTANTS
  Mods,      \* names of the modules
  Stmts,     \* module -> its identity statements, [name, base]
  None,      \* NULL, and the base of a statement without one
  MaxLoads   \* bound: calls of yin_read_module

Names == UNION {{Stmts[m][k].name : k \in DOMAIN Stmts[m]} : m \in Mods}
ASSUME StmtsType ==
  /\ IsFiniteSet(Mods)
  /\ \A m \in Mods : Stmts[m] \in Seq([name : STRING, base : STRING \cup {None}])
  /\ \A m, n \in Mods : \A j \in DOMAIN Stmts[m], k \in DOMAIN Stmts[n] :
        Stmts[m][j].name = Stmts[n][k].name => m = n /\ j = k

\* struct lys_ident: the identity of that name in the module a call allocated.
Ident == (1..MaxLoads) \X Names

ASSUME LoadsType ==
  MaxLoads \in Nat /\ None \notin Names /\ None \notin Mods /\ None \notin Ident

VARIABLES
  mod,    \* module being read, None between two calls
  load,   \* calls so far, the number of the current one
  pos,    \* ident_size of the module being read
  unres,  \* its unres list, UNRES_IDENT items only
  list,   \* module -> the call that put it in ctx->models.list, 0 if absent
  base,   \* identity -> base, None while it is not resolved
  der,    \* identity -> the identities in its list of backlinks
  live,   \* identities that are allocated
  ret     \* what the last call was about and how it ended

vars == <<mod, load, pos, unres, list, base, der, live, ret>>

Owner(n) == CHOOSE m \in Mods : \E k \in DOMAIN Stmts[m] : Stmts[m][k].name = n
Index(n) == CHOOSE k \in DOMAIN Stmts[Owner(n)] : Stmts[Owner(n)][k].name = n
BaseName(n) == Stmts[Owner(n)][Index(n)].base  \* the argument of its base statement

\* The identity and all that its base pointers lead to.
ChainOf(b, i) == Closure(Ident, {i}, [x \in Ident |-> {b[x]} \ {None}])
Chain(i) == ChainOf(base, i)

Init ==
  /\ mod = None /\ load = 0 /\ pos = 0 /\ unres = << >>
  /\ list = [m \in Mods |-> 0]
  /\ base = [i \in Ident |-> None]
  /\ der = [i \in Ident |-> << >>]
  /\ live = {}
  /\ ret = [mod |-> None, why |-> "none"]

-----------------------------------------------------------------------------
(* Mutants of the definitions below.                                       *)

Circular_never(i, b) == FALSE
Linked_direct(i, b) == [der EXCEPT ![b] = Append(@, i)]
Found_last(n) ==
  IF n \notin Names THEN None
  ELSE IF Owner(n) = mod
       THEN IF Index(n) < pos THEN <<load, n>> ELSE None
       ELSE <<list[Owner(n)], n>>

-----------------------------------------------------------------------------
(* resolve.c: resolve_base_ident, resolve_base_ident_sub                   *)

\* The base is searched in the module the name is qualified with: the module
\* being read holds the identities before pos, an imported one all of its own.
Found(n) ==
  IF n \notin Names THEN None
  ELSE IF Owner(n) = mod
       THEN IF Index(n) <= pos THEN <<load, n>> ELSE None
       ELSE <<list[Owner(n)], n>>

Circular(i, b) == i \in Chain(b)

\* Backlinks are added to the base and to everything above it.  When the list
\* of one of them is empty the new item becomes the whole list of the base.
Linked(i, b) ==
  [x \in Ident |->
    IF x = b /\ \E a \in Chain(b) : der[a] = << >> THEN <<i>>
    ELSE IF x \in Chain(b) /\ der[x] # << >> THEN Append(der[x], i)
    ELSE der[x]]

\* EXIT_SUCCESS of resolve_base_ident; it fails when there is no such identity
\* yet and when the reference is circular.
Resolvable(i) == LET b == Found(BaseName(i[2])) IN b # None /\ ~Circular(i, b)

Link(i) ==
  LET b == Found(BaseName(i[2]))
  IN  base' = [base EXCEPT ![i] = b] /\ der' = Linked(i, b)

\* unres_schema_add_str: an item that cannot be resolved at first is queued.
Queued(i) == IF Resolvable(i) THEN unres ELSE Append(unres, i)

\* resolve_identref: the value names the base or one of its backlinks.
resolve_identref(b, i) == i = b \/ \E k \in DOMAIN der[b] : der[b][k] = i

-----------------------------------------------------------------------------
(* parser_yin.c: yin_read_module, read_sub_module, fill_yin_identity       *)

\* The imports are read before the identities and stay in the context.
ReadModule(m) ==
  /\ mod = None /\ load < MaxLoads
  /\ \A k \in DOMAIN Stmts[m] :
       LET b == Stmts[m][k].base
       IN  b \in Names /\ Owner(b) # m => list[Owner(b)] # 0
  /\ mod' = m /\ load' = load + 1 /\ pos' = 0 /\ unres' = << >>
  /\ UNCHANGED <<list, base, der, live, ret>>

fill_yin_identity ==
  /\ mod # None /\ pos < Len(Stmts[mod])
  /\ LET i == <<load, Stmts[mod][pos + 1].name>>
     IN  /\ live' = live \cup {i}
         /\ IF BaseName(i[2]) = None
            THEN UNCHANGED <<base, der, unres>>
            ELSE /\ unres' = Queued(i)
                 /\ IF Resolvable(i) THEN Link(i) ELSE UNCHANGED <<base, der>>
  /\ pos' = pos + 1
  /\ UNCHANGED <<mod, load, list, ret>>

\* lys_free of the module being read: lys_ident_free drops the list of each of
\* its identities and leaves the lists that have backlinks to them.
Freed ==
  /\ live' = {i \in live : i[1] # load}
  /\ base' = [i \in Ident |-> IF i[1] = load THEN None ELSE base[i]]
  /\ der' = [i \in Ident |-> IF i[1] = load THEN << >> ELSE der[i]]

Return(why) == mod' = None /\ unres' = << >> /\ ret' = [mod |-> mod, why |-> why]

\* An error in another statement, or in another item of the unres list.
OtherError ==
  /\ mod # None
  /\ Freed /\ Return("other")
  /\ UNCHANGED <<load, pos, list>>

\* The second loop of resolve_unres_schema: one pass in the order of the list,
\* the first failure is returned.
resolve_unres_schema ==
  /\ mod # None /\ pos = Len(Stmts[mod]) /\ unres # << >>
  /\ IF Resolvable(Head(unres))
     THEN /\ Link(Head(unres)) /\ unres' = Tail(unres)
          /\ UNCHANGED <<mod, live, ret>>
     ELSE Freed /\ Return("base")
  /\ UNCHANGED <<load, pos, list>>

\* The same revision is in the context already: the new copy is freed.
AddModule ==
  /\ mod # None /\ pos = Len(Stmts[mod]) /\ unres = << >>
  /\ IF list[mod] = 0
     THEN list' = [list EXCEPT ![mod] = load] /\ UNCHANGED <<base, der, live>>
     ELSE Freed /\ UNCHANGED list
  /\ Return("ok")
  /\ UNCHANGED <<load, pos>>

Done == mod = None /\ load = MaxLoads /\ UNCHANGED vars

Next ==
  \/ \E m \in Mods : ReadModule(m)
  \/ fill_yin_identity
  \/ OtherError
  \/ resolve_unres_schema
  \/ AddModule
  \/ Done

Spec == Init /\ [][Next]_vars

-----------------------------------------------------------------------------
(* Properties                                                              *)

TypeOK ==
  /\ mod \in Mods \cup {None} /\ load \in 0..MaxLoads
  /\ pos \in Nat /\ (mod # None => pos <= Len(Stmts[mod]))
  /\ unres \in Seq(live) /\ list \in [Mods -> 0..MaxLoads]
  /\ base \in [Ident -> Ident \cup {None}] /\ der \in [Ident -> Seq(Ident)]
  /\ live \subseteq Ident

\* Identities of the modules that are in the context.
Loaded == {i \in live : list[Owner(i[2])] = i[1]}

\* No identity is its own base through any number of steps, whatever part of a
\* module has been read: the check for circular references looks only at the
\* base pointers that exist when one more is about to be set.
BaseAcyclic == \A i \in live : base[i] # None => i \notin Chain(base[i])

\* An identity whose base is set is on the list of that base.  This is what
\* makes the assignment to ident->base->der in resolve_base_ident_sub safe: an
\* ancestor with an empty list would make it overwrite the list of the base.
BaseHasBacklink ==
  \A i \in live : base[i] # None => i \in Range(der[base[i]])

\* The graph of bases is sound at every step of reading, refusing and freeing
\* modules (resolve_base_ident_sub, lys_ident_free).
BaseGraph == TypeOK /\ BaseAcyclic /\ BaseHasBacklink

\* The value of an identityref is accepted exactly when it is the base or was
\* derived from it, however many steps and modules away: der is the "list of
\* pointers to the derived identities" (tree_schema.h:1233).
IdentrefExact ==
  \A b, i \in Loaded : resolve_identref(b, i) <=> b \in Chain(i)

\* Whether a statement's chain of bases is defined and not circular, from the
\* documents alone.
Bases == Names \cup {BaseName(n) : n \in Names}
Above(n) ==
  Closure(Bases, {BaseName(n)}, [x \in Bases |-> IF x \in Names THEN {BaseName(x)} ELSE {}])
Sound(m) ==
  \A k \in DOMAIN Stmts[m] :
    LET n == Stmts[m][k].name IN n \notin Above(n) /\ Above(n) \subseteq Names \cup {None}

\* An identity that another one of its module is derived from comes after its
\* own base, unless that is in another module.
InOrder(m) ==
  \A n \in Names :
    LET p == BaseName(n)
        q == BaseName(p)
    IN  Owner(n) = m /\ p \in Names /\ Owner(p) = m /\ q \in Names /\ Owner(q) = m
          => Index(q) < Index(p)
Ordered == \A m \in Mods : Sound(m) => InOrder(m)

\* The order of the statements does not decide whether a module loads: a base
\* that cannot be resolved is reported for unsound modules only, and no unsound
\* module gets into the context.
RefusedIffUnsound ==
  /\ ret.why = "base" => ~Sound(ret.mod)
  /\ ret.why = "ok" => Sound(ret.mod)
=============================================================================
