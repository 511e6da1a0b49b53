----------------------------- MODULE ModuleLoad -----------------------------
(***************************************************************************)
(* Loading schemas into a context (src/src/context.c, parser.c,            *)
(* parser_yin.c, tree_schema.c).  Reading a module reads the modules it    *)
(* imports and the submodules it includes before its own body, so a call   *)
(* of the API is a stack of readers; each action is one step of the        *)
(* innermost one.  When a reader fails all readers below it fail, and each *)
(* frees what it had built.                                                *)
(*                                                                         *)
(* Documents are abstract: a kind, a name, a revision (0 when there is     *)
(* none) with the number of revision statements, a namespace, the import   *)
(* and include statements in their order, and whether there is an error in *)
(* the rest: in the head (revisions, typedefs, identities, features, which *)
(* are read after the imports here) or in the body (data nodes, augments). *)
(* The prefix of a module is its name, in every import too; an import of a *)
(* module has the same revision-date everywhere; the name of a file is the *)
(* name of the (sub)module in it.                                          *)
(***************************************************************************)
EXTENDS Naturals, Sequences, FiniteSets, SequencesExt, FiniteSetsExt

CONSTANTS
  Doc,       \* file -> its content
  Paths,     \* the search paths a context may be given: sets of files
  Addr,      \* addresses of struct lys_module and struct lys_submodule
  None,      \* NULL
  InitSize   \* models.size of a new context

Files == UNION Paths
Kinds == {"module", "submodule"}
Statement == [kind : {"import", "include"}, name : STRING, rev : Nat]
ASSUME DocType ==
  \A f \in Files :
    /\ Doc[f].kind \in Kinds /\ Doc[f].name \in STRING /\ Doc[f].ns \in STRING
    /\ Doc[f].rev \in Nat /\ Doc[f].revs \in Nat /\ (Doc[f].rev = 0) = (Doc[f].revs = 0)
    /\ Doc[f].stmts \in Seq(Statement) /\ Doc[f].err \in {"none", "head", "body"}
ASSUME SizeType == InitSize \in Nat \ {0}
ASSUME AddrType == Addr \subseteq Nat /\ None \notin Addr

\* struct lys_module and lys_submodule: imp and inc are the arrays of imports and
\* includes, cap the imports there is memory for; ext marks an include that the
\* module has from a submodule.
Entry == [sub : Addr \cup {None}, ext : BOOLEAN]
Obj == [file : Files, imp : Seq(Addr), cap : Nat, inc : Seq(Entry), impl : BOOLEAN]
ASSUME NoneType == None \notin Obj

VARIABLES
  mem,      \* address -> (sub)module, None when it is not allocated
  list,     \* ctx->models.list, used entries only
  size,     \* ctx->models.size
  setid,    \* ctx->models.module_set_id
  parsing,  \* ctx->models.parsing: names being imported or included
  stack,    \* the readers that are active, the innermost one last
  failing,  \* the innermost reader is on its error path
  clb,      \* ctx->module_clb is set
  path      \* ctx->models.search_path, and what the callback reads from

vars == <<mem, list, size, setid, parsing, stack, failing, clb, path>>

File(m, a) == Doc[m[a].file]
Count(f, kind) == Cardinality({i \in DOMAIN Doc[f].stmts : Doc[f].stmts[i].kind = kind})
NoInc == [sub |-> None, ext |-> FALSE]

\* calloc of the structure, and of its arrays when the statements are counted.
NewObj(f, implement) ==
  [file |-> f, imp |-> << >>, cap |-> Count(f, "import"),
   inc |-> [i \in 1..Count(f, "include") |-> NoInc], impl |-> implement]

\* A call of yin_read_module (main = obj) or yin_read_submodule.
NewFrame(a, main, implement) ==
  [obj |-> a, main |-> main, at |-> 1, aux |-> 1, implement |-> implement, unres |-> TRUE]

Top == Last(stack)
Stmt == File(mem, Top.obj).stmts[Top.at]
Free == {a \in Addr : mem[a] = None}   \* bound: what can be allocated yet
FreeAddr == Min(Free)
IsModule(m, a) == File(m, a).kind = "module"

\* Reading: no error is being handled, and the next statement is an s.
AtStatement(s) ==
  /\ stack # << >> /\ ~failing
  /\ Top.at <= Len(File(mem, Top.obj).stmts)
  /\ Stmt.kind = s
AtBody(kind) ==
  /\ stack # << >> /\ ~failing
  /\ Top.at > Len(File(mem, Top.obj).stmts)
  /\ File(mem, Top.obj).kind = kind

Init ==
  /\ mem = [a \in Addr |-> None]
  /\ list = << >>
  /\ size = InitSize
  /\ setid = 1
  /\ parsing = << >>
  /\ stack = << >>
  /\ failing = FALSE
  /\ clb = FALSE
  /\ path \in Paths

-----------------------------------------------------------------------------
(* Searching                                                               *)

\* ly_ctx_get_module: the revision asked for, or else the newest one.
Newer(m, a, result) ==
  IF result = None THEN a
  ELSE IF File(m, a).rev = 0 THEN result
  ELSE IF File(m, result).rev # 0 /\ File(m, a).rev < File(m, result).rev THEN result
  ELSE a

\* Mutant: the newest revision is not looked for.
ly_ctx_get_module_last(m, l, name, rev) ==
  LET named == SelectSeq(l, LAMBDA a : File(m, a).name = name /\ rev \in {0, File(m, a).rev}) IN
  IF named = << >> THEN None ELSE Last(named)

ly_ctx_get_module(m, l, name, rev) ==
  LET exact == {k \in DOMAIN l : File(m, l[k]).name = name /\ File(m, l[k]).rev = rev}
      upto[k \in 0..Len(l)] ==
        IF k = 0 THEN None
        ELSE IF File(m, l[k]).name = name THEN Newer(m, l[k], upto[k - 1]) ELSE upto[k - 1] IN
  IF rev = 0 THEN upto[Len(l)]
  ELSE IF exact = {} THEN None ELSE l[Min(exact)]

\* lyp_search_file opens the first file with the name that readdir delivers and
\* does not look at the revision; the callback is expected to.
Found(name, rev) ==
  {f \in path : Doc[f].name = name /\ (clb /\ rev # 0 => Doc[f].rev = rev)}

\* The submodules a module has so far.
Submodules(m, a) == {e.sub : e \in Range(m[a].inc)} \ {None}

-----------------------------------------------------------------------------
(* Freeing                                                                 *)

\* lys_free: a module with its submodules, a submodule alone.
Family(m, a) == {a} \cup IF IsModule(m, a) THEN Submodules(m, a) ELSE {}
Released(m, gone) == [x \in Addr |-> IF x \in gone THEN None ELSE m[x]]
Freed(m, a) == Released(m, Family(m, a))

Fail == failing' = TRUE /\ UNCHANGED <<mem, list, size, setid, parsing, stack, clb>>

\* Mutants of the error path: the module is kept, the caller goes on.
Unwind_kept ==
  /\ failing /\ stack' = Front(stack) /\ failing' = (Len(stack) > 1)
  /\ parsing' = IF parsing = << >> THEN << >> ELSE Front(parsing)
  /\ UNCHANGED <<mem, list, size, setid, clb>>
Unwind_retry ==
  /\ failing /\ mem' = Freed(mem, Top.obj) /\ stack' = Front(stack) /\ failing' = FALSE
  /\ parsing' = IF parsing = << >> THEN << >> ELSE Front(parsing)
  /\ UNCHANGED <<list, size, setid, clb>>
\* The error path of yin_read_module and yin_read_submodule; the caller, if
\* there is one, forgets the name and takes its own error path.
Unwind ==
  /\ failing
  /\ mem' = Freed(mem, Top.obj)
  /\ stack' = Front(stack)
  /\ parsing' = IF parsing = << >> THEN << >> ELSE Front(parsing)
  /\ failing' = (Len(stack) > 1)
  /\ UNCHANGED <<list, size, setid, clb>>

-----------------------------------------------------------------------------
(* Calls of the API                                                        *)

Idle == stack = << >>

\* The start of yin_read_module with the name on the list of names being read.
Read(f, implement) ==
  /\ Doc[f].kind = "module" /\ Free # {}
  /\ mem' = [mem EXCEPT ![FreeAddr] = NewObj(f, implement)]
  /\ stack' = Append(stack, NewFrame(FreeAddr, FreeAddr, implement))

lys_parse_mem(f) ==
  /\ Idle
  /\ Read(f, TRUE)
  /\ UNCHANGED <<list, size, setid, parsing, failing, clb>>

\* With the callback the document goes through lys_parse_mem.
ly_ctx_load_module(name, rev) ==
  /\ Idle
  /\ \E f \in Found(name, rev) : Read(f, clb)
  /\ UNCHANGED <<list, size, setid, parsing, failing, clb>>

ly_ctx_set_module_clb ==
  /\ Idle
  /\ clb' = ~clb
  /\ UNCHANGED <<mem, list, size, setid, parsing, stack, failing>>

\* Every module is freed; a new context follows.
ly_ctx_destroy ==
  /\ Idle /\ list # << >>
  /\ mem' = Released(mem, UNION {Family(mem, a) : a \in Range(list)})
  /\ list' = << >> /\ size' = InitSize /\ setid' = 1
  /\ UNCHANGED <<parsing, stack, failing, clb>>

-----------------------------------------------------------------------------
(* import                                                                  *)

\* The imported module at a is linked to the reader on top of s.
Imported(m, s, a) ==
  LET o == Last(s).obj IN
  /\ failing' = \E x \in Range(m[o].imp) : File(m, x).name = File(m, a).name
  /\ mem' = [m EXCEPT ![o].imp = Append(@, a)]
  /\ stack' = [s EXCEPT ![Len(s)].at = @ + 1]

\* lyp_check_identifier(LY_IDENT_PREFIX): taken by the main module, by an import
\* of the (sub)module that is read or of a submodule it has included itself.
PrefixTaken ==
  LET o == Top.obj
      own == {mem[o].inc[i].sub : i \in 1..(Top.aux - 1)} IN
  \/ File(mem, Top.main).name = Stmt.name
  \/ \E a \in {o} \cup own : \E x \in Range(mem[a].imp) : File(mem, x).name = Stmt.name

\* The top-level module is not on the list of names.
Circular == Stmt.name \in Range(parsing)

import_rejected == AtStatement("import") /\ (PrefixTaken \/ Circular) /\ Fail

import_found ==
  LET a == ly_ctx_get_module(mem, list, Stmt.name, Stmt.rev) IN
  /\ AtStatement("import") /\ ~PrefixTaken /\ ~Circular
  /\ a # None
  /\ Imported(mem, stack, a)
  /\ UNCHANGED <<list, size, setid, parsing, clb>>

import_load(f) ==
  /\ AtStatement("import") /\ ~PrefixTaken /\ ~Circular
  /\ ly_ctx_get_module(mem, list, Stmt.name, Stmt.rev) = None
  /\ f \in Found(Stmt.name, Stmt.rev)
  /\ Read(f, clb)
  /\ parsing' = Append(parsing, Stmt.name)
  /\ UNCHANGED <<list, size, setid, failing, clb>>

\* No file, a file that cannot be read or is no module, a callback that fails.
import_missing ==
  /\ AtStatement("import") /\ ~PrefixTaken /\ ~Circular
  /\ ly_ctx_get_module(mem, list, Stmt.name, Stmt.rev) = None
  /\ Fail

-----------------------------------------------------------------------------
(* include                                                                 *)

\* The entry e takes the next place among the includes of the reader on top of s.
Included(m, s, e) ==
  LET o == Last(s).obj
      k == Last(s).aux IN
  /\ mem' = [m EXCEPT ![o].inc[k] = e]
  /\ failing' = \E i \in 1..(k - 1) :
                  m[o].inc[i].sub # None /\ File(m, m[o].inc[i].sub).name = File(m, e.sub).name
  /\ stack' = [s EXCEPT ![Len(s)].at = @ + 1, ![Len(s)].aux = @ + 1]

\* Where the main module knows the submodule, for the first time.
Known ==
  LET inc == mem[Top.main].inc IN
  {i \in DOMAIN inc : inc[i].sub # None /\ File(mem, inc[i].sub).name = Stmt.name}

\* The entry a submodule left in the main module moves to its proper place;
\* when the main module repeats an include of its own, the entry is doubled and
\* found to be a duplicate.
include_known ==
  /\ AtStatement("include") /\ Known # {}
  /\ LET i == Min(Known)
         e == mem[Top.main].inc[i]
         move == Top.obj = Top.main /\ e.ext
         m == IF move THEN [mem EXCEPT ![Top.main].inc = RemoveAt(@, i)] ELSE mem IN
     Included(m, stack, [e EXCEPT !.ext = FALSE])
  /\ UNCHANGED <<list, size, setid, parsing, clb>>

include_circular == AtStatement("include") /\ Known = {} /\ Circular /\ Fail

include_load(f) ==
  /\ AtStatement("include") /\ Known = {} /\ ~Circular
  /\ f \in Found(Stmt.name, Stmt.rev) /\ Doc[f].kind = "submodule" /\ Free # {}
  /\ mem' = [mem EXCEPT ![FreeAddr] = NewObj(f, FALSE)]
  /\ stack' = Append(stack, NewFrame(FreeAddr, Top.main, FALSE))
  /\ parsing' = Append(parsing, Stmt.name)
  /\ UNCHANGED <<list, size, setid, failing, clb>>

include_missing == AtStatement("include") /\ Known = {} /\ ~Circular /\ Fail

\* The document is no submodule: yin_read_submodule fails before it has one and
\* unres_schema_free(NULL) frees the list that belongs to the main module.
include_wrong(f) ==
  /\ AtStatement("include") /\ Known = {} /\ ~Circular
  /\ f \in Found(Stmt.name, Stmt.rev) /\ Doc[f].kind # "submodule"
  /\ stack' = [i \in DOMAIN stack |->
                 IF stack[i].main = Top.main THEN [stack[i] EXCEPT !.unres = FALSE] ELSE stack[i]]
  /\ failing' = TRUE
  /\ UNCHANGED <<mem, list, size, setid, parsing, clb>>

-----------------------------------------------------------------------------
(* The end of a document                                                   *)

head_fails ==
  /\ \E kind \in Kinds : AtBody(kind)
  /\ File(mem, Top.obj).err = "head"
  /\ Fail

\* The array of imports is reallocated to hold what is in it and the new ones.
Room(old, new) == Len(old) + Len(new)

\* The entries of s, in order, that are not among those the main module has.
Missing(s, have) ==
  LET upto[k \in 0..Len(s)] ==
        IF k = 0 THEN << >>
        ELSE IF s[k] \in have THEN upto[k - 1] ELSE Append(upto[k - 1], s[k])
  IN  upto[Len(s)]

\* What a submodule imports and includes becomes visible in the main module.
submodule_done ==
  LET o == Top.obj
      main == Top.main
      newimp == Missing(mem[o].imp, Range(mem[main].imp))
      newinc == Missing(mem[o].inc, {e \in Range(mem[o].inc) : e.sub \in Submodules(mem, main)})
      clash == \E a \in Range(newimp), x \in {main} \cup Range(mem[main].imp) :
                 File(mem, a).name = File(mem, x).name
      m == [mem EXCEPT
              ![main].imp = @ \o newimp,
              ![main].cap = IF newimp = << >> THEN @ ELSE Room(mem[main].imp, newimp),
              ![main].inc = @ \o [i \in DOMAIN newinc |-> [newinc[i] EXCEPT !.ext = TRUE]]] IN
  /\ AtBody("submodule") /\ File(mem, o).err # "head"
  /\ UNCHANGED <<list, size, setid, clb>>
  /\ IF clash
       THEN failing' = TRUE /\ UNCHANGED <<mem, stack, parsing>>
     ELSE IF File(mem, o).err = "body"
       THEN mem' = m /\ failing' = TRUE /\ UNCHANGED <<stack, parsing>>
     ELSE Included(m, Front(stack), [sub |-> o, ext |-> FALSE]) /\ parsing' = Front(parsing)

Same(a, o) ==
  LET x == File(mem, a)  y == File(mem, o) IN
  x.name = y.name /\ x.revs = y.revs /\ x.rev = y.rev

Clash(a, o) ==
  LET x == File(mem, a)  y == File(mem, o) IN x.name # y.name /\ x.ns = y.ns

\* lyp_set_implemented
Implemented(m, a) ==
  [x \in Addr |-> IF x = a \/ x \in Submodules(m, a) THEN [m[x] EXCEPT !.impl = TRUE] ELSE m[x]]

\* The module at a is the result: of the call, or of the import below.
Return(m, a) ==
  IF Len(stack) = 1
    THEN mem' = m /\ stack' = << >> /\ failing' = FALSE /\ parsing' = parsing
    ELSE Imported(m, Front(stack), a) /\ parsing' = Front(parsing)

\* Mutant: the new module is returned after it was freed.
Result_new(a, o) == o

\* Of two equal modules the old one is returned and the new one freed.
Result(a, o) == a

SetIdMod == 65536   \* module_set_id is a uint16_t

Grown(l, n) == IF Len(l) = n THEN 2 * n ELSE n

\* The list is searched from its beginning: the first entry that is the same
\* module or has the same namespace decides.
module_done ==
  LET o == Top.obj
      hits == {i \in DOMAIN list : Same(list[i], o) \/ Clash(list[i], o)} IN
  /\ AtBody("module") /\ File(mem, o).err # "head"
  /\ size' = IF File(mem, o).err = "none" THEN Grown(list, size) ELSE size
  /\ UNCHANGED clb
  /\ IF File(mem, o).err = "body"
       THEN failing' = TRUE /\ UNCHANGED <<mem, stack, parsing, list, setid>>
     ELSE IF hits = {}
       THEN /\ list' = Append(list, o) /\ setid' = (setid + 1) % SetIdMod
            /\ Return(mem, o)
       ELSE LET a == list[Min(hits)] IN
            /\ UNCHANGED <<list, setid>>
            /\ IF Same(a, o)
                 THEN LET m == Freed(mem, o) IN
                      Return(IF Top.implement THEN Implemented(m, a) ELSE m, Result(a, o))
                 ELSE failing' = TRUE /\ UNCHANGED <<mem, stack, parsing>>

-----------------------------------------------------------------------------
Step ==
  /\ \/ Unwind
     \/ import_rejected \/ import_found \/ import_missing
     \/ include_known \/ include_circular \/ include_missing
     \/ \E f \in path : import_load(f) \/ include_load(f) \/ include_wrong(f)
     \/ head_fails \/ submodule_done \/ module_done
  /\ UNCHANGED path

Call ==
  /\ \/ \E f \in path : lys_parse_mem(f) \/ \E rev \in {0, Doc[f].rev} : ly_ctx_load_module(Doc[f].name, rev)
     \/ ly_ctx_set_module_clb \/ ly_ctx_destroy
  /\ UNCHANGED path

Next == Step \/ Call

Spec == Init /\ [][Next]_vars
FairSpec == Spec /\ WF_vars(Step)

-----------------------------------------------------------------------------
(* Properties                                                              *)

Live == {a \in Addr : mem[a] # None}

TypeOK ==
  /\ mem \in [Addr -> Obj \cup {None}]
  /\ list \in Seq(Addr) /\ parsing \in Seq(STRING)
  /\ size \in Nat /\ setid \in 0..(SetIdMod - 1)
  /\ failing \in BOOLEAN /\ clb \in BOOLEAN /\ path \in Paths /\ (failing => stack # << >>)

\* A module in the context is complete: it exists, what it imports is in the
\* context too, under the name it asked for, and its submodules exist and are the ones it
\* includes.
Closed ==
  \A a \in Range(list) :
    /\ a \in Live
    /\ Range(mem[a].imp) \subseteq Range(list)
    /\ Submodules(mem, a) \subseteq Live
    /\ \A s \in Range(File(mem, a).stmts) :
         \E x \in IF s.kind = "import" THEN Range(mem[a].imp) ELSE Submodules(mem, a) :
           File(mem, x).name = s.name

\* Two modules of the context never share a namespace (yin_read_module compares
\* each new module with all modules, those read meanwhile included).
NsUnique ==
  \A i, j \in DOMAIN list :
    File(mem, list[i]).ns = File(mem, list[j]).ns => File(mem, list[i]).name = File(mem, list[j]).name

\* ly_ctx_get_module without a revision returns the newest one there is.
NewestFound ==
  \A i \in DOMAIN list :
    LET a == ly_ctx_get_module(mem, list, File(mem, list[i]).name, 0) IN
    a # None /\ File(mem, a).rev >= File(mem, list[i]).rev

\* Between the calls nothing is allocated but the modules of the context and
\* their submodules: a failed call frees what it had built.
NoOrphans ==
  Idle => Live = Range(list) \cup UNION {Submodules(mem, a) : a \in Range(list)}

\* What the context offers after any calls, failed ones included: modules that
\* are told apart by their namespaces, and the newest revision of each.
ListOK == TypeOK /\ NsUnique /\ NewestFound

\* Every call returns, circular imports and includes notwithstanding.
CallsReturn == (stack # << >>) ~> Idle

\* A module can be freed at any time: its array of includes has each submodule
\* once, since lys_free frees the submodules of all entries.
FreeOnce ==
  \A a \in Live : IsModule(mem, a) =>
    LET inc == mem[a].inc IN
    \A i, j \in DOMAIN inc : inc[i].sub = inc[j].sub /\ inc[i].sub # None => i = j

\* What yin_read_module and lys_free allocate and free is balanced, now and
\* whenever a module is freed later.
MemoryExact == NoOrphans /\ FreeOnce
=============================================================================
