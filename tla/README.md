# A TLA+ model of libyang

libyang reads YANG schemas (in YIN syntax here) into a context, keeps instance
data in trees that refer to the schemas, and validates, changes and prints them.
This directory has TLA+ modules of its core, the TLC runs that check them on
small instances, and proofs that TLAPS checks for every value of the constants.
`PROJECT.json` maps every definition to the lines it models.

## Inventory

### The parts of the library and how they interact

A context (`ly_ctx`) owns a list of modules, a string dictionary and a search
path. Everything else hangs off it: a module owns its schema tree, typedefs,
identities, features and submodules; a data tree points into the schema trees.
Every name and value in both kinds of tree is a dictionary string.

| Part | State | Operations | Talks to |
|---|---|---|---|
| String dictionary (`dict.c`) | bucket chains with reference counters, `used`, a mutex | `lydict_insert`, `lydict_insert_zc`, `lydict_remove`, `lydict_clean` | called by every other part, from any thread |
| Context and loading (`context.c`, `parser.c`, `parser_yin.c`) | `models.list`, `size`, `module_set_id`, the names in `models.parsing`, the callback | `lys_parse_mem`, `ly_ctx_load_module`, `ly_ctx_get_module`, `ly_ctx_destroy`; the import and include statements, which call the reader again | dictionary, resolver, schema tree |
| YIN statements (`parser_yin.c`) | the node being built | `read_yin_*`, `fill_yin_*`: a pass that counts substatements and a pass that stores them | `lys_node_addchild`, the list of unresolved items |
| Resolver of schemas (`resolve.c`) | `struct unres_schema`, the `nacm` counter of groupings, backlinks of identities | `unres_schema_add_node`, `resolve_unres_schema`, `resolve_uses`, `resolve_base_ident` | schema tree, which it extends by copies |
| Schema tree (`tree_schema.c`) | parent, child, next and prev pointers | `lys_node_addchild`, `lys_check_id`, `lys_getnext`, `lys_node_dup`, `lys_free` | loading, printers, data parsers |
| Features (`tree_schema.c`) | the flag `LYS_FENABLED` | `lys_features_enable`, `lys_features_disable`, `lys_features_state` | if-feature statements across modules |
| Data tree (`tree_data.c`) | parent, child, next and prev pointers, leafref pointers, validity flags | `lyd_new*`, `lyd_insert*`, `lyd_unlink`, `lyd_free*`, `lyd_change_leaf`, `lyd_validate` | schema tree, validation |
| Validation (`validation.c`, `resolve.c`) | `LYD_VAL_*` flags, `struct unres_data` | `lyv_data_content`, `lyv_data_value`, `ly_check_mandatory`, when and must | data tree, XPath |
| XPath (`xpath.c`) | node sets | evaluation of when, must and path expressions | data and schema trees |
| Data parsers (`parser_xml.c`, `parser_json.c`, `xml.c`) | an XML or JSON document | `lyd_parse_*` | data tree |
| Printers (`printer*.c`) | none, except that deviated nodes change places with their originals while a module is printed | `lys_print`, `lyd_print` | schema and data trees |

### What is hard here

* **Threads.** Contexts are shared and the dictionary is the one structure with
  a lock. `lydict_remove` reads the table's size and the string itself before it
  takes the lock, and malloc hands out freed addresses again.
* **Recursion through the API.** Reading a module reads other modules before it
  is itself in the list; the context changes in the middle of the call, and an
  error unwinds all readers.
* **Forward references.** Identities, typedefs, groupings and uses may be used
  before they are defined. What cannot be resolved goes on a list that is tried
  again, while copies of groupings put new items on it.
* **Partial failure.** A module that fails half way must give everything back,
  and leave nothing behind in modules that stay.
* **Raw pointers.** Leafrefs, imports and backlinks of identities are pointers
  that nobody counts; operations on one end have to find the other.
* **Walks without state.** `lys_getnext`, `lys_check_id` and
  `lys_get_next_grouping` find their way through nested choices, cases and uses
  from the current node alone.
* **Two passes.** The readers of statements count in one loop and store in another,
  and two printers list the same parts once more; nothing but care keeps the
  lists equal.
* **Changes that are taken back.** Deviations change a schema tree in place, are
  undone for every printing and done again, by pointers and by names.
* **Evaluation in place.** XPath notes the operators of an expression in stacks
  that the evaluation consumes, and moves along a path by replacing, removing and
  inserting items in the set it walks.
* **Numbers at their limit.** `nacm` is a byte, array sizes are bytes, the list of
  modules is doubled when it is full.

### What makes each part correct

* Dictionary: one record per content, exact counters, no string freed while it is
  held and none lost, and callers cannot tell the table from an atomic pool.
* Loading: the context is closed under imports and includes, namespaces are
  unique, a failed call leaves nothing allocated, every call returns.
* Identities: an identityref accepts exactly the derived identities; a module is
  refused exactly when its bases are undefined or circular.
* Groupings: a copy has all nodes of its grouping, and the order of definitions
  does not decide whether a module is accepted.
* Features: a call sets the flags of exactly the features it names and of those
  they refer to.
* Schema tree: siblings of a data tree have different names and the enumeration
  of a level is complete.
* Statements: what is stored is what the statement says, what is refused is wrong,
  and what is printed is read as the same structure.
* Deviations: a deviate has its effect and no other, the original module can be
  printed, and printing leaves no trace.
* XPath: an expression is accepted exactly when the grammar derives it and has the
  value XPath gives it over the part of the data its context may see.
* Data tree: the pointers form ordered lists whatever is moved where, and what is
  marked valid has no duplicates and no unresolved leafref.

`PROJECT.json` lists the hazards behind these, each at its line of code, with the
properties that cover it or the reason why none does.

## The modules

### Dict, StringPool, DictProofs

`Dict` has one action per step between two points where threads can interleave:
the call (with what it reads before the lock), the lock, the body, the unlock.
The variables are the chains of records (`chain`), `used`, the owner of the lock,
and for each thread where it is and what it was called with. `heap` says which
addresses are alive with which content; malloc picks any dead address, so a
freed one comes back at once. `held` is what the callers own: they remove
only references they have, which is the contract of `dict.h`. A chain is a
sequence, since removing the static first record copies its successor over it,
which leaves the same sequence. `lydict_remove_foreign` is a call with a string
that is not in the dictionary. `StringPool` is the promise: a count and an
address for each content, changed by atomic calls.

### DataTree, Forest, DataTreeProofs

One variable `d` is the memory: address to node. The operations are functions
from memory to memory, composed the way the C functions call each other, so that
`lyd_free` unlinks each child, which clears leafrefs, and so on. The schema
is fixed: a container with a leaf, a leafref to it and a leaf-list of leafrefs.
Walks follow the pointers and are cut off after as many steps as there are
addresses, so that a broken list is a violation and not an endless evaluation.
Loops over a list are functions on the number of nodes passed, so that they can be
proved about. `Match` is the target a leafref gets: `resolve_data` replaces the list
of containers by their leafs in place, the first of each container before all
others (`Searched`, `FirstBelow`). A document is parsed only without duplicates, as
`lyv_data_content` refuses them; validation does the same at any later time.
`Forest` is the promise: ordered lists of nodes with and without a parent.

### ModuleLoad, LoadProofs

A call is a stack of readers (`stack`), one frame per `yin_read_module` or
`yin_read_submodule` that is active. Each action is the next step of the
innermost reader: an import that is found, loaded, missing or rejected, an
include likewise, the end of the head, the end of the submodule or module.
`failing` makes `Unwind` free one reader after the other. `mem` has the
structures at their addresses with their arrays of imports (and how many fit:
`cap`) and includes. `path` is the set of files the search finds, chosen
initially. Which of several files with a name `readdir` delivers first is a
choice, and so is a callback that fails. A structure is allocated at the lowest
address that is `Free`; when there is none left, nothing new is read, which bounds
the instance and not the proofs.

### Identity, Closure, ClosureProofs, IdentityProofs

Reading a module identity by identity (`fill_yin_identity`), with the attempt to
resolve the base at once, the list of those that could not be, and the module's
end: added, freed because it is there already, or freed because of an error,
which may also come from any other statement (`OtherError`). An identity is the
call that allocated it and its name, so a second copy of a module is told apart
from the first. `Linked` has the assignment of the code that looks odd: for an
ancestor with an empty list the item is stored in the list of the direct base.
`Closure` is what pointers lead to, here the base, its base and so on. `MCIdentity`
assumes `Ordered` of its modules (see the proofs).

### Uses, UsesProofs

Typedefs, groupings, leaves and uses in the order `read_sub_module` reads them,
then the loop of `resolve_unres_schema` with its counters, item by item. `at` and
`pos` say where the reader is: in the typedefs, in the body of one of the
groupings or in the data nodes, and how many statements of that it has read. A node
is a path; copying a grouping adds the paths of its nodes below the uses. `todo`
is the calls still to be made: what `lys_node_dup` could not finish is tried
again at its new place before the copying call returns.

### Features, FeatureSet, FeaturesProofs

`Features` has the frames of the recursion over if-feature statements, for any
graph of statements; arrays are sets, so every order is covered. `before`,
`target` and `visited` are history variables for the proofs and for the mapping
to `FeatureSet`, where a call takes effect in one step.

### SchemaTree

Nodes are added one by one below the nodes that are open in the document;
`check_id` is the walk of `lys_check_id` step by step, and `lys_getnext` the loop
with its two variables. A uses may get its children at any time, which is what
happens when its grouping is defined behind it; until then it is empty, and so is
a choice or case that has no node. There the walks end too early (see "Where the
code differs"): the history variable `unseen` has for each node those that stood
behind an empty one when it was added, and `TreeSound` is exact about them.
`BehindEmpty` says it by document order, not by the walk.

### YinStatements, YangPrinter, Statements

The thirty or so readers of `parser_yin.c` share one shape, and `Statements` has
this shape as its actions: the substatements all nodes have, the first loop, the
allocation of the arrays, the second loop over the elements that are still
linked, the child nodes. What differs is in rows: `YinStatements` has for each
statement what its reader stores once, counts and fills, and what
`printer_yin.c` prints; `YangPrinter` has the parts `printer_yang.c` prints. A
substatement is its name, an argument out of those the code tells apart, and a
number where it is compared. `Loop` is a walk over the linked elements
(`LY_TREE_FOR`), one `LoopStep` each. The statement is then printed and what was
printed is read again by the same operators. `MaxSubs` and `MaxItems` bound the
statements that are read.

`Misread` and `Unprinted` name the pairs of statement and substatement that the
code is known to lose (see "Where the code differs"); the properties say
nothing about statements with them.

### Deviations

`h` is the heap: the four pointers, the name and the properties of every node of
one module, and of the shallow copies a deviation makes. Reading a deviating
module is an action for each deviation, an end or an error; printing is two
actions, since the tree can be seen between the exchange of the nodes and the
exchange back. A statement that crashes the reader (a target that is not found, a
must to be replaced through a wrong pointer) leaves `pc` at "crashed", after which
nothing happens. A deviating module that turns out to be in the context already
(`parser_yin.c:5424`) and the error path of a deviating submodule (5322) are left
out. `lys_node_switch`, `lys_node_unlink` and `lys_node_addchild` are
translated assignment by assignment, because each reads fields that the one
before has written. A walk over the pointers is cut after as many steps as there
are nodes. `saved` is the heap at the beginning of a printing or a reading.

### XPathSet, XPathEval, XPath, XPathRef

`XPathSet` has the results of the evaluator and what moves along a path and
operators do to them; `XPathEval` the way from lexemes to tokens, the check of the
grammar that notes the operators of each operand in stacks, and the recursive
descent that evaluates the tokens. An evaluation is sequential and touches
nothing but its own set, so it is one action (`lyxp_eval`); the actions of `XPath`
are the steps a caller sees: splitting, checking, evaluating, and what
`lyd_get_node` and `resolve_must` make of the result. Items of a set are pairs
of a node and a kind as in the code. Numbers are integers, strings are sequences of
pieces; the functions on characters are left out. An assert that fails is the
outcome "crash", because the default build is a debug build.

`XPathRef` models no code. It has the grammar of the comment in `xpath.h` as a
recursive recogniser, and the meaning of a tree of an expression: sets of nodes,
document order, and the values of operators and functions. Requests are generated
from such trees, so no property depends on the code's own reading of a text.

## The runs

| Run | Instance | What it shows |
|---|---|---|
| `dict` | 2 threads, 3 contents of which 2 collide, 3 addresses, up to 2 references each, malloc may fail | interning, counters, no lost string, refinement of `StringPool` |
| `tree` | a container, two instances of a leaf, a leafref; documents with and without them | rings and parents, refinement of `Forest`, leafrefs cleared, nothing invalid marked valid |
| `load` | two search paths with 7 and 9 documents | closure, uniqueness, no leaks, every call returns |
| `identity` | 5 modules, 4 loads | exact identityrefs, acyclic bases, refusals only for a reason |
| `uses` | all ways for three groupings to use each other and an undefined one, three sets of typedefs | exact copies and counters, order does not matter, reading ends |
| `features` | 128 graphs over 4 features of a module, its submodule and an import, also circular ones; 4 frames | refinement of `FeatureSet`; a call returns if and only if it meets no circle |
| `schema_tree` | every tree of 5 nodes of 6 kinds with 3 names | unique names but behind an empty uses, choice or case; complete enumeration, no refusal without a clash |
| `statements` | 36 statements with up to two substatements (three bits or enums) in every kind of place | arrays filled exactly, structures faithful, refusals for a reason, numbers unique, printing and reading again changes nothing, the printers agree |
| `deviations` | a module with 7 nodes, 2 deviating modules with up to 2 deviations of a list, its key, a leaf and a container | deviates have their effect, the original is printed, printing leaves no trace |
| `deviations_rejected` | the same module, a deviating module that fails | violation: the target of the deviation is lost |
| `xpath` | 61 000 texts of up to 5 lexemes; 4 600 requests from up to 10 contexts of 3 documents | stacks consumed exactly, values and node sets as XPath has them, in document order, accepted texts as in the grammar |
| `xpath_lazy` | `and` and `or` with an operand that need not be evaluated | violation: the rest of the expression is read from the wrong place |

The properties, one by one, with the definitions they are made of:

* `dict`: `Interned`, `RefcountExact`, `UsedExact`, `RemovalFresh`, `NoLeak`,
  `ImplementsPool`. The type invariant is proved.
* `tree`: `TreeWhole` (types, rings, parents), `TargetLeaves`, `ValidTree` (in every
  state, if `lyd_validate` of any node succeeds, what it goes over is marked valid,
  has no duplicate and no leafref without a target), `ImplementsForest`.
* `load`: `Closed`, `ListOK` (types, namespaces, newest revisions), `MemoryExact`
  (no orphans, nothing freed twice), `CallsReturn`.
* `identity`: `BaseGraph` (types, no circles, every base knows its derived),
  `IdentrefExact`, `RefusedIffUnsound`.
* `uses`: `CopiesExact` (types, counters, copies), `AcceptedIffSound`, `Returns`.
* `features`: `Promised`, `Returns`. The type invariant is proved.
* `schema_tree`: `TreeSound` (types, unique names but behind an empty uses, choice or
  case), `GetnextAll`, `RefusedClash`.
* `statements`: `ArraysFull`, `Faithful`, `RefusedIff`, `NumbersUnique`,
  `RoundTrip`, `PrintersAgree`.
* `deviations`: `PrintedOriginal`, `PrintRestores`, `Applied`.
* `xpath`: `StacksUsed`, `EvalExact`, `DocOrder`, `GrammarExact`.

### Why the bounds are enough

* Two threads are enough for every race on a lock: what a third could do between
  two steps of one thread, the second can. Two colliding contents make the chain
  long enough for a static and a chained record, and both orders of removal.
  Three addresses let a freed one be reused while two are held. The number of
  references is bounded in the callers' guard (`MaxHeld`); the proofs need no bound.
* In `tree` four nodes give a first, a middle and a last sibling below one parent
  and lists with and without a parent; one value suffices because the
  properties of this run compare values for presence only. There is one container,
  so the case of `resolve_data` that passes over a container does not occur in the
  run; the proofs cover it.
* In `load` the first path has two revisions, a clash of namespaces, a circle of
  two modules below a third and a module that fails after its import; the second
  a submodule reached twice, imports that reach a module through a submodule, a
  circle of includes and an include of something that is no submodule. The list of
  modules starts with two entries, so it grows several times.
* Four loads in `identity` are enough for a module, one that builds on it, a
  repetition of either, and one that fails.
* Five nodes in `schema_tree` are a choice with two cases and their leaves, or a
  uses between two others. Names are interchangeable, so TLC may permute them.
* Two substatements in `statements` are every pair: a duplicate, an order, and a
  single one with a counted one. What a statement must have is added where two
  would never be accepted. Three bits or enums are a stated number, an automatic
  one after it and one that meets either; the highest numbers are 2, so that the
  end of the range is reached.
* In `deviations` the list is in the middle of its siblings, the leaf is the last of
  them, the key an only child and the container in the middle of the top level. No
  target is deviated by two statements (`Again`), which the code does not get right.
* In `xpath` every pair of steps and every triple and some quadruples of operators
  occur, with one list of two instances, state data below configuration, an
  attribute, an rpc and a notification. Texts of four of 15 lexemes have every
  bracket, operator and name after every other one. `Junk` is what memory that was
  not initialised may hold.

* In `features` the two features of the module may refer to each other, to that of
  the submodule and to the imported one, which may refer to itself. A chain of
  statements without a circle has at most four features, so four frames are the
  stack that just suffices. After an overflow the process is gone and nothing
  follows, therefore deadlock is not checked.

### Fairness

`load`, `uses` and `features` assume that a call that has begun goes on
(`WF` of the steps inside a call): the code is sequential there and does not
wait for anything. Nothing is assumed about the caller. The other runs have no
liveness property.

## The proofs

`DictProofs` proves for any number of threads, contents, buckets and addresses
that the type invariant, `Interned`, `RefcountExact`, `UsedExact` and
`RemovalFresh` hold and that the content behind a held pointer is stable
(`HeldStringStable`). The inductive invariant `IInv` is the conjunction of these
with three facts that no property states: a thread between lock and unlock owns
the lock (`MutualExclusion`); a string that a zerocopy insert has not handed over
yet is in no record, held by nobody, and no other thread's (`BufferPrivate`); and
the set of stored addresses is finite, so that it can be counted. The counter is
only exact together with the removals in flight: between its call and its
critical section `lydict_remove` has given up its reference while the record
still counts it. That reference is also why the string cannot be freed
before it is hashed. There is one lemma per action; those that touch a chain go
through three lemmas on what a chain is after a record was counted, added or
taken out. Assumed are a finite set of threads, a hash that maps contents to
buckets and that `None` is none of the other values. From the same invariant follow
two theorems on steps. `TableIsPool` is the refinement: `AllRecs` is the table as a set of
records, in which by `Interned` a content occurs at most once, and each critical
section replaces, adds or takes out one record of it, which is one step of
`StringPool`; all other steps leave the records alone. `StringsOwned` is `NoLeak`: no
step but `dict_insert_nomem` leaves a live string without a record and without an
insert that still has it.

`FeaturesProofs` proves the type invariant, and two theorems under a condition on
the if-feature statements each:

* `KeepsPromise`: when features of submodules have no if-feature statements
  (`SubmodulesPlain`), the recursion implements `FeatureSet`. Circular statements
  are allowed. The invariant `Progress` says that what is visited lies in the
  set of features to be reached, and that the visited and the waiting features
  together contain the named ones and everything the visited ones refer to. When
  nothing waits any more, the visited features are a closed set that contains
  the named ones, hence all of `Reach`.
* `StackSuffices`: when features can be ranked so that each refers to lower ones
  (`Layered`), the recursion is never deeper than there are ranks. The invariant
  says that everything waiting in the frame at depth `k` has a rank of at most
  `MaxDepth - k + 1`. Without the condition it is false: see the second part of `Returns`.

`ClosureProofs` proves that `Closure` is the least closed set (`ClosureLeast`). The
theorems of the library on induction have operators as parameters, which none of
the provers can instantiate, so the module begins with induction for sets of
numbers, and derives from it that a function may be defined by recursion on
numbers (`RecursionOnNat`) and that a growing chain of subsets of a finite set
stops growing after as many steps as the set has elements.

`IdentityProofs` proves the three properties of `Identity` for any modules and any
number of calls. Assumed are finitely many modules, names that occur once, and
that `None` is no other value. `GraphInv` is the inductive invariant behind
`BaseGraph`: calls have numbers of their own, imported modules are in the
context, `live` is what the context and the current reader have, a base that is
set is the one the statement names in the right copy of the module (`BaseNamed`),
and what is on the list waits for a base that is not before it (`Pending`).
`BaseNamed` is why freeing a module leaves no base pointing to it: only the module
itself can have bases in a copy that is not in the context yet. With `Pending`, a
failure to resolve an item after all identities have been read means that the name
is undefined or a circle of bases exists, and circles of base pointers are circles
of names; that gives `OrderIrrelevant`, with `Verdicts` as the part of the invariant
that remembers what the calls returned. `IdentrefsExact` has the
hypothesis `Ordered`: in a module that can be accepted, an identity that others of
this module are derived from comes after its own base. Without it the code is
wrong (see "Where the code differs", `resolve.c:3164`). Its invariant `LinkInv` says
that the lists have exactly the derived identities among those that are
alive, and that they name nobody the next calls could allocate.

`LoadProofs` proves `Closed` and `ListOK` of `ModuleLoad` (`ContextClosed`,
`ContextListed`) for any documents, search paths and sets of addresses, in every
state: in the middle of a call and on the error paths too. Assumed are the types of documents
(`DocType`), a list of modules that does not begin with size 0 (`SizeType`), addresses
that are numbers (`AddrType`), and that `None` is none of the other values (`NoneType`).
`Closed` is not inductive, since a module enters the
context in one step with all that its reader collected in many. The invariant
`LoadInv` therefore speaks of the readers as well:

* `Readers`: every reader has a structure of its own that is alive and not in the
  context; a module is its own main module, and the reader of a submodule stands
  directly above a reader of the same module. So a failing reader frees nothing that
  the context or another reader has.
* `Families`: the submodules of a module, and of the submodules being read for it, are
  alive, are not being read any more, and belong to no other module. This is why
  freeing one module with its submodules leaves the others complete.
* `Imports`: what is imported is in the context. A module that is replaced by an
  equal one in the context is freed after the import was linked to the
  one that stays; nobody has linked it before, because only modules of the
  context are linked.
* `Positions`: the statements before the place of a reader are satisfied; the
  reader above it was started for the statement it is at (`Waits`), so that the name
  that is asked for is the name that comes back; and its own includes are in the first places of
  the array, the free places up to the number of its include statements
  (`Places`). The last is needed since submodules append their includes to the same
  array meanwhile, and an include that finds its submodule there takes the entry out
  and moves it.
* `Context`: the modules in the list have all their statements satisfied, and a
  namespace has one name.

The lemmas `FreeKeeps`, `PushKeeps`, `GrowKeeps`, `MergeKeeps`, `ListKeeps` and so on
are about one change of memory, list or readers each. An action makes several of
them: the end of a submodule, for example, merges, pops the reader and puts the
submodule into the place its include statement has. What the search returns is a lemma
(`SearchFacts`) by induction on the length of the list.

`UsesProofs` proves `CopiesExact` and `AcceptedIffSound` for documents with any
typedefs, groupings and uses, under the assumption that the names of a document
differ and that no grouping has as many nodes as the counter has values
(`CountersSuffice`; with 256 forward references the byte is 0 again and the grouping
is copied too early). The invariant `Inv` has these parts:

* `ReadInv` and `TreeInv`: the nodes at the top of a root are those read so far, as
  the document has them; every node belongs to a root.
* `TodoInv`, `UnresInv` and `Covered`: the calls on the stack are for different
  nodes of one root and the last is the item the loop is at; a node that is not
  resolved is in one place only, on the stack or on the list, and never in none.
* `CopyInv`: a uses that has its copies belongs to a grouping that is complete, has
  the same nodes below it, and is in no grouping that the copied one leads to; a
  uses without copies has nothing below it. A grouping that is complete never
  changes any more, because everything that adds a node works at a root with
  an unresolved uses; that is what keeps the copies equal.
* `NacmInv`: the counter is exactly the number of items that wait. Items are always
  nodes at the top of their root, which is why `CountersSuffice` can speak of the
  bodies of groupings: copies below a uses are resolved at once, as their grouping
  is complete.
* `TypeInv`: the typedefs with a base are those that lead to built-in types through
  others with a base.
* `CountInv`: what `unres_count` and `res_count` say about the items before `i`; with
  `res_count = 0` at the end of a pass, every item that is left is blocked.

An accepted document has nothing left, so all uses and typedefs are resolved and
`CopyInv` and `TypeInv` say that none leads to itself. A refused one has items that
are all blocked. If it were sound, a blocked uses would wait for a grouping that
has itself a blocked uses, and so on (`Descent`); the groupings passed never
repeat, and there are only finitely many. The same holds for typedefs.

`StatementsProofs` proves `ArraysFull`, `NumbersUnique` and `PrintersAgree` for all
36 statements and substatements of any number (`MaxSubs`, `MaxItems`), with any
highest position and value. Assumed is only that the rows are those of `AllKinds` and
that `Misread` has the name the reader of notifications loses. The argument:

* `RowFacts`: the rows of all readers are `Consistent`. What may occur once, what is
  counted and the children have different names; a second loop that tests no name
  comes after a first loop that has freed all but one name; a second loop that tests
  names tests the counted ones, but for the if-feature of a notification.
* A loop is a function on the number of elements it has seen (`LoopUnfolds`), so that
  what holds after one element (`CommonStepFacts`, `FirstStepFacts`,
  `SecondStepFacts`) holds after all of them by induction on that number.
* The first loop keeps `Counting`: a counter is the number of linked elements of its
  name, and nothing is linked that the second loop could take for something else.
  The second keeps `Filled`: an array has as many items as elements of its name were
  passed, or fewer when the reader has failed or does not know the name.
* `Numbered`: the counter for positions is above all bits, so that a position not
  below it needs no search; bits are sorted, and `SortedIn` puts a new one where it
  keeps them sorted. The counter for values may be equal to a value; that is why an
  assigned value can be one that was stated before (see "Where the code differs"), and
  why `NumbersUnique` is about stated values only.

`ReadInv` joins these for the parts of a reader. `SamePrinted` is the comparison of
the two tables of printed parts, row by row (`RowsAgree`), for every structure.

`DataTreeProofs` proves three of the four properties of `DataTree` for any number of
nodes, any documents and any sequence of calls. Assumed are finitely many addresses,
the kinds of nodes, documents that have no node twice and no container among the
children (`DocsType`), and that `None` is no node.

* `TreeStaysWhole`: `TreeWhole` says in terms of walks what the pointers are, and a
  walk is cut off after as many steps as there are addresses, so neither it nor its
  parts are inductive. The invariant `Spelled` is: there is a set of lists that the
  memory spells, `\E L : Repr(d, L)`. `Repr` has no walk in it. It says that the lists
  have no node in common (`Apart`) and all that are allocated (`Cover`), that next and
  prev follow each list and prev of the first is the last (`Ring`), that the parent
  of a list points to its first node (`OwnList`), and that a child pointer is that
  of the parent of a list (`OwnChild`). Given `Repr`, a walk delivers the list it
  starts in (`SiblingsList`, `ChildrenList`, by induction on its steps), which gives
  `TreeWhole`. Each operation replaces lists: `UnlinkRepr` cuts one node out and lets
  it stand alone, `AdoptRepr` and `JoinRepr` give a list to a parent without or with
  children, `PlaceRepr` puts a node that stands alone into a list, `NewRepr` and
  `ParseRepr` add lists, `FreedRepr` and `AllRepr` remove them, by induction on
  the nodes the loops have freed. The result of an operation is a predicate
  (`UnlinkDone`, `PlainDone`, `PlaceDone` and so on), and the longer calls are chains
  of them, as in the code.
* `PointersTaken`: `TargetLeaves` in every step. Its hypothesis is that no node is an
  instance of the leaf-list: with one the property is false, because `lyd_get_node2`
  refuses leaf-lists (see below). `RefKinds` is the part of the invariant that says
  that only leafrefs have a pointer, and only to an instance of the leaf they
  refer to; without it `lyd_unlink`, which looks for leafrefs of its own target
  kind, could miss some. `Loses` is the property for two memories; it is shown for
  one unlinked node and carried through the loops.
* `TreeIsForest`: the refinement `ImplementsForest`. `View` relates a set of lists to
  `tops` and `kids`, and says it without walks again; there is one view of a set of
  lists (`OneView`), so a view found in any way is what the refinement mapping
  computes (`ViewIs`). Most changes of the lists are a function on lists, and
  `ViewMap` carries a view over; with `ViewTop` and `ViewKids` for new lists it gives
  one lemma per operation (`UnlinkView`, `FreeView`, `PlainView`, `PlaceView`, ...).
  `CutFacts` and `NearbyFacts` say that the positions `Forest` chooses are the ones
  the pointers change. `lyd_change_leaf` and `lyd_validate` are stutters.

Only checked by TLC: liveness (`CallsReturn` and both `Returns`), which this prover
does not handle; `ValidTree` of `DataTree`, which is about what all operations do to
the flag `valid` and about duplicates in documents; `Faithful`, `RefusedIff` and
`RoundTrip` of `Statements`, which compare the loops with selections from the
statement; and the properties of `SchemaTree`, `Deviations` and `XPath`.
`Deviations` and the modules of XPath have recursive operators, as the evaluator is
a recursive descent, and are out of reach of the prover. `MemoryExact` of
`ModuleLoad` does not hold for every search path (see below), so a theorem would
need a condition on the documents for each way to break it. No property asks
whether the array of imports is large enough (`cap`), as it is not.

## Where the code differs

Two differences are runs with expected violations, `deviations_rejected` and
`xpath_lazy`, listed under "findings" in `PROJECT.json`. The others were met while
modelling; the instances of the passing runs avoid them, or the properties name
them as exceptions.

Dictionary, trees and loading:

* `dict.c:207`: when malloc of a chained record fails, `lydict_insert_zc` neither
  stores nor frees the string (`dict.h:68` says the value is freed). `NoLeak`
  names this as its only exception.
* `validation.c:321`: a leafref is resolved only when its pointer is NULL, and
  `lyd_unlink` finds no instances of a leaf-list and no leafrefs outside the tree
  of the target. A leaf-list entry is marked valid ("successfully validated
  including whole subtree", `tree_data.h:106`) with a pointer to a leaf that has
  left the tree. Nor does `lyd_change_leaf` look for the leafrefs to the leaf it
  changes: they stay valid with the old value.
* `resolve.c:2057`: for each further leaf of a container `resolve_data` steps over
  the next entry of its list, so the containers there are not searched.
* `parser_yin.c:5117`: a submodule that brings imports reallocates the array of its
  module without room for the import statements still to come; an import behind
  an include is stored behind the end of the array.
* `tree_data.c:863`: a leafref that is unlinked before its target keeps the pointer
  after the target is freed.
* `parser.c:167`: the search takes the first file with the name, whatever revision
  the import asks for.
* `parser_yin.c:5417`: two modules of one name and revision can both be in the
  context when their numbers of revision statements differ.
* `parser_yin.c:2461`: a submodule included by two submodules of one submodule is
  read twice, as includes reach the module only when a submodule is finished.
* `tree_schema.c:2014`: a submodule that fails in its head leaves the submodules it
  has included allocated.
* `parser_yin.c:4981`: a module that includes a submodule twice frees it twice on
  its error path.
* `parser_yin.c:5305`: including a document that is no submodule frees the list of
  unresolved items, which the caller goes on to use.
* `context.c:294`: with a callback, imported modules are marked as implemented.
* `resolve.c:3164`: an identity that is resolved before its own base never gets onto
  the list of the base's base, so whether an identityref accepts it depends on
  the order of the statements.
* `tree_schema.c:802`: the walk that compares identifiers ends at a uses, choice or
  case without children; names after it are not compared (the exception of
  `TreeSound`).
* `tree_schema.c:1611`: freeing a module leaves backlinks to its identities in the
  modules it imports.
* `resolve.c:2945`: a uses inside of its own grouping is copied without end.
* `resolve.c:3385`: the counter of unresolved uses is a byte and wraps at 256.
* `tree_schema.c:2572`: features of submodules are enabled without what they refer to.
* `tree_schema.c:2555`: circular if-feature statements are neither refused nor
  noticed by the recursion (the second
  part of `Returns`).
* `tree_schema.c:203`: `lys_getnext` ends a level at a uses, choice or case without
  data nodes.
* `tree_schema.c:806`: a leaf below a choice may have the name of an earlier case.
* `tree_schema.c:704`: the search for a grouping below a container stops at the
  container's last child that has children of its own.

Statements (`parser_yin.c`, `printer_yin.c`, `printer_yang.c`):

* `parser_yin.c:567`: a stated enum value equal to the counter of automatic values
  does not raise it (bits do), so the next automatic value is the same; and a
  stated -1 is taken for "not stated".
* `parser_yin.c:4330`: the second loop of a notification looks for "if-features",
  so its if-feature statements are counted and not stored.
* `parser_yin.c:2039`: a choice in an augment is read as a case.
* The YIN printer names the argument of an include "value" where the reader wants
  "module"; it does not print the NACM marks of rpc, notification, input and
  output, nor status, description and reference of input and output; the
  yang-version of a submodule is not stored.
* The bits for min-elements and max-elements of a refine are those of a status.
* A second input or output of an rpc and a second prefix of an import are not
  refused, a second revision of a date is only logged.
* NACM statements of nodes directly in a grouping are dropped.
* Array sizes are bytes and wrap after 255 items.
* `yang_print_text` does not encode the last line of a text.

Deviations (`parser_yin.c`, `printer.c`, `tree_schema.c`):

* `min_set` and `max_set` of a deviate are never set, so neither is printed, and
  `yin_print_deviation` prints `deviate[1].max`.
* Deleting a choice's default or a node's units leaves the old value
  (`Lost` names the latter).
* Replacing a must dereferences a NULL list, or, when an earlier unique has set it,
  indexes the fields behind the must pointer instead of the items
  (`parser_yin.c:1787`); a must of a deviate dangles after a
  later deviate reallocates the array.
* The error path frees the copy it has just put into the tree
  (`deviations_rejected`), and crashes for a target that is not supported. The
  failed module stays as an external import.
* When the target is not found there is no deviate yet, and `lys_deviation_free`
  dereferences it (`tree_schema.c:1776`).
* A deviating module that is read again and found in the context is freed with the
  originals of its deviations (`parser_yin.c:5424`), and the targets stay deviated.
* `lys_node_switch` is wrong for the first of several siblings and for the first
  and last node of the top level.
* A target deviated by two deviation statements is left without its deviations
  after printing, and a deviated child of a parent that is not supported later
  changes sides.
* The shallow copy has no NACM marks. `lys_deviation_free` frees `unique[j]` where
  it means the item of an inner loop.

XPath (`xpath.c`); `xpath.h:31` calls the evaluator fully compliant:

* An operand of `and` or `or` that need not be evaluated is not passed over
  (`xpath_lazy`).
* Comparing the order of two booleans, or of a node set and a boolean, recurses
  without end (4389).
* Arguments of functions are evaluated with an empty context: relative paths in
  `count()` and `not()` are empty.
* Only the first repeat of a predicate restores the stacks of the predicates nested
  in it; removing the node at the context position empties a set, which paths of
  several steps in predicates meet.
* Comparisons use the first node of a set only and an empty set as ""; the empty
  string is the number 0; `mod` by zero is undefined.
* `position()` outside of predicates is 0, and positions count over the whole set
  and not per parent.
* Attributes: two in a set abort a debug build (`!set_sort`), those of later
  top-level siblings are not found, `@x/y` reads an attribute as a node, `//@x`
  uses a position that was not initialised.
* `//.` and `//..` from the root take the first top-level node only, `//text()` is
  `text()`, `node()` is the set itself, `..` to the root aborts in `lyd_get_node`
  from a configuration node.
* `moveto_get_root` without when and must does not go to the first sibling; the
  context of an rpc sees output nodes.
* Lexer: `@node()` and `@text()` are refused; `or *(...)` is accepted as a function
  call when a name stands before it; names that begin with `or`, `and`, `mod` or
  `div` after an operand are split; `comment()` aborts.
* An entry of a stack is a byte.
* `set_fill_set` copies the capacity of a set but allocates only the nodes in use
  (`xpath.c:566`), so that a node inserted later is written past the end. The sets
  of the model have no capacity.
* `set_sort_compare` asserts that two elements at one position are the same
  (`xpath.c:997`). The model returns the result of the release build there; no set
  of the run has two.

## Plan

Done, in this order: the dictionary, which is below everything; the trees and the
loader, which carry the library's contracts; the resolver of identities,
groupings, types and features; the statements with both schema printers;
deviations; XPath.

Next:

1. Proofs. `Faithful` for the loops of `Statements`; `ValidTree` for `DataTree`;
   `MemoryExact` for documents that avoid the differences listed above.
2. `Restrictions`: `resolve_len_ran_interval` as an operator on sequences of
   intervals, checked against set intersection.
3. `Mandatory`: `ly_check_mandatory` and its walk on the trees of `SchemaTree`,
   checked against a definition by quantifiers.
4. The rest of `resolve_uses` (refine) and `resolve_augment`.
5. The unresolved items of data trees: when, must and instance-identifiers.

## Not modelled

Lexing of XML and JSON, and of dates, numbers and identifiers, works character by
character and has no state worth a model. The functions of XPath on the characters
of strings, `floor`, `ceiling`, `round`, `lang`, `namespace-uri` and `div` are left
out for the same reason. The code of `xpath.c` that evaluates expressions on schema
trees is commented out. The tree, XML, JSON and info printers only read and their
output is not read back. `ly_ctx_info` copies the list of modules. Logging is per
thread and has no influence on the rest. The reasons are listed by component in
`PROJECT.json`.
