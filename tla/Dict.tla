-------------------------------- MODULE Dict --------------------------------
(***************************************************************************)
(* The string dictionary of a libyang context (src/src/dict.c).            *)
(*                                                                         *)
(* Every name, value and text of the schema and data trees is interned     *)
(* here: lydict_insert returns a pointer to the one stored copy and counts *)
(* a reference, lydict_remove gives one reference back.  The table has a   *)
(* fixed number of buckets; the records of a bucket form a chain whose     *)
(* first record is static and whose others are malloc'ed.  Threads share   *)
(* the dictionary under ctx->dict.lock; lydict_remove reads ctx->dict.used *)
(* and the string itself before it takes the lock.                         *)
(*                                                                         *)
(* A string's content is a member of Values and its address a member of    *)
(* Addr, which malloc hands out and may hand out again after a free: the   *)
(* code compares contents in dict_insert and addresses in lydict_remove.   *)
(***************************************************************************)
EXTENDS Integers, Sequences, FiniteSets

CONSTANTS
  Threads,       \* threads that share the context
  Values,        \* string contents
  Buckets,       \* indexes of recs[]: DICT_SIZE of them in the code
  HashOf,        \* dict_hash(value) & hash_mask, for every content
  Addr,          \* heap addresses a string may live at
  MaxHeld,       \* bound: the callers ask for one more reference to a string
                 \* only while they hold fewer than this (uint32_t in the code)
  None           \* no thread, no address, no content

ASSUME ThreadsFinite == IsFiniteSet(Threads)
ASSUME HashType == HashOf \in [Values -> Buckets]
ASSUME NoneOutside == None \notin Threads \cup Values \cup Addr
ASSUME MaxHeldNat == MaxHeld \in Nat

VARIABLES
  chain,  \* bucket -> sequence of its records, the static one first
  used,   \* ctx->dict.used
  lock,   \* owner of ctx->dict.lock
  pc,     \* where each thread is
  arg,    \* the operation each thread is executing
  heap,   \* address -> content of the live string there, or None
  held    \* address -> references the callers hold to the string there

vars == <<chain, used, lock, pc, arg, heap, held>>

Rec == [value : Values, addr : Addr, refcount : Nat]
PCs == {"idle", "ins_lock", "ins", "ins_unlock", "rm_lock", "rm", "rm_unlock"}
NoArg == [val |-> None, addr |-> None]

Init ==
  /\ chain = [b \in Buckets |-> << >>]
  /\ used = 0
  /\ lock = None
  /\ pc = [t \in Threads |-> "idle"]
  /\ arg = [t \in Threads |-> NoArg]
  /\ heap = [a \in Addr |-> None]
  /\ held = [a \in Addr |-> 0]

-----------------------------------------------------------------------------
(* Helpers on chains.                                                      *)

\* The positions of a bucket's chain whose record satisfies the test.
WithValue(b, v) == {i \in 1..Len(chain[b]) : chain[b][i].value = v}
WithAddr(b, a) == {i \in 1..Len(chain[b]) : chain[b][i].addr = a}

\* A chain without its i-th record.  Removing the static record moves the
\* next one into its place (the memcpy), which is the same chain.
Without(c, i) == [j \in 1..(Len(c) - 1) |-> IF j < i THEN c[j] ELSE c[j + 1]]

\* A chain with d more references to its i-th record.
Counted(c, i, d) == [c EXCEPT ![i] = [c[i] EXCEPT !.refcount = c[i].refcount + d]]

\* dict_insert appends behind the last record.
Grown(c, r) == [j \in 1..(Len(c) + 1) |-> IF j <= Len(c) THEN c[j] ELSE r]

Stored == {a \in Addr : \E b \in Buckets : WithAddr(b, a) # {}}
Removing(a) == {t \in Threads : pc[t] \in {"rm_lock", "rm"} /\ arg[t].addr = a}
Quiet == \A t \in Threads : pc[t] = "idle"

\* The bound on the callers.
MoreWanted(v) == \A a \in Addr : heap[a] = v => held[a] < MaxHeld

Goto(t, label) == pc' = [pc EXCEPT ![t] = label]

-----------------------------------------------------------------------------
(* lydict_insert and lydict_insert_zc                                      *)

\* lydict_insert(ctx, value, len): the caller keeps its own copy.
lydict_insert(t, v) ==
  /\ pc[t] = "idle"
  /\ MoreWanted(v)
  /\ Goto(t, "ins_lock")
  /\ arg' = [arg EXCEPT ![t] = [val |-> v, addr |-> None]]
  /\ UNCHANGED <<chain, used, lock, heap, held>>

\* lydict_insert_zc(ctx, value): the caller passes a malloc'ed string of its
\* own, the dictionary takes it over.
lydict_insert_zc(t, v, a) ==
  /\ pc[t] = "idle"
  /\ MoreWanted(v)
  /\ heap[a] = None
  /\ heap' = [heap EXCEPT ![a] = v]
  /\ Goto(t, "ins_lock")
  /\ arg' = [arg EXCEPT ![t] = [val |-> v, addr |-> a]]
  /\ UNCHANGED <<chain, used, lock, held>>

InsertLock(t) ==
  /\ pc[t] = "ins_lock"
  /\ lock = None
  /\ lock' = t
  /\ Goto(t, "ins")
  /\ UNCHANGED <<chain, used, arg, heap, held>>

\* Mutant: the reference is handed out without being counted.
dict_insert_found_uncounted(t) ==
  LET v == arg[t].val
      b == HashOf[v] IN
  /\ pc[t] = "ins"
  /\ \E i \in WithValue(b, v) : held' = [held EXCEPT ![chain[b][i].addr] = @ + 1]
  /\ heap' = [a \in Addr |-> IF a = arg[t].addr THEN None ELSE heap[a]]
  /\ Goto(t, "ins_unlock")
  /\ UNCHANGED <<chain, used, lock, arg>>

\* Mutant: the caller's string is not freed in the zerocopy variant.
dict_insert_found_unfreed(t) ==
  LET v == arg[t].val
      b == HashOf[v] IN
  /\ pc[t] = "ins"
  /\ \E i \in WithValue(b, v) :
       /\ chain' = [chain EXCEPT ![b] = Counted(chain[b], i, 1)]
       /\ held' = [held EXCEPT ![chain[b][i].addr] = @ + 1]
  /\ Goto(t, "ins_unlock")
  /\ UNCHANGED <<used, lock, arg, heap>>

\* The value is already in its chain: count one more reference, and free the
\* caller's string in the zerocopy variant.
dict_insert_found(t) ==
  LET v == arg[t].val
      b == HashOf[v] IN
  /\ pc[t] = "ins"
  /\ \E i \in WithValue(b, v) :
       /\ chain' = [chain EXCEPT ![b] = Counted(chain[b], i, 1)]
       /\ held' = [held EXCEPT ![chain[b][i].addr] = @ + 1]
  /\ heap' = [a \in Addr |-> IF a = arg[t].addr THEN None ELSE heap[a]]
  /\ Goto(t, "ins_unlock")
  /\ UNCHANGED <<used, lock, arg>>

\* Mutant: only the first record of the chain is compared.
dict_insert_new_firstonly(t, a) ==
  LET v == arg[t].val
      b == HashOf[v] IN
  /\ pc[t] = "ins"
  /\ 1 \notin WithValue(b, v)
  /\ IF arg[t].addr = None THEN heap[a] = None ELSE a = arg[t].addr
  /\ chain' = [chain EXCEPT ![b] = Grown(chain[b], [value |-> v, addr |-> a, refcount |-> 1])]
  /\ used' = used + 1
  /\ heap' = [heap EXCEPT ![a] = v]
  /\ held' = [held EXCEPT ![a] = 1]
  /\ Goto(t, "ins_unlock")
  /\ UNCHANGED <<lock, arg>>

\* The value is new: a record at the end of its chain, the static one when
\* the bucket is empty.  The string is the caller's, or a fresh copy.
dict_insert_new(t, a) ==
  LET v == arg[t].val
      b == HashOf[v] IN
  /\ pc[t] = "ins"
  /\ WithValue(b, v) = {}
  /\ IF arg[t].addr = None THEN heap[a] = None ELSE a = arg[t].addr
  /\ chain' = [chain EXCEPT ![b] = Grown(chain[b], [value |-> v, addr |-> a, refcount |-> 1])]
  /\ used' = used + 1
  /\ heap' = [heap EXCEPT ![a] = v]
  /\ held' = [held EXCEPT ![a] = 1]
  /\ Goto(t, "ins_unlock")
  /\ UNCHANGED <<lock, arg>>

\* A malloc failed: NULL is returned and nothing is stored.  The static
\* record needs no memory of its own, so a zerocopy insert into an empty
\* bucket cannot fail.
dict_insert_nomem(t) ==
  LET v == arg[t].val
      b == HashOf[v] IN
  /\ pc[t] = "ins"
  /\ WithValue(b, v) = {}
  /\ arg[t].addr = None \/ chain[b] # << >>
  /\ Goto(t, "ins_unlock")
  /\ UNCHANGED <<chain, used, lock, arg, heap, held>>

InsertUnlock(t) ==
  /\ pc[t] = "ins_unlock"
  /\ lock' = None
  /\ Goto(t, "idle")
  /\ arg' = [arg EXCEPT ![t] = NoArg]
  /\ UNCHANGED <<chain, used, heap, held>>

-----------------------------------------------------------------------------
(* lydict_remove                                                           *)

\* A caller gives back a reference it holds.  The check of ctx->dict.used and
\* strlen(value) run before the lock is taken.
lydict_remove(t, a) ==
  /\ pc[t] = "idle"
  /\ held[a] > 0
  /\ held' = [held EXCEPT ![a] = @ - 1]
  /\ IF used = 0
       THEN UNCHANGED <<pc, arg>>
       ELSE /\ Goto(t, "rm_lock")
            /\ arg' = [arg EXCEPT ![t] = [val |-> heap[a], addr |-> a]]
  /\ UNCHANGED <<chain, used, lock, heap>>

\* A caller passes a string that was never in the dictionary.
lydict_remove_foreign(t, v) ==
  /\ pc[t] = "idle"
  /\ used # 0
  /\ Goto(t, "rm_lock")
  /\ arg' = [arg EXCEPT ![t] = [val |-> v, addr |-> None]]
  /\ UNCHANGED <<chain, used, lock, heap, held>>

RemoveLock(t) ==
  /\ pc[t] = "rm_lock"
  /\ lock = None
  /\ lock' = t
  /\ Goto(t, "rm")
  /\ UNCHANGED <<chain, used, arg, heap, held>>

\* record not found: unlock and return
remove_notfound(t) ==
  /\ pc[t] = "rm"
  /\ WithAddr(HashOf[arg[t].val], arg[t].addr) = {}
  /\ Goto(t, "rm_unlock")
  /\ UNCHANGED <<chain, used, lock, arg, heap, held>>

\* one reference less, others remain
remove_decrement(t) ==
  LET b == HashOf[arg[t].val] IN
  /\ pc[t] = "rm"
  /\ \E i \in WithAddr(b, arg[t].addr) :
       /\ chain[b][i].refcount # 1
       /\ chain' = [chain EXCEPT ![b] = Counted(chain[b], i, -1)]
  /\ Goto(t, "rm_unlock")
  /\ UNCHANGED <<used, lock, arg, heap, held>>

\* Mutant: used is not given back.
remove_last_used(t) ==
  LET b == HashOf[arg[t].val] IN
  /\ pc[t] = "rm"
  /\ \E i \in WithAddr(b, arg[t].addr) :
       /\ chain[b][i].refcount = 1
       /\ chain' = [chain EXCEPT ![b] = Without(chain[b], i)]
  /\ heap' = [heap EXCEPT ![arg[t].addr] = None]
  /\ Goto(t, "rm_unlock")
  /\ UNCHANGED <<used, lock, arg, held>>

\* Mutant: the record disappears with any reference that is given back.
remove_last_early(t) ==
  LET b == HashOf[arg[t].val] IN
  /\ pc[t] = "rm"
  /\ \E i \in WithAddr(b, arg[t].addr) :
       chain' = [chain EXCEPT ![b] = Without(chain[b], i)]
  /\ heap' = [heap EXCEPT ![arg[t].addr] = None]
  /\ used' = used - 1
  /\ Goto(t, "rm_unlock")
  /\ UNCHANGED <<lock, arg, held>>

\* the last reference: free the string and take the record out of its chain
remove_last(t) ==
  LET b == HashOf[arg[t].val] IN
  /\ pc[t] = "rm"
  /\ \E i \in WithAddr(b, arg[t].addr) :
       /\ chain[b][i].refcount = 1
       /\ chain' = [chain EXCEPT ![b] = Without(chain[b], i)]
  /\ heap' = [heap EXCEPT ![arg[t].addr] = None]
  /\ used' = used - 1
  /\ Goto(t, "rm_unlock")
  /\ UNCHANGED <<lock, arg, held>>

RemoveUnlock(t) ==
  /\ pc[t] = "rm_unlock"
  /\ lock' = None
  /\ Goto(t, "idle")
  /\ arg' = [arg EXCEPT ![t] = NoArg]
  /\ UNCHANGED <<chain, used, heap, held>>

-----------------------------------------------------------------------------
\* ly_ctx_destroy frees every record whatever its count (lydict_clean); a new
\* context starts from lydict_init.  No thread may be inside the dictionary,
\* and the callers give up the strings of the old context.
lydict_clean ==
  /\ Quiet
  /\ \E a \in Addr : held[a] > 0
  /\ chain' = [b \in Buckets |-> << >>]
  /\ used' = 0
  /\ heap' = [a \in Addr |-> IF a \in Stored THEN None ELSE heap[a]]
  /\ held' = [a \in Addr |-> 0]
  /\ UNCHANGED <<lock, pc, arg>>

Body(t) ==
  \/ dict_insert_found(t)
  \/ \E a \in Addr : dict_insert_new(t, a)
  \/ dict_insert_nomem(t)
  \/ InsertUnlock(t)
  \/ remove_notfound(t)
  \/ remove_decrement(t)
  \/ remove_last(t)
  \/ RemoveUnlock(t)

Next ==
  \/ \E t \in Threads :
       \/ \E v \in Values : lydict_insert(t, v) \/ lydict_remove_foreign(t, v)
       \/ \E v \in Values, a \in Addr : lydict_insert_zc(t, v, a)
       \/ \E a \in Addr : lydict_remove(t, a)
       \/ InsertLock(t)
       \/ RemoveLock(t)
       \/ Body(t)
  \/ lydict_clean

Spec == Init /\ [][Next]_vars

-----------------------------------------------------------------------------
(* Properties                                                              *)

TypeOK ==
  /\ chain \in [Buckets -> Seq(Rec)]
  /\ used \in Int
  /\ lock \in Threads \cup {None}
  /\ pc \in [Threads -> PCs]
  /\ arg \in [Threads -> [val : Values \cup {None}, addr : Addr \cup {None}]]
  /\ heap \in [Addr -> Values \cup {None}]
  /\ held \in [Addr -> Nat]

\* The pointer a caller holds is what the whole library compares and frees:
\* the string there is alive, its record sits in the bucket its content hashes
\* to, and no other record has its content or its address.
Interned ==
  /\ \A b \in Buckets : \A i \in 1..Len(chain[b]) :
       LET r == chain[b][i] IN heap[r.addr] = r.value /\ HashOf[r.value] = b
  /\ \A b, c \in Buckets : \A i \in 1..Len(chain[b]), j \in 1..Len(chain[c]) :
       (chain[b][i].value = chain[c][j].value \/ chain[b][i].addr = chain[c][j].addr)
         => b = c /\ i = j

\* A record's counter is exactly the references that are out: those the
\* callers hold and those lydict_remove calls are about to give back.
RefcountExact ==
  /\ \A b \in Buckets : \A i \in 1..Len(chain[b]) :
       LET r == chain[b][i] IN
         /\ r.refcount = held[r.addr] + Cardinality(Removing(r.addr))
         /\ r.refcount > 0
  /\ \A a \in Addr : held[a] > 0 \/ Removing(a) # {} => a \in Stored

\* used counts the records, so the unlocked test in lydict_remove never drops
\* the release of a reference that exists.
UsedExact == used = Cardinality(Stored)

\* While a caller holds a reference the string's content stays what it was:
\* no insert, release or address reuse by another thread changes it.
HeldStringStable ==
  [][\A a \in Addr : held[a] > 0 /\ held'[a] > 0 => heap'[a] = heap[a]]_vars

\* A live string belongs to a record, or to the caller of an insert that has
\* not taken it over yet.
Owned(a) == a \in Stored \/ \E t \in Threads : pc[t] \in {"ins_lock", "ins"} /\ arg[t].addr = a

\* Memory: a string that is alive never loses its owner, whoever inserts, removes
\* or destroys what; the one exception in the code is an insert that gets no memory
\* for its record (dict_insert returns NULL without freeing the caller's string).
NoLeak ==
  [][\A a \in Addr :
       (heap[a] # None => Owned(a)) /\ heap'[a] # None /\ ~Owned(a)' =>
         \E t \in Threads : arg[t].addr = a /\ dict_insert_nomem(t)]_vars

\* lydict_remove measures the string before it takes the lock and hashes it
\* after: the string it was called with is still the one at that address.
RemovalFresh ==
  \A t \in Threads : pc[t] \in {"rm_lock", "rm"} =>
    /\ arg[t].val \in Values
    /\ arg[t].addr # None => heap[arg[t].addr] = arg[t].val

\* The records of a content: at most one, by Interned.
RecordsOf(v) ==
  {chain[HashOf[v]][i] : i \in WithValue(HashOf[v], v)}

\* The references to a content and its address, as the pool has them.
CountOf(v) == IF RecordsOf(v) = {} THEN 0 ELSE (CHOOSE r \in RecordsOf(v) : TRUE).refcount
PtrOf(v) == IF RecordsOf(v) = {} THEN None ELSE (CHOOSE r \in RecordsOf(v) : TRUE).addr

Pool == INSTANCE StringPool WITH
  count <- [v \in Values |-> CountOf(v)], ptr <- [v \in Values |-> PtrOf(v)]

\* The chained, locked table implements the pool: whatever the threads'
\* interleaving, every insert and remove takes effect at one moment.
ImplementsPool == Pool!Spec
=============================================================================
