----------------------------- MODULE DictProofs -----------------------------
(* Proofs about the dictionary: its safety invariants hold for any number  *)
(* of threads, contents, buckets and addresses.                            *)
EXTENDS Dict, FiniteSetTheorems, SequenceTheorems, TLAPS

-----------------------------------------------------------------------------
(* Chains                                                                  *)

\* Changing the counter of the i-th record of a chain.
LEMMA CountedChain ==
  ASSUME NEW s \in Seq(Rec), NEW i \in 1..Len(s), NEW d \in Int,
         s[i].refcount + d >= 0
  PROVE  /\ Counted(s, i, d) \in Seq(Rec)
         /\ Len(Counted(s, i, d)) = Len(s)
         /\ \A j \in 1..Len(s) :
              /\ Counted(s, i, d)[j].value = s[j].value
              /\ Counted(s, i, d)[j].addr = s[j].addr
              /\ Counted(s, i, d)[j].refcount =
                   IF j = i THEN s[i].refcount + d ELSE s[j].refcount
PROOF
  <1> DEFINE r == [s[i] EXCEPT !.refcount = s[i].refcount + d]
  <1>1. s[i] \in Rec
    BY ElementOfSeq
  <1>2. /\ r \in Rec
        /\ r.value = s[i].value
        /\ r.addr = s[i].addr
        /\ r.refcount = s[i].refcount + d
    BY <1>1 DEF Rec
  <1>3. Counted(s, i, d) = [s EXCEPT ![i] = r]
    BY DEF Counted
  <1> HIDE DEF r
  <1>4. /\ [s EXCEPT ![i] = r] \in Seq(Rec)
        /\ Len([s EXCEPT ![i] = r]) = Len(s)
        /\ \A j \in 1..Len(s) : [s EXCEPT ![i] = r][j] = IF j = i THEN r ELSE s[j]
    BY <1>2, ExceptSeq
  <1> QED
    BY <1>1, <1>2, <1>3, <1>4

\* Taking the i-th record out of a chain.
LEMMA WithoutChain ==
  ASSUME NEW s \in Seq(Rec), NEW i \in 1..Len(s)
  PROVE  /\ Without(s, i) \in Seq(Rec)
         /\ Len(Without(s, i)) = Len(s) - 1
         /\ \A j \in 1..(Len(s) - 1) :
              Without(s, i)[j] = IF j < i THEN s[j] ELSE s[j + 1]
PROOF
  <1>1. Len(s) \in Nat /\ Len(s) - 1 \in Nat /\ \A j \in 1..Len(s) : s[j] \in Rec
    BY ElementOfSeq, LenProperties
  <1>2. \A j \in 1..(Len(s) - 1) : (IF j < i THEN s[j] ELSE s[j + 1]) \in Rec
    BY <1>1
  <1> QED
    BY <1>1, <1>2 DEF Without

\* Appending a record to a chain.
LEMMA GrownChain ==
  ASSUME NEW s \in Seq(Rec), NEW r \in Rec
  PROVE  /\ Grown(s, r) \in Seq(Rec)
         /\ Len(Grown(s, r)) = Len(s) + 1
         /\ \A j \in 1..(Len(s) + 1) :
              Grown(s, r)[j] = IF j <= Len(s) THEN s[j] ELSE r
PROOF
  <1>1. Len(s) \in Nat /\ \A j \in 1..Len(s) : s[j] \in Rec
    BY ElementOfSeq, LenProperties
  <1>2. \A j \in 1..(Len(s) + 1) : (IF j <= Len(s) THEN s[j] ELSE r) \in Rec
    BY <1>1
  <1> QED
    BY <1>1, <1>2 DEF Grown

-----------------------------------------------------------------------------
(* The inductive invariant                                                 *)

\* The mutex excludes: a thread between lock and unlock owns it, alone.
MutualExclusion ==
  \A t \in Threads : pc[t] \in {"ins", "ins_unlock", "rm", "rm_unlock"} <=> lock = t

\* A string handed over for zerocopy is the caller's alone until the lock is
\* held: it is alive, no record and no other caller has it.
BufferPrivate ==
  \A t \in Threads : pc[t] \in {"ins_lock", "ins"} =>
    /\ arg[t].val \in Values
    /\ arg[t].addr # None =>
         /\ heap[arg[t].addr] = arg[t].val
         /\ arg[t].addr \notin Stored
         /\ \A u \in Threads \ {t} :
              pc[u] \in {"ins_lock", "ins"} => arg[u].addr # arg[t].addr


\* Each part needs the others: the counters of RefcountExact show that a
\* string with a reference out has a record, Interned finds that record in the
\* bucket RemovalFresh looks in, and BufferPrivate keeps the strings on their
\* way in apart from the stored ones.
IInv ==
  /\ TypeOK
  /\ MutualExclusion
  /\ Interned
  /\ RefcountExact
  /\ UsedExact
  /\ IsFiniteSet(Stored)
  /\ BufferPrivate
  /\ RemovalFresh

\* The calls on their way to give back a reference form a finite set.
LEMMA RemovingFinite ==
  ASSUME NEW a PROVE IsFiniteSet(Removing(a)) /\ Cardinality(Removing(a)) \in Nat
PROOF
  <1>1. Removing(a) \in SUBSET Threads
    BY DEF Removing
  <1> QED
    BY <1>1, ThreadsFinite, FS_Subset, FS_CardinalityType

\* The records of the chains.
LEMMA RecTyped ==
  ASSUME TypeOK, NEW b \in Buckets, NEW i \in 1..Len(chain[b])
  PROVE  /\ chain[b] \in Seq(Rec)
         /\ Len(chain[b]) \in Nat
         /\ chain[b][i] \in Rec
         /\ chain[b][i].value \in Values
         /\ chain[b][i].addr \in Addr
         /\ chain[b][i].refcount \in Nat
PROOF
  <1>1. chain[b] \in Seq(Rec)
    BY DEF TypeOK
  <1>2. chain[b][i] \in Rec /\ Len(chain[b]) \in Nat
    BY <1>1, ElementOfSeq, LenProperties
  <1> QED
    BY <1>1, <1>2 DEF Rec

\* A string that has a record is alive, and its record is in the bucket of its
\* content.
LEMMA StoredAlive ==
  ASSUME TypeOK, Interned, NEW a \in Stored
  PROVE  heap[a] \in Values /\ WithAddr(HashOf[heap[a]], a) # {}
PROOF
  <1>0. PICK b \in Buckets : WithAddr(b, a) # {}
    BY DEF Stored
  <1>1. PICK i \in 1..Len(chain[b]) : chain[b][i].addr = a
    BY <1>0 DEF WithAddr
  <1>2. chain[b][i] \in Rec
    BY RecTyped
  <1>3. heap[a] = chain[b][i].value /\ HashOf[heap[a]] = b
    BY <1>1 DEF Interned
  <1> QED
    BY <1>1, <1>2, <1>3 DEF WithAddr, Rec

\* A step that leaves the table, the memory and the references alone, and the
\* calls that give references back as they are.
LEMMA FrameInv ==
  ASSUME IInv, UNCHANGED <<chain, used, heap, held>>,
         \A a \in Addr : Removing(a)' = Removing(a)
  PROVE  Interned' /\ RefcountExact' /\ UsedExact' /\ IsFiniteSet(Stored)'
PROOF
  <1>1. Stored' = Stored
    BY DEF Stored, WithAddr
  <1>2. Interned'
    BY DEF IInv, Interned
  <1>3. RefcountExact'
    <2>1. \A b \in Buckets : \A i \in 1..Len(chain[b]) : chain[b][i].addr \in Addr
      BY RecTyped DEF IInv
    <2> QED
      BY <1>1, <2>1 DEF IInv, RefcountExact
  <1> QED
    BY <1>1, <1>2, <1>3 DEF IInv, UsedExact

\* The empty table satisfies the inductive invariant.
LEMMA InitIInv == Init => IInv
PROOF
  <1> SUFFICES ASSUME Init PROVE IInv
    OBVIOUS
  <1>1. \A b \in Buckets : chain[b] = << >> /\ Len(chain[b]) = 0
    BY DEF Init
  <1>2. Stored = {}
    BY <1>1 DEF Stored, WithAddr
  <1>3. \A a : Removing(a) = {}
    BY DEF Init, Removing
  <1>4. TypeOK
    BY DEF Init, TypeOK, PCs, NoArg
  <1>5. Interned /\ RefcountExact
    BY <1>1, <1>3 DEF Interned, RefcountExact, Init
  <1>6. UsedExact /\ IsFiniteSet(Stored)
    BY <1>2, FS_EmptySet DEF UsedExact, Init
  <1>7. MutualExclusion /\ BufferPrivate /\ RemovalFresh
    BY NoneOutside DEF Init, MutualExclusion, BufferPrivate, RemovalFresh
  <1> QED
    BY <1>4, <1>5, <1>6, <1>7 DEF IInv

-----------------------------------------------------------------------------
(* Calls, locking and unlocking                                            *)

\* Starting lydict_insert keeps it.
LEMMA CallInsert ==
  ASSUME IInv, NEW t \in Threads, NEW v \in Values, lydict_insert(t, v)
  PROVE  IInv'
PROOF
  <1> USE DEF lydict_insert, Goto
  <1>1. TypeOK'
    BY DEF IInv, TypeOK, PCs
  <1>2. \A a \in Addr : Removing(a)' = Removing(a)
    BY NoneOutside DEF IInv, TypeOK, Removing
  <1>3. Stored' = Stored
    BY DEF Stored, WithAddr
  <1>4. MutualExclusion'
    BY DEF IInv, TypeOK, MutualExclusion
  <1>5. BufferPrivate'
    BY <1>3 DEF IInv, TypeOK, BufferPrivate
  <1>6. RemovalFresh'
    BY DEF IInv, TypeOK, RemovalFresh
  <1> QED
    BY <1>1, <1>2, <1>4, <1>5, <1>6, FrameInv DEF IInv

\* So does lydict_remove of a string that is not of the dictionary.
LEMMA CallRemoveForeign ==
  ASSUME IInv, NEW t \in Threads, NEW v \in Values, lydict_remove_foreign(t, v)
  PROVE  IInv'
PROOF
  <1> USE DEF lydict_remove_foreign, Goto
  <1>1. TypeOK'
    BY DEF IInv, TypeOK, PCs
  <1>2. \A a \in Addr : Removing(a)' = Removing(a)
    BY NoneOutside DEF IInv, TypeOK, Removing
  <1>3. Stored' = Stored
    BY DEF Stored, WithAddr
  <1>4. MutualExclusion'
    BY DEF IInv, TypeOK, MutualExclusion
  <1>5. BufferPrivate'
    BY <1>3 DEF IInv, TypeOK, BufferPrivate
  <1>6. RemovalFresh'
    BY DEF IInv, TypeOK, RemovalFresh
  <1> QED
    BY <1>1, <1>2, <1>4, <1>5, <1>6, FrameInv DEF IInv

\* Taking the lock keeps it.
LEMMA Locking ==
  ASSUME IInv, NEW t \in Threads, InsertLock(t) \/ RemoveLock(t)
  PROVE  IInv'
PROOF
  <1> USE DEF InsertLock, RemoveLock, Goto
  <1>1. TypeOK'
    BY DEF IInv, TypeOK, PCs
  <1>2. \A a \in Addr : Removing(a)' = Removing(a)
    BY DEF IInv, TypeOK, Removing
  <1>3. Stored' = Stored
    BY DEF Stored, WithAddr
  <1>4. MutualExclusion'
    BY NoneOutside DEF IInv, TypeOK, MutualExclusion
  <1>5. BufferPrivate'
    BY <1>3 DEF IInv, TypeOK, BufferPrivate
  <1>6. RemovalFresh'
    BY DEF IInv, TypeOK, RemovalFresh
  <1> QED
    BY <1>1, <1>2, <1>4, <1>5, <1>6, FrameInv DEF IInv

\* Releasing the lock keeps it.
LEMMA Unlocking ==
  ASSUME IInv, NEW t \in Threads, InsertUnlock(t) \/ RemoveUnlock(t)
  PROVE  IInv'
PROOF
  <1> USE DEF InsertUnlock, RemoveUnlock, Goto
  <1>1. TypeOK'
    <2>1. NoArg \in [val : Values \cup {None}, addr : Addr \cup {None}]
      BY DEF NoArg
    <2>2. arg' \in [Threads -> [val : Values \cup {None}, addr : Addr \cup {None}]]
      BY <2>1 DEF IInv, TypeOK
    <2> QED
      BY <2>2 DEF IInv, TypeOK, PCs
  <1>2. \A a \in Addr : Removing(a)' = Removing(a)
    BY DEF IInv, TypeOK, Removing
  <1>3. Stored' = Stored
    BY DEF Stored, WithAddr
  <1>4. MutualExclusion'
    BY NoneOutside DEF IInv, TypeOK, MutualExclusion
  <1>5. BufferPrivate'
    <2>1. \A u \in Threads : pc'[u] \in {"ins_lock", "ins"} => u # t /\ pc[u] \in {"ins_lock", "ins"}
      BY DEF IInv, TypeOK
    <2>2. \A u \in Threads \ {t} : arg'[u] = arg[u]
      BY DEF IInv, TypeOK
    <2>3. UNCHANGED heap
      OBVIOUS
    <2> QED
      BY <1>3, <2>1, <2>2, <2>3 DEF IInv, BufferPrivate
  <1>6. RemovalFresh'
    BY DEF IInv, TypeOK, RemovalFresh
  <1> QED
    BY <1>1, <1>2, <1>4, <1>5, <1>6, FrameInv DEF IInv

\* A failed insert leaves everything as it is; so does a removal that finds no
\* record, because only a foreign string has none.
LEMMA NothingDone ==
  ASSUME IInv, NEW t \in Threads, dict_insert_nomem(t) \/ remove_notfound(t)
  PROVE  IInv'
PROOF
  <1> USE DEF dict_insert_nomem, remove_notfound, Goto
  <1>1. TypeOK'
    BY DEF IInv, TypeOK, PCs
  <1>2. \A a \in Addr : Removing(a)' = Removing(a)
    <2>1. CASE dict_insert_nomem(t)
      BY <2>1 DEF IInv, TypeOK, Removing
    <2>2. CASE remove_notfound(t)
      <3>1. arg[t].addr = None
        <4> SUFFICES ASSUME arg[t].addr # None PROVE FALSE
          OBVIOUS
        <4>1. arg[t].addr \in Addr /\ heap[arg[t].addr] = arg[t].val
          BY <2>2 DEF IInv, TypeOK, RemovalFresh
        <4>2. arg[t].addr \in Stored
          BY <4>1, <2>2 DEF IInv, RefcountExact, Removing
        <4> QED
          BY <4>1, <4>2, <2>2, StoredAlive DEF IInv
      <3> QED
        BY <2>2, <3>1, NoneOutside DEF IInv, TypeOK, Removing
    <2> QED
      BY <2>1, <2>2
  <1>3. Stored' = Stored
    BY DEF Stored, WithAddr
  <1>4. MutualExclusion'
    BY NoneOutside DEF IInv, TypeOK, MutualExclusion
  <1>5. BufferPrivate'
    BY <1>3 DEF IInv, TypeOK, BufferPrivate
  <1>6. RemovalFresh'
    BY DEF IInv, TypeOK, RemovalFresh
  <1> QED
    BY <1>1, <1>2, <1>4, <1>5, <1>6, FrameInv DEF IInv

\* The caller's buffer is a live string that nothing else refers to.
LEMMA CallInsertZc ==
  ASSUME IInv, NEW t \in Threads, NEW v \in Values, NEW a \in Addr, lydict_insert_zc(t, v, a)
  PROVE  IInv'
PROOF
  <1> USE DEF lydict_insert_zc, Goto
  <1>1. TypeOK'
    BY DEF IInv, TypeOK, PCs
  <1>2. \A x \in Addr : Removing(x)' = Removing(x)
    BY DEF IInv, TypeOK, Removing
  <1>3. Stored' = Stored
    BY DEF Stored, WithAddr
  <1>4. a \notin Stored
    BY StoredAlive, NoneOutside DEF IInv
  <1>5. \A x \in Stored : heap'[x] = heap[x]
    BY <1>4 DEF IInv, TypeOK, Stored
  <1>6. \A b \in Buckets : \A i \in 1..Len(chain[b]) :
           chain[b][i].addr \in Addr /\ chain[b][i].addr \in Stored
    <2> SUFFICES ASSUME NEW b \in Buckets, NEW i \in 1..Len(chain[b])
                 PROVE  chain[b][i].addr \in Addr /\ chain[b][i].addr \in Stored
      OBVIOUS
    <2> QED
      BY RecTyped DEF IInv, Stored, WithAddr
  <1>7. Interned'
    BY <1>5, <1>6 DEF IInv, Interned
  <1>8. RefcountExact'
    BY <1>2, <1>3, <1>6 DEF IInv, RefcountExact
  <1>9. UsedExact' /\ IsFiniteSet(Stored)'
    BY <1>3 DEF IInv, UsedExact
  <1>10. MutualExclusion'
    BY DEF IInv, TypeOK, MutualExclusion
  <1>11. BufferPrivate'
    BY <1>3, <1>4, NoneOutside DEF IInv, TypeOK, BufferPrivate
  <1>12. RemovalFresh'
    BY NoneOutside DEF IInv, TypeOK, RemovalFresh
  <1> QED
    BY <1>1, <1>7, <1>8, <1>9, <1>10, <1>11, <1>12 DEF IInv

\* The caller's reference becomes one that lydict_remove is about to give back;
\* it cannot find used = 0, because a string with a reference has a record.
LEMMA CallRemove ==
  ASSUME IInv, NEW t \in Threads, NEW a \in Addr, lydict_remove(t, a)
  PROVE  IInv'
PROOF
  <1> USE DEF lydict_remove, Goto
  <1>1. a \in Stored
    BY DEF IInv, TypeOK, RefcountExact
  <1>2. used # 0
    BY <1>1, FS_EmptySet DEF IInv, UsedExact
  <1>3. heap[a] \in Values
    BY <1>1, StoredAlive DEF IInv
  <1>4. TypeOK'
    <2>1. arg' \in [Threads -> [val : Values \cup {None}, addr : Addr \cup {None}]]
      BY <1>2, <1>3 DEF IInv, TypeOK
    <2>2. held' \in [Addr -> Nat]
      BY DEF IInv, TypeOK
    <2> QED
      BY <1>2, <2>1, <2>2 DEF IInv, TypeOK, PCs
  <1>5. Removing(a)' = Removing(a) \cup {t} /\ t \notin Removing(a)
    BY <1>2 DEF IInv, TypeOK, Removing
  <1>6. \A x \in Addr \ {a} : Removing(x)' = Removing(x)
    BY <1>2 DEF IInv, TypeOK, Removing
  <1>7. Cardinality(Removing(a)') = Cardinality(Removing(a)) + 1
    BY <1>5, RemovingFinite, FS_AddElement
  <1>8. Stored' = Stored
    BY DEF Stored, WithAddr
  <1>9. Interned'
    BY DEF IInv, Interned
  <1>10. RefcountExact'
    <2>1. ASSUME NEW b \in Buckets, NEW i \in 1..Len(chain[b])
          PROVE  chain[b][i].refcount =
                   held'[chain[b][i].addr] + Cardinality(Removing(chain[b][i].addr)')
      <3>1. chain[b][i].addr \in Addr /\ chain[b][i].refcount \in Nat
        BY RecTyped DEF IInv
      <3>2. chain[b][i].refcount =
              held[chain[b][i].addr] + Cardinality(Removing(chain[b][i].addr))
        BY DEF IInv, RefcountExact
      <3>3. CASE chain[b][i].addr = a
        BY <3>2, <3>3, <1>7, RemovingFinite DEF IInv, TypeOK
      <3>4. CASE chain[b][i].addr # a
        BY <3>1, <3>2, <3>4, <1>6 DEF IInv, TypeOK
      <3> QED
        BY <3>3, <3>4
    <2>2. ASSUME NEW x \in Addr, held'[x] > 0 \/ Removing(x)' # {}
          PROVE  x \in Stored
      BY <2>2, <1>1, <1>6 DEF IInv, TypeOK, RefcountExact
    <2> QED
      BY <2>1, <2>2, <1>8 DEF IInv, RefcountExact
  <1>11. UsedExact' /\ IsFiniteSet(Stored)'
    BY <1>8 DEF IInv, UsedExact
  <1>12. MutualExclusion'
    BY <1>2 DEF IInv, TypeOK, MutualExclusion
  <1>13. BufferPrivate'
    BY <1>2, <1>8 DEF IInv, TypeOK, BufferPrivate
  <1>14. RemovalFresh'
    BY <1>2, <1>3 DEF IInv, TypeOK, RemovalFresh
  <1> QED
    BY <1>4, <1>9, <1>10, <1>11, <1>12, <1>13, <1>14 DEF IInv

-----------------------------------------------------------------------------
(* The critical sections                                                   *)

\* A step changes the counter of the i-th record of bucket b by d, and no other.
CountedAt(b, i, d) ==
  \A c \in Buckets : \A j \in 1..Len(chain[c]) :
    /\ chain'[c][j].value = chain[c][j].value
    /\ chain'[c][j].addr = chain[c][j].addr
    /\ chain'[c][j].refcount =
         IF c = b /\ j = i THEN chain[c][j].refcount + d ELSE chain[c][j].refcount

\* A step that changes one counter keeps the shape of the table.
LEMMA CountedTable ==
  ASSUME TypeOK, NEW b \in Buckets, NEW i \in 1..Len(chain[b]), NEW d \in Int,
         chain[b][i].refcount + d >= 0,
         chain' = [chain EXCEPT ![b] = Counted(chain[b], i, d)]
  PROVE  /\ chain' \in [Buckets -> Seq(Rec)]
         /\ \A c \in Buckets : Len(chain'[c]) = Len(chain[c])
         /\ CountedAt(b, i, d)
         /\ Stored' = Stored
PROOF
  <1>1. chain[b] \in Seq(Rec)
    BY DEF TypeOK
  <1>2. /\ Counted(chain[b], i, d) \in Seq(Rec)
        /\ Len(Counted(chain[b], i, d)) = Len(chain[b])
        /\ \A j \in 1..Len(chain[b]) :
              /\ Counted(chain[b], i, d)[j].value = chain[b][j].value
              /\ Counted(chain[b], i, d)[j].addr = chain[b][j].addr
              /\ Counted(chain[b], i, d)[j].refcount =
                   IF j = i THEN chain[b][i].refcount + d ELSE chain[b][j].refcount
    BY <1>1, CountedChain
  <1>3. \A c \in Buckets : chain'[c] = IF c = b THEN Counted(chain[b], i, d) ELSE chain[c]
    BY DEF TypeOK
  <1>4. chain' \in [Buckets -> Seq(Rec)]
    BY <1>2 DEF TypeOK
  <1>5. \A c \in Buckets : Len(chain'[c]) = Len(chain[c])
    BY <1>2, <1>3
  <1>6. CountedAt(b, i, d)
    BY <1>2, <1>3 DEF CountedAt
  <1>7. \A c \in Buckets, x \in Addr : WithAddr(c, x)' = WithAddr(c, x)
    BY <1>5, <1>6 DEF WithAddr, CountedAt
  <1>8. Stored' = Stored
    BY <1>7 DEF Stored
  <1> QED
    BY <1>4, <1>5, <1>6, <1>8

\* A reference more to a string that has a record.
LEMMA InsertFound ==
  ASSUME IInv, NEW t \in Threads, dict_insert_found(t)
  PROVE  IInv'
PROOF
  <1> DEFINE b == HashOf[arg[t].val]
  <1>1. pc[t] = "ins" /\ arg[t].val \in Values /\ b \in Buckets
    BY HashType DEF dict_insert_found, IInv, BufferPrivate
  <1>2. PICK i \in WithValue(b, arg[t].val) :
          /\ chain' = [chain EXCEPT ![b] = Counted(chain[b], i, 1)]
          /\ held' = [held EXCEPT ![chain[b][i].addr] = @ + 1]
    BY DEF dict_insert_found
  <1>3. /\ heap' = [a \in Addr |-> IF a = arg[t].addr THEN None ELSE heap[a]]
        /\ pc' = [pc EXCEPT ![t] = "ins_unlock"]
        /\ UNCHANGED <<used, lock, arg>>
    BY DEF dict_insert_found, Goto
  <1> HIDE DEF b
  <1>4. i \in 1..Len(chain[b])
    BY DEF WithValue
  <1>5. /\ chain[b][i].addr \in Addr
        /\ chain[b][i].refcount \in Nat
    BY <1>1, <1>4, RecTyped DEF IInv
  <1>6. /\ chain' \in [Buckets -> Seq(Rec)]
        /\ \A c \in Buckets : Len(chain'[c]) = Len(chain[c])
        /\ \A c \in Buckets : \A j \in 1..Len(chain[c]) :
             /\ chain'[c][j].value = chain[c][j].value
             /\ chain'[c][j].addr = chain[c][j].addr
             /\ chain'[c][j].refcount =
                  IF c = b /\ j = i THEN chain[c][j].refcount + 1 ELSE chain[c][j].refcount
        /\ Stored' = Stored
    <2>1. chain[b][i].refcount + 1 >= 0 /\ 1 \in Int
      BY <1>5
    <2> QED
      BY <1>1, <1>2, <1>4, <2>1, CountedTable DEF IInv, CountedAt
  <1>7. TypeOK'
    <2>1. held' \in [Addr -> Nat] /\ heap' \in [Addr -> Values \cup {None}]
      BY <1>2, <1>3, <1>5 DEF IInv, TypeOK
    <2> QED
      BY <1>3, <1>6, <2>1 DEF IInv, TypeOK, PCs
  <1>8. \A x \in Addr : Removing(x)' = Removing(x)
    BY <1>1, <1>3 DEF IInv, TypeOK, Removing
  <1>9. arg[t].addr \notin Stored
    BY <1>1, NoneOutside DEF IInv, BufferPrivate, Stored
  <1>10. \A x \in Stored : heap'[x] = heap[x]
    BY <1>3, <1>9 DEF Stored
  <1>11. \A c \in Buckets : \A j \in 1..Len(chain[c]) :
           chain[c][j].addr \in Addr /\ chain[c][j].addr \in Stored
           /\ chain[c][j].refcount \in Nat
    <2> SUFFICES ASSUME NEW c \in Buckets, NEW j \in 1..Len(chain[c])
                 PROVE  chain[c][j].addr \in Addr /\ chain[c][j].addr \in Stored
                        /\ chain[c][j].refcount \in Nat
      OBVIOUS
    <2> QED
      BY RecTyped DEF IInv, Stored, WithAddr
  <1>12. Interned'
    <2>1. ASSUME NEW c \in Buckets, NEW j \in 1..Len(chain'[c])
          PROVE  heap'[chain'[c][j].addr] = chain'[c][j].value /\ HashOf[chain'[c][j].value] = c
      <3>1. /\ j \in 1..Len(chain[c])
            /\ chain'[c][j].addr = chain[c][j].addr
            /\ chain'[c][j].value = chain[c][j].value
        BY <1>6
      <3>2. chain[c][j].addr \in Stored
        BY <3>1, <1>11
      <3>3. heap[chain[c][j].addr] = chain[c][j].value /\ HashOf[chain[c][j].value] = c
        BY <3>1 DEF IInv, Interned
      <3> QED
        BY <3>1, <3>2, <3>3, <1>10
    <2>2. ASSUME NEW c \in Buckets, NEW d \in Buckets,
                 NEW k \in 1..Len(chain'[c]), NEW j \in 1..Len(chain'[d]),
                 chain'[c][k].value = chain'[d][j].value \/ chain'[c][k].addr = chain'[d][j].addr
          PROVE  c = d /\ k = j
      <3>1. /\ k \in 1..Len(chain[c]) /\ j \in 1..Len(chain[d])
            /\ chain[c][k].value = chain[d][j].value \/ chain[c][k].addr = chain[d][j].addr
        BY <2>2, <1>6
      <3> QED
        BY <3>1 DEF IInv, Interned
    <2> QED
      BY <2>1, <2>2 DEF Interned
  <1>13. RefcountExact'
    <2>1. ASSUME NEW c \in Buckets, NEW j \in 1..Len(chain'[c])
          PROVE  (/\ chain[c][j].refcount =
                       held[chain[c][j].addr] + Cardinality(Removing(chain[c][j].addr))
                  /\ chain[c][j].refcount > 0)'
      <3>1. j \in 1..Len(chain[c])
        BY <1>6
      <3>2. PICK x \in Addr : x = chain[c][j].addr
        BY <3>1, <1>11
      <3>3. chain'[c][j].addr = x
        BY <3>1, <3>2, <1>6
      <3>4. /\ chain[c][j].refcount = held[x] + Cardinality(Removing(x))
            /\ chain[c][j].refcount \in Nat \ {0}
        BY <3>1, <3>2, <1>11 DEF IInv, RefcountExact
      <3>5. Cardinality(Removing(x))' = Cardinality(Removing(x)) /\ Cardinality(Removing(x)) \in Nat
        BY <1>8, RemovingFinite
      <3>6. chain'[c][j].refcount = held'[x] + Cardinality(Removing(x)) /\ chain'[c][j].refcount > 0
        <4>1. CASE c = b /\ j = i
          <5>1. chain'[c][j].refcount = chain[c][j].refcount + 1
            BY <1>6, <3>1, <4>1
          <5>2. held'[x] = held[x] + 1 /\ held[x] \in Nat
            BY <1>2, <3>2, <4>1 DEF IInv, TypeOK
          <5> QED
            BY <3>4, <3>5, <5>1, <5>2
        <4>2. CASE ~(c = b /\ j = i)
          <5>1. x # chain[b][i].addr
            BY <1>1, <1>4, <3>1, <3>2, <4>2 DEF IInv, Interned
          <5> QED
            <6>1. chain'[c][j].refcount = chain[c][j].refcount
              BY <1>6, <3>1, <4>2
            <6>2. held'[x] = held[x]
              BY <1>2, <5>1 DEF IInv, TypeOK
            <6> QED
              BY <3>4, <6>1, <6>2
        <4> QED
          BY <4>1, <4>2
      <3> QED
        BY <3>3, <3>5, <3>6
    <2>2. ASSUME NEW x \in Addr, held'[x] > 0 \/ Removing(x)' # {}
          PROVE  x \in Stored'
      <3>1. CASE x = chain[b][i].addr
        BY <3>1, <1>1, <1>4, <1>6, <1>11
      <3>2. CASE x # chain[b][i].addr
        BY <2>2, <3>2, <1>2, <1>6, <1>8 DEF IInv, TypeOK, RefcountExact
      <3> QED
        BY <3>1, <3>2
    <2> QED
      BY <2>1, <2>2 DEF RefcountExact
  <1>14. UsedExact' /\ IsFiniteSet(Stored)'
    BY <1>3, <1>6 DEF IInv, UsedExact
  <1>15. MutualExclusion'
    BY <1>1, <1>3 DEF IInv, TypeOK, MutualExclusion
  <1>16. BufferPrivate'
    <2> SUFFICES ASSUME NEW u \in Threads, pc'[u] \in {"ins_lock", "ins"}
                 PROVE  /\ arg'[u].val \in Values
                        /\ arg'[u].addr # None =>
                             /\ heap'[arg'[u].addr] = arg'[u].val
                             /\ arg'[u].addr \notin Stored'
                             /\ \A w \in Threads \ {u} :
                                  pc'[w] \in {"ins_lock", "ins"} => arg'[w].addr # arg'[u].addr
      BY DEF BufferPrivate
    <2>1. u # t /\ pc[u] \in {"ins_lock", "ins"}
      BY <1>1, <1>3 DEF IInv, TypeOK
    <2> QED
      BY <1>1, <1>3, <1>6, <2>1 DEF IInv, TypeOK, BufferPrivate
  <1>17. RemovalFresh'
    <2> SUFFICES ASSUME NEW u \in Threads, pc'[u] \in {"rm_lock", "rm"}
                 PROVE  /\ arg'[u].val \in Values
                        /\ arg'[u].addr # None => heap'[arg'[u].addr] = arg'[u].val
      BY DEF RemovalFresh
    <2>1. u # t /\ pc[u] \in {"rm_lock", "rm"}
      BY <1>1, <1>3 DEF IInv, TypeOK
    <2>2. arg[u].addr # None => arg[u].addr \in Stored
      BY <2>1 DEF IInv, TypeOK, RefcountExact, Removing
    <2> QED
      BY <1>3, <1>10, <2>1, <2>2 DEF IInv, TypeOK, RemovalFresh
  <1> QED
    BY <1>7, <1>12, <1>13, <1>14, <1>15, <1>16, <1>17 DEF IInv

\* A first reference: the new record's string is the caller's buffer or a fresh
\* address, so no record and no reference has it.
LEMMA InsertNew ==
  ASSUME IInv, NEW t \in Threads, NEW a \in Addr, dict_insert_new(t, a)
  PROVE  IInv'
PROOF
  <1> DEFINE v == arg[t].val
             b == HashOf[v]
             r == [value |-> v, addr |-> a, refcount |-> 1]
             n == Len(chain[b]) + 1
  <1>1. pc[t] = "ins" /\ v \in Values /\ b \in Buckets /\ r \in Rec
    BY HashType DEF dict_insert_new, IInv, BufferPrivate, Rec
  <1>2. /\ WithValue(b, v) = {}
        /\ IF arg[t].addr = None THEN heap[a] = None ELSE a = arg[t].addr
        /\ chain' = [chain EXCEPT ![b] = Grown(chain[b], r)]
        /\ used' = used + 1
        /\ heap' = [heap EXCEPT ![a] = v]
        /\ held' = [held EXCEPT ![a] = 1]
        /\ pc' = [pc EXCEPT ![t] = "ins_unlock"]
        /\ UNCHANGED <<lock, arg>>
    BY DEF dict_insert_new, Goto
  <1>3. r.value = v /\ r.addr = a /\ r.refcount = 1
    OBVIOUS
  <1>4. chain[b] \in Seq(Rec) /\ Len(chain[b]) \in Nat
    BY <1>1, LenProperties DEF IInv, TypeOK
  <1>5. b = HashOf[v] /\ n = Len(chain[b]) + 1 /\ v = arg[t].val
    OBVIOUS
  <1> HIDE DEF v, b, r, n
  <1>6. /\ Grown(chain[b], r) \in Seq(Rec)
        /\ Len(Grown(chain[b], r)) = n
        /\ \A j \in 1..n : Grown(chain[b], r)[j] = IF j <= Len(chain[b]) THEN chain[b][j] ELSE r
    BY <1>1, <1>4, <1>5, GrownChain
  <1>7. a \notin Stored
    <2>1. CASE arg[t].addr = None
      BY <1>2, <2>1, StoredAlive, NoneOutside DEF IInv
    <2>2. CASE arg[t].addr # None
      BY <1>1, <1>2, <2>2 DEF IInv, BufferPrivate
    <2> QED
      BY <2>1, <2>2
  <1>8. held[a] = 0 /\ Removing(a) = {}
    BY <1>7 DEF IInv, TypeOK, RefcountExact
  <1>9. \A x \in Addr : Removing(x)' = Removing(x)
    BY <1>1, <1>2 DEF IInv, TypeOK, Removing
  \* the table after the step, record by record
  <1>10. /\ chain' \in [Buckets -> Seq(Rec)]
         /\ Len(chain'[b]) = n
         /\ chain'[b][n] = r
         /\ \A j \in 1..Len(chain[b]) : chain'[b][j] = chain[b][j]
         /\ \A c \in Buckets \ {b} : chain'[c] = chain[c]
    <2>1. chain'[b] = Grown(chain[b], r) /\ \A c \in Buckets \ {b} : chain'[c] = chain[c]
      BY <1>1, <1>2 DEF IInv, TypeOK
    <2>2. chain' \in [Buckets -> Seq(Rec)]
      BY <1>1, <1>2, <1>6 DEF IInv, TypeOK
    <2>3. /\ n \in 1..n /\ ~(n <= Len(chain[b]))
          /\ \A j \in 1..Len(chain[b]) : j \in 1..n /\ j <= Len(chain[b])
      BY <1>4, <1>5
    <2> QED
      BY <1>6, <2>1, <2>2, <2>3
  <1>11. \A c \in Buckets : \A j \in 1..Len(chain'[c]) :
           \/ c = b /\ j = n /\ chain'[c][j] = r
           \/ j \in 1..Len(chain[c]) /\ chain'[c][j] = chain[c][j]
    <2>1. \A j \in 1..n : j = n \/ j \in 1..Len(chain[b])
      BY <1>4, <1>5
    <2> QED
      BY <1>10, <2>1
  <1>12. \A c \in Buckets : \A j \in 1..Len(chain[c]) :
           /\ j \in 1..Len(chain'[c]) /\ chain'[c][j] = chain[c][j]
           /\ chain[c][j].addr \in Stored
           /\ chain[c][j].addr \in Addr
           /\ chain[c][j].refcount \in Nat
    <2> SUFFICES ASSUME NEW c \in Buckets, NEW j \in 1..Len(chain[c])
                 PROVE  /\ j \in 1..Len(chain'[c]) /\ chain'[c][j] = chain[c][j]
                        /\ chain[c][j].addr \in Stored
                        /\ chain[c][j].addr \in Addr
                        /\ chain[c][j].refcount \in Nat
      OBVIOUS
    <2>1. chain[c][j].addr \in Addr /\ chain[c][j].refcount \in Nat
      BY RecTyped DEF IInv
    <2>2. j \in 1..Len(chain'[c]) /\ chain'[c][j] = chain[c][j]
      BY <1>4, <1>5, <1>10
    <2> QED
      BY <2>1, <2>2 DEF Stored, WithAddr
  <1>13. Stored' = Stored \cup {a}
    <2>1. ASSUME NEW x \in Stored' PROVE x \in Stored \cup {a}
      <3>1. PICK c \in Buckets : WithAddr(c, x)' # {}
        BY DEF Stored
      <3>2. PICK j \in 1..Len(chain'[c]) : chain'[c][j].addr = x
        BY <3>1 DEF WithAddr
      <3> QED
        BY <1>3, <1>11, <1>12, <3>2
    <2>2. a \in Stored'
      <3>1. n \in 1..Len(chain'[b]) /\ chain'[b][n].addr = a
        BY <1>3, <1>4, <1>5, <1>10
      <3> QED
        BY <1>1, <3>1 DEF Stored, WithAddr
    <2>3. ASSUME NEW x \in Stored PROVE x \in Stored'
      <3>1. PICK c \in Buckets : WithAddr(c, x) # {}
        BY DEF Stored
      <3>2. PICK j \in 1..Len(chain[c]) : chain[c][j].addr = x
        BY <3>1 DEF WithAddr
      <3>3. j \in 1..Len(chain'[c]) /\ chain'[c][j].addr = x
        BY <1>12, <3>2
      <3> QED
        BY <3>3 DEF Stored, WithAddr
    <2> QED
      BY <2>1, <2>2, <2>3
  <1>14. TypeOK'
    <2>1. held' \in [Addr -> Nat] /\ heap' \in [Addr -> Values \cup {None}]
      BY <1>1, <1>2 DEF IInv, TypeOK
    <2> QED
      BY <1>2, <1>10, <2>1 DEF IInv, TypeOK, PCs
  <1>15. \A x \in Stored : heap'[x] = heap[x]
    BY <1>2, <1>7 DEF IInv, TypeOK, Stored
  <1>16. Interned'
    <2>1. ASSUME NEW c \in Buckets, NEW j \in 1..Len(chain'[c])
          PROVE  heap'[chain'[c][j].addr] = chain'[c][j].value /\ HashOf[chain'[c][j].value] = c
      <3>1. CASE c = b /\ chain'[c][j] = r
        BY <3>1, <1>2, <1>3, <1>5 DEF IInv, TypeOK
      <3>2. CASE j \in 1..Len(chain[c]) /\ chain'[c][j] = chain[c][j]
        BY <3>2, <1>12, <1>15 DEF IInv, Interned
      <3> QED
        BY <3>1, <3>2, <1>11
    <2>2. ASSUME NEW c \in Buckets, NEW j \in 1..Len(chain[c])
          PROVE  chain[c][j].value # v /\ chain[c][j].addr # a
      <3>1. chain[c][j].addr # a
        BY <1>7, <1>12
      <3>2. ASSUME chain[c][j].value = v PROVE FALSE
        BY <3>2, <1>2, <1>5 DEF IInv, Interned, WithValue
      <3> QED
        BY <3>1, <3>2
    <2>3. ASSUME NEW c \in Buckets, NEW d \in Buckets,
                 NEW i \in 1..Len(chain'[c]), NEW j \in 1..Len(chain'[d]),
                 chain'[c][i].value = chain'[d][j].value \/ chain'[c][i].addr = chain'[d][j].addr
          PROVE  c = d /\ i = j
      <3>1. CASE i \in 1..Len(chain[c]) /\ j \in 1..Len(chain[d])
        <4>1. chain[c][i].value = chain[d][j].value \/ chain[c][i].addr = chain[d][j].addr
          BY <3>1, <2>3, <1>12
        <4> QED
          BY <3>1, <4>1 DEF IInv, Interned
      <3>2. CASE i \in 1..Len(chain[c]) /\ j \notin 1..Len(chain[d])
        <4>1. chain'[c][i] = chain[c][i] /\ chain'[d][j] = r
          BY <3>2, <1>11, <1>12
        <4> QED
          BY <3>2, <4>1, <2>2, <2>3, <1>3
      <3>3. CASE i \notin 1..Len(chain[c]) /\ j \in 1..Len(chain[d])
        <4>1. chain'[d][j] = chain[d][j] /\ chain'[c][i] = r
          BY <3>3, <1>11, <1>12
        <4> QED
          BY <3>3, <4>1, <2>2, <2>3, <1>3
      <3>4. CASE i \notin 1..Len(chain[c]) /\ j \notin 1..Len(chain[d])
        BY <3>4, <1>11
      <3> QED
        BY <3>1, <3>2, <3>3, <3>4
    <2> QED
      BY <2>1, <2>3 DEF Interned
  <1>17. RefcountExact'
    <2>1. ASSUME NEW c \in Buckets, NEW j \in 1..Len(chain'[c])
          PROVE  (/\ chain[c][j].refcount =
                       held[chain[c][j].addr] + Cardinality(Removing(chain[c][j].addr))
                  /\ chain[c][j].refcount > 0)'
      <3>1. CASE chain'[c][j] = r
        <4>1. Cardinality(Removing(a))' = 0
          BY <1>8, <1>9, FS_EmptySet
        <4>2. held'[a] = 1
          BY <1>2 DEF IInv, TypeOK
        <4> QED
          BY <3>1, <4>1, <4>2, <1>3
      <3>2. CASE j \in 1..Len(chain[c]) /\ chain'[c][j] = chain[c][j]
        <4>1. PICK x \in Addr : x = chain[c][j].addr
          BY <3>2, <1>12
        <4>2. x # a
          BY <3>2, <4>1, <1>7, <1>12
        <4>3. held'[x] = held[x] /\ Removing(x)' = Removing(x)
          BY <4>2, <1>2, <1>9 DEF IInv, TypeOK
        <4>4. chain[c][j].refcount = held[x] + Cardinality(Removing(x)) /\ chain[c][j].refcount > 0
          BY <3>2, <4>1 DEF IInv, RefcountExact
        <4> QED
          BY <3>2, <4>1, <4>3, <4>4
      <3> QED
        BY <3>1, <3>2, <1>11
    <2>2. ASSUME NEW x \in Addr, held'[x] > 0 \/ Removing(x)' # {}
          PROVE  x \in Stored'
      <3>1. CASE x = a
        BY <3>1, <1>13
      <3>2. CASE x # a
        BY <2>2, <3>2, <1>2, <1>9, <1>13 DEF IInv, TypeOK, RefcountExact
      <3> QED
        BY <3>1, <3>2
    <2> QED
      BY <2>1, <2>2 DEF RefcountExact
  <1>18. UsedExact' /\ IsFiniteSet(Stored)'
    BY <1>2, <1>7, <1>13, FS_AddElement DEF IInv, UsedExact
  <1>19. MutualExclusion'
    BY <1>1, <1>2 DEF IInv, TypeOK, MutualExclusion
  <1>20. BufferPrivate'
    <2> SUFFICES ASSUME NEW u \in Threads, pc'[u] \in {"ins_lock", "ins"}
                 PROVE  /\ arg'[u].val \in Values
                        /\ arg'[u].addr # None =>
                             /\ heap'[arg'[u].addr] = arg'[u].val
                             /\ arg'[u].addr \notin Stored'
                             /\ \A w \in Threads \ {u} :
                                  pc'[w] \in {"ins_lock", "ins"} => arg'[w].addr # arg'[u].addr
      BY DEF BufferPrivate
    <2>1. u # t /\ pc[u] \in {"ins_lock", "ins"}
      BY <1>1, <1>2 DEF IInv, TypeOK
    <2>2. arg[u].addr # None => arg[u].addr # a
      BY <2>1, <1>1, <1>2, NoneOutside DEF IInv, TypeOK, BufferPrivate
    <2> QED
      BY <1>1, <1>2, <1>13, <2>1, <2>2 DEF IInv, TypeOK, BufferPrivate
  <1>21. RemovalFresh'
    <2> SUFFICES ASSUME NEW u \in Threads, pc'[u] \in {"rm_lock", "rm"}
                 PROVE  /\ arg'[u].val \in Values
                        /\ arg'[u].addr # None => heap'[arg'[u].addr] = arg'[u].val
      BY DEF RemovalFresh
    <2>1. u # t /\ pc[u] \in {"rm_lock", "rm"}
      BY <1>1, <1>2 DEF IInv, TypeOK
    <2>2. arg[u].addr # None => arg[u].addr \in Stored
      BY <2>1 DEF IInv, TypeOK, RefcountExact, Removing
    <2> QED
      BY <1>2, <1>15, <2>1, <2>2 DEF IInv, TypeOK, RemovalFresh
  <1> QED
    BY <1>14, <1>16, <1>17, <1>18, <1>19, <1>20, <1>21 DEF IInv

\* One reference less, not the last.
LEMMA RemoveDecrement ==
  ASSUME IInv, NEW t \in Threads, remove_decrement(t)
  PROVE  IInv'
PROOF
  <1> DEFINE b == HashOf[arg[t].val]
  <1>a. PICK a : a = arg[t].addr
    OBVIOUS
  <1>1. pc[t] = "rm" /\ arg[t].val \in Values /\ b \in Buckets
    BY HashType DEF remove_decrement, IInv, RemovalFresh
  <1>2. PICK i \in WithAddr(b, a) :
          /\ chain[b][i].refcount # 1
          /\ chain' = [chain EXCEPT ![b] = Counted(chain[b], i, -1)]
    BY <1>a DEF remove_decrement
  <1>3. /\ pc' = [pc EXCEPT ![t] = "rm_unlock"]
        /\ UNCHANGED <<used, lock, arg, heap, held>>
    BY DEF remove_decrement, Goto
  <1> HIDE DEF b
  <1>4. i \in 1..Len(chain[b]) /\ chain[b][i].addr = a
    BY DEF WithAddr
  <1>5. /\ a \in Addr
        /\ chain[b][i].refcount \in Nat
        /\ chain[b][i].refcount > 0
    BY <1>1, <1>4, RecTyped DEF IInv, RefcountExact
  <1>6. /\ chain' \in [Buckets -> Seq(Rec)]
        /\ \A c \in Buckets : Len(chain'[c]) = Len(chain[c])
        /\ \A c \in Buckets : \A j \in 1..Len(chain[c]) :
             /\ chain'[c][j].value = chain[c][j].value
             /\ chain'[c][j].addr = chain[c][j].addr
             /\ chain'[c][j].refcount =
                  IF c = b /\ j = i THEN chain[c][j].refcount + (-1) ELSE chain[c][j].refcount
        /\ Stored' = Stored
    <2>1. chain[b][i].refcount + (-1) >= 0 /\ -1 \in Int
      BY <1>5
    <2> QED
      BY <1>1, <1>2, <1>4, <2>1, CountedTable DEF IInv, CountedAt
  <1>7. TypeOK'
    BY <1>3, <1>6 DEF IInv, TypeOK, PCs
  <1>8. /\ t \in Removing(a) /\ Removing(a)' = Removing(a) \ {t}
        /\ \A x \in Addr \ {a} : Removing(x)' = Removing(x)
    BY <1>1, <1>3, <1>a DEF IInv, TypeOK, Removing
  <1>9. Cardinality(Removing(a))' = Cardinality(Removing(a)) - 1
    BY <1>8, RemovingFinite, FS_RemoveElement
  <1>10. \A c \in Buckets : \A j \in 1..Len(chain[c]) :
           chain[c][j].addr \in Addr /\ chain[c][j].refcount \in Nat
    BY RecTyped DEF IInv
  <1>11. Interned'
    <2>1. ASSUME NEW c \in Buckets, NEW j \in 1..Len(chain'[c])
          PROVE  heap'[chain'[c][j].addr] = chain'[c][j].value /\ HashOf[chain'[c][j].value] = c
      BY <1>3, <1>6 DEF IInv, Interned
    <2>2. ASSUME NEW c \in Buckets, NEW d \in Buckets,
                 NEW k \in 1..Len(chain'[c]), NEW j \in 1..Len(chain'[d]),
                 chain'[c][k].value = chain'[d][j].value \/ chain'[c][k].addr = chain'[d][j].addr
          PROVE  c = d /\ k = j
      <3>1. /\ k \in 1..Len(chain[c]) /\ j \in 1..Len(chain[d])
            /\ chain[c][k].value = chain[d][j].value \/ chain[c][k].addr = chain[d][j].addr
        BY <2>2, <1>6
      <3> QED
        BY <3>1 DEF IInv, Interned
    <2> QED
      BY <2>1, <2>2 DEF Interned
  <1>12. RefcountExact'
    <2>1. ASSUME NEW c \in Buckets, NEW j \in 1..Len(chain'[c])
          PROVE  (/\ chain[c][j].refcount =
                       held[chain[c][j].addr] + Cardinality(Removing(chain[c][j].addr))
                  /\ chain[c][j].refcount > 0)'
      <3>1. j \in 1..Len(chain[c])
        BY <1>6
      <3>2. PICK x \in Addr : x = chain[c][j].addr
        BY <3>1, <1>10
      <3>3. chain'[c][j].addr = x
        BY <3>1, <3>2, <1>6
      <3>4. /\ chain[c][j].refcount = held[x] + Cardinality(Removing(x))
            /\ chain[c][j].refcount \in Nat \ {0}
            /\ held[x] \in Nat
            /\ Cardinality(Removing(x)) \in Nat
        BY <3>1, <3>2, <1>10, RemovingFinite DEF IInv, TypeOK, RefcountExact
      <3>5. CASE c = b /\ j = i
        <4>1. chain'[c][j].refcount = chain[c][j].refcount - 1 /\ x = a
          BY <1>4, <1>6, <3>1, <3>2, <3>4, <3>5
        <4>2. chain'[c][j].refcount > 0
          BY <1>2, <3>4, <3>5, <4>1
        <4> QED
          BY <1>3, <1>9, <3>3, <3>4, <4>1, <4>2
      <3>6. CASE ~(c = b /\ j = i)
        <4>1. x # a
          BY <1>1, <1>4, <3>1, <3>2, <3>6 DEF IInv, Interned
        <4>2. Removing(x)' = Removing(x)
          BY <4>1, <1>8
        <4>3. chain'[c][j].refcount = chain[c][j].refcount
          BY <1>6, <3>1, <3>6
        <4> QED
          BY <1>3, <3>3, <3>4, <4>2, <4>3
      <3> QED
        BY <3>5, <3>6
    <2>2. ASSUME NEW x \in Addr, held'[x] > 0 \/ Removing(x)' # {}
          PROVE  x \in Stored'
      <3>1. held[x] > 0 \/ Removing(x) # {}
        BY <2>2, <1>3, <1>8
      <3> QED
        BY <3>1, <1>6 DEF IInv, RefcountExact
    <2> QED
      BY <2>1, <2>2 DEF RefcountExact
  <1>13. UsedExact' /\ IsFiniteSet(Stored)'
    BY <1>3, <1>6 DEF IInv, UsedExact
  <1>14. MutualExclusion'
    BY <1>1, <1>3 DEF IInv, TypeOK, MutualExclusion
  <1>15. BufferPrivate'
    BY <1>1, <1>3, <1>6 DEF IInv, TypeOK, BufferPrivate
  <1>16. RemovalFresh'
    BY <1>1, <1>3 DEF IInv, TypeOK, RemovalFresh
  <1> QED
    BY <1>7, <1>11, <1>12, <1>13, <1>14, <1>15, <1>16 DEF IInv

\* The last reference: its counter shows that no caller holds the string and
\* that this call is the only one giving it back.
LEMMA RemoveLast ==
  ASSUME IInv, NEW t \in Threads, remove_last(t)
  PROVE  IInv'
PROOF
  <1> DEFINE b == HashOf[arg[t].val]
  <1>a. PICK a : a = arg[t].addr
    OBVIOUS
  <1>1. pc[t] = "rm" /\ arg[t].val \in Values /\ b \in Buckets
    BY HashType DEF remove_last, IInv, RemovalFresh
  <1>2. PICK i \in WithAddr(b, a) :
          /\ chain[b][i].refcount = 1
          /\ chain' = [chain EXCEPT ![b] = Without(chain[b], i)]
    BY <1>a DEF remove_last
  <1>3. /\ heap' = [heap EXCEPT ![a] = None]
        /\ used' = used - 1
        /\ pc' = [pc EXCEPT ![t] = "rm_unlock"]
        /\ UNCHANGED <<lock, arg, held>>
    BY <1>a DEF remove_last, Goto
  <1> HIDE DEF b
  <1>4. i \in 1..Len(chain[b]) /\ chain[b][i].addr = a
    BY DEF WithAddr
  <1>5. /\ a \in Addr
        /\ chain[b] \in Seq(Rec)
        /\ Len(chain[b]) \in Nat
    BY <1>1, <1>4, RecTyped DEF IInv
  <1>6. a \in Stored
    BY <1>1, <1>4, <1>5 DEF Stored, WithAddr
  <1>7. /\ Without(chain[b], i) \in Seq(Rec)
        /\ Len(Without(chain[b], i)) = Len(chain[b]) - 1
        /\ \A j \in 1..(Len(chain[b]) - 1) :
             Without(chain[b], i)[j] = IF j < i THEN chain[b][j] ELSE chain[b][j + 1]
    BY <1>4, <1>5, WithoutChain
  <1> DEFINE Old(c, j) == IF c = b /\ j >= i THEN j + 1 ELSE j
  \* every record of the new table is a record of the old one, in the same
  \* order, and none of them is the one taken out
  <1>8. chain' \in [Buckets -> Seq(Rec)]
    BY <1>1, <1>2, <1>7 DEF IInv, TypeOK
  <1>9. chain'[b] = Without(chain[b], i) /\ \A c \in Buckets \ {b} : chain'[c] = chain[c]
    BY <1>1, <1>2 DEF IInv, TypeOK
  <1>10. ASSUME NEW c \in Buckets, NEW j \in 1..Len(chain'[c])
         PROVE  /\ Old(c, j) \in 1..Len(chain[c])
                /\ chain'[c][j] = chain[c][Old(c, j)]
                /\ ~(c = b /\ Old(c, j) = i)
    <2>1. CASE c = b
      BY <2>1, <1>4, <1>5, <1>7, <1>9
    <2>2. CASE c # b
      BY <2>2, <1>9
    <2> QED
      BY <2>1, <2>2
  <1>11. ASSUME NEW c \in Buckets, NEW j \in 1..Len(chain[c]), ~(c = b /\ j = i)
         PROVE  \E k \in 1..Len(chain'[c]) : chain'[c][k] = chain[c][j]
    <2>1. CASE c # b
      BY <2>1, <1>9
    <2>2. CASE c = b /\ j < i
      <3>1. j \in 1..(Len(chain[b]) - 1)
        BY <2>2, <1>4, <1>5
      <3> QED
        BY <2>2, <3>1, <1>7, <1>9
    <2>3. CASE c = b /\ j > i
      <3>1. j - 1 \in 1..(Len(chain[b]) - 1) /\ ~(j - 1 < i) /\ (j - 1) + 1 = j
        BY <2>3, <1>4, <1>5
      <3> QED
        BY <2>3, <3>1, <1>7, <1>9
    <2> QED
      BY <2>1, <2>2, <2>3, <1>11, <1>4, <1>5
  <1>12. ASSUME NEW c \in Buckets, NEW j \in 1..Len(chain[c]), ~(c = b /\ j = i)
         PROVE  chain[c][j].addr # a /\ chain[c][j].addr \in Addr /\ chain[c][j].refcount \in Nat
    BY <1>1, <1>4, <1>12, RecTyped DEF IInv, Interned
  <1>13. Stored' = Stored \ {a}
    <2>1. ASSUME NEW x \in Stored' PROVE x \in Stored \ {a}
      <3>1. PICK c \in Buckets : WithAddr(c, x)' # {}
        BY DEF Stored
      <3>2. PICK j \in 1..Len(chain'[c]) : chain'[c][j].addr = x
        BY <3>1 DEF WithAddr
      <3>3. PICK k \in 1..Len(chain[c]) : chain[c][k].addr = x /\ ~(c = b /\ k = i)
        BY <1>10, <3>2
      <3> QED
        BY <3>3, <1>12 DEF Stored, WithAddr
    <2>2. ASSUME NEW x \in Stored \ {a} PROVE x \in Stored'
      <3>1. PICK c \in Buckets : WithAddr(c, x) # {}
        BY DEF Stored
      <3>2. PICK j \in 1..Len(chain[c]) : chain[c][j].addr = x
        BY <3>1 DEF WithAddr
      <3>3. ~(c = b /\ j = i)
        BY <3>2, <1>4
      <3>4. PICK k \in 1..Len(chain'[c]) : chain'[c][k].addr = x
        BY <3>2, <3>3, <1>11
      <3>5. x \in Addr
        BY DEF Stored
      <3> QED
        BY <3>4, <3>5 DEF Stored, WithAddr
    <2> QED
      BY <2>1, <2>2
  <1>14. held[a] = 0 /\ Removing(a) = {t}
    <2>1. 1 = held[a] + Cardinality(Removing(a))
      BY <1>1, <1>2, <1>4 DEF IInv, RefcountExact
    <2>2. t \in Removing(a)
      BY <1>1, <1>a DEF Removing
    <2>3. Cardinality(Removing(a)) \in Nat \ {0} /\ IsFiniteSet(Removing(a))
      BY <2>2, RemovingFinite, FS_EmptySet
    <2>4. held[a] = 0 /\ Cardinality(Removing(a)) = 1
      BY <1>5, <2>1, <2>3 DEF IInv, TypeOK
    <2>5. IsFiniteSet(Removing(a) \ {t}) /\ Cardinality(Removing(a) \ {t}) = 0
      BY <2>2, <2>3, <2>4, FS_RemoveElement
    <2>6. Removing(a) \ {t} = {}
      BY <2>5, FS_EmptySet
    <2> QED
      BY <2>2, <2>4, <2>6
  <1>15. Removing(a)' = {} /\ \A x \in Addr \ {a} : Removing(x)' = Removing(x)
    <2>1. Removing(a)' = Removing(a) \ {t}
      BY <1>1, <1>3, <1>a DEF IInv, TypeOK, Removing
    <2>2. \A x \in Addr \ {a} : Removing(x)' = Removing(x)
      BY <1>1, <1>3, <1>a DEF IInv, TypeOK, Removing
    <2> QED
      BY <2>1, <2>2, <1>14
  <1>16. TypeOK'
    <2>1. heap' \in [Addr -> Values \cup {None}]
      BY <1>3 DEF IInv, TypeOK
    <2>2. used' \in Int
      BY <1>3 DEF IInv, TypeOK
    <2> QED
      BY <1>3, <1>8, <2>1, <2>2 DEF IInv, TypeOK, PCs
  <1>17. \A x \in Addr \ {a} : heap'[x] = heap[x]
    BY <1>3 DEF IInv, TypeOK
  <1>18. Interned'
    <2>1. ASSUME NEW c \in Buckets, NEW j \in 1..Len(chain'[c])
          PROVE  heap'[chain'[c][j].addr] = chain'[c][j].value /\ HashOf[chain'[c][j].value] = c
      <3>1. PICK k \in 1..Len(chain[c]) : chain'[c][j] = chain[c][k] /\ ~(c = b /\ k = i)
        BY <1>10
      <3>2. chain[c][k].addr \in Addr \ {a}
        BY <3>1, <1>12
      <3> QED
        BY <3>1, <3>2, <1>17 DEF IInv, Interned
    <2>2. ASSUME NEW c \in Buckets, NEW d \in Buckets,
                 NEW k \in 1..Len(chain'[c]), NEW j \in 1..Len(chain'[d]),
                 chain'[c][k].value = chain'[d][j].value \/ chain'[c][k].addr = chain'[d][j].addr
          PROVE  c = d /\ k = j
      <3>1. /\ Old(c, k) \in 1..Len(chain[c]) /\ chain'[c][k] = chain[c][Old(c, k)]
            /\ Old(d, j) \in 1..Len(chain[d]) /\ chain'[d][j] = chain[d][Old(d, j)]
        BY <1>10
      <3>2. c = d /\ Old(c, k) = Old(d, j)
        <4>1. \/ chain[c][Old(c, k)].value = chain[d][Old(d, j)].value
              \/ chain[c][Old(c, k)].addr = chain[d][Old(d, j)].addr
          BY <3>1, <2>2
        <4> HIDE DEF Old
        <4> QED
          BY <3>1, <4>1 DEF IInv, Interned
      <3>3. Len(chain'[c]) \in Nat /\ i \in Int
        BY <1>4, <1>5, <1>8, LenProperties
      <3> QED
        BY <3>2, <3>3
    <2> QED
      BY <2>1, <2>2 DEF Interned
  <1>19. RefcountExact'
    <2>1. ASSUME NEW c \in Buckets, NEW j \in 1..Len(chain'[c])
          PROVE  (/\ chain[c][j].refcount =
                       held[chain[c][j].addr] + Cardinality(Removing(chain[c][j].addr))
                  /\ chain[c][j].refcount > 0)'
      <3>1. PICK k \in 1..Len(chain[c]) : chain'[c][j] = chain[c][k] /\ ~(c = b /\ k = i)
        BY <1>10
      <3>2. PICK x \in Addr : x = chain[c][k].addr /\ x # a
        BY <3>1, <1>12
      <3>3. Removing(x)' = Removing(x) /\ held'[x] = held[x]
        BY <3>2, <1>3, <1>15
      <3>4. chain[c][k].refcount = held[x] + Cardinality(Removing(x)) /\ chain[c][k].refcount > 0
        BY <3>1, <3>2 DEF IInv, RefcountExact
      <3> QED
        BY <3>1, <3>2, <3>3, <3>4
    <2>2. ASSUME NEW x \in Addr, held'[x] > 0 \/ Removing(x)' # {}
          PROVE  x \in Stored'
      <3>1. x # a
        BY <2>2, <1>3, <1>14, <1>15
      <3>2. held[x] > 0 \/ Removing(x) # {}
        BY <2>2, <3>1, <1>3, <1>15
      <3> QED
        BY <3>1, <3>2, <1>13 DEF IInv, RefcountExact
    <2> QED
      BY <2>1, <2>2 DEF RefcountExact
  <1>20. UsedExact' /\ IsFiniteSet(Stored)'
    BY <1>3, <1>6, <1>13, FS_RemoveElement DEF IInv, UsedExact
  <1>21. MutualExclusion'
    BY <1>1, <1>3 DEF IInv, TypeOK, MutualExclusion
  <1>22. BufferPrivate'
    <2> SUFFICES ASSUME NEW u \in Threads, pc'[u] \in {"ins_lock", "ins"}
                 PROVE  /\ arg'[u].val \in Values
                        /\ arg'[u].addr # None =>
                             /\ heap'[arg'[u].addr] = arg'[u].val
                             /\ arg'[u].addr \notin Stored'
                             /\ \A w \in Threads \ {u} :
                                  pc'[w] \in {"ins_lock", "ins"} => arg'[w].addr # arg'[u].addr
      BY DEF BufferPrivate
    <2>1. u # t /\ pc[u] \in {"ins_lock", "ins"}
      BY <1>1, <1>3 DEF IInv, TypeOK
    <2>2. arg[u].addr # None => arg[u].addr # a
      BY <2>1, <1>6 DEF IInv, BufferPrivate
    <2>3. \A w \in Threads : pc'[w] \in {"ins_lock", "ins"} => pc[w] \in {"ins_lock", "ins"}
      BY <1>3 DEF IInv, TypeOK
    <2> QED
      BY <1>3, <1>13, <1>17, <2>1, <2>2, <2>3 DEF IInv, TypeOK, BufferPrivate
  <1>23. RemovalFresh'
    <2> SUFFICES ASSUME NEW u \in Threads, pc'[u] \in {"rm_lock", "rm"}
                 PROVE  /\ arg'[u].val \in Values
                        /\ arg'[u].addr # None => heap'[arg'[u].addr] = arg'[u].val
      BY DEF RemovalFresh
    <2>1. u # t /\ pc[u] \in {"rm_lock", "rm"}
      BY <1>1, <1>3 DEF IInv, TypeOK
    <2>2. arg[u].addr # a
      BY <2>1, <1>14 DEF Removing
    <2> QED
      BY <1>3, <1>17, <2>1, <2>2 DEF IInv, TypeOK, RemovalFresh
  <1> QED
    BY <1>16, <1>18, <1>19, <1>20, <1>21, <1>22, <1>23 DEF IInv

\* The context is destroyed while nobody is inside the dictionary.
LEMMA Clean ==
  ASSUME IInv, lydict_clean
  PROVE  IInv'
PROOF
  <1>1. \A t \in Threads : pc[t] = "idle"
    BY DEF lydict_clean, Quiet
  <1>2. /\ chain' = [b \in Buckets |-> << >>]
        /\ used' = 0
        /\ heap' = [a \in Addr |-> IF a \in Stored THEN None ELSE heap[a]]
        /\ held' = [a \in Addr |-> 0]
        /\ UNCHANGED <<lock, pc, arg>>
    BY DEF lydict_clean
  <1>3. \A b \in Buckets : chain'[b] = << >> /\ Len(chain'[b]) = 0
    BY <1>2
  <1>4. Stored' = {}
    BY <1>3 DEF Stored, WithAddr
  <1>5. \A a : Removing(a)' = {}
    BY <1>1, <1>2 DEF Removing
  <1>6. TypeOK'
    BY <1>2 DEF IInv, TypeOK
  <1>7. Interned' /\ RefcountExact'
    BY <1>2, <1>3, <1>5 DEF Interned, RefcountExact
  <1>8. UsedExact' /\ IsFiniteSet(Stored)'
    BY <1>2, <1>4, FS_EmptySet DEF UsedExact
  <1>9. MutualExclusion' /\ BufferPrivate' /\ RemovalFresh'
    BY <1>1, <1>2 DEF IInv, MutualExclusion, BufferPrivate, RemovalFresh
  <1> QED
    BY <1>6, <1>7, <1>8, <1>9 DEF IInv

-----------------------------------------------------------------------------
(* The theorems                                                            *)

\* Every step of every thread keeps it.
LEMMA StepIInv == IInv /\ [Next]_vars => IInv'
PROOF
  <1> SUFFICES ASSUME IInv, [Next]_vars PROVE IInv'
    OBVIOUS
  <1>1. ASSUME NEW t \in Threads, Body(t) PROVE IInv'
    <2>1. CASE dict_insert_found(t)
      BY <2>1, InsertFound
    <2>2. CASE \E a \in Addr : dict_insert_new(t, a)
      BY <2>2, InsertNew
    <2>3. CASE dict_insert_nomem(t) \/ remove_notfound(t)
      BY <2>3, NothingDone
    <2>4. CASE InsertUnlock(t) \/ RemoveUnlock(t)
      BY <2>4, Unlocking
    <2>5. CASE remove_decrement(t)
      BY <2>5, RemoveDecrement
    <2>6. CASE remove_last(t)
      BY <2>6, RemoveLast
    <2> QED
      BY <1>1, <2>1, <2>2, <2>3, <2>4, <2>5, <2>6 DEF Body
  <1>2. CASE \E t \in Threads : \E v \in Values : lydict_insert(t, v) \/ lydict_remove_foreign(t, v)
    BY <1>2, CallInsert, CallRemoveForeign
  <1>3. CASE \E t \in Threads : \E v \in Values, a \in Addr : lydict_insert_zc(t, v, a)
    BY <1>3, CallInsertZc
  <1>4. CASE \E t \in Threads : \E a \in Addr : lydict_remove(t, a)
    BY <1>4, CallRemove
  <1>5. CASE \E t \in Threads : InsertLock(t) \/ RemoveLock(t)
    BY <1>5, Locking
  <1>6. CASE lydict_clean
    BY <1>6, Clean
  <1>7. CASE UNCHANGED vars
    <2>1. \A a \in Addr : Removing(a)' = Removing(a)
      BY <1>7 DEF vars, Removing
    <2>2. Stored' = Stored
      BY <1>7 DEF vars, Stored, WithAddr
    <2>3. TypeOK' /\ MutualExclusion' /\ BufferPrivate' /\ RemovalFresh'
      BY <1>7, <2>2 DEF IInv, vars, TypeOK, MutualExclusion, BufferPrivate, RemovalFresh
    <2> QED
      BY <1>7, <2>1, <2>3, FrameInv DEF IInv, vars
  <1> QED
    BY <1>1, <1>2, <1>3, <1>4, <1>5, <1>6, <1>7 DEF Next

\* The inductive invariant holds of every behaviour of the dictionary, for any
\* number of threads, contents, buckets and addresses.
THEOREM Invariance == Spec => []IInv
PROOF
  BY InitIInv, StepIInv, PTL DEF Spec

\* Type correctness of the dictionary's state.
THEOREM TypeCorrect == Spec => []TypeOK
PROOF
  <1>1. IInv => TypeOK
    BY DEF IInv
  <1> QED
    BY <1>1, Invariance, PTL

\* Every content is stored once, in its bucket, and every record's string is
\* alive (dict_insert, lydict_remove under ctx->dict.lock).
THEOREM StringsInterned == Spec => []Interned
PROOF
  <1>1. IInv => Interned
    BY DEF IInv
  <1> QED
    BY <1>1, Invariance, PTL

\* The reference counters are exact, so a string is freed when the last
\* reference to it is given back and never before.
THEOREM CountersExact == Spec => []RefcountExact
PROOF
  <1>1. IInv => RefcountExact
    BY DEF IInv
  <1> QED
    BY <1>1, Invariance, PTL

\* ctx->dict.used is the number of records, which justifies the test of it
\* that lydict_remove makes without the lock.
THEOREM UsedIsCount == Spec => []UsedExact
PROOF
  <1>1. IInv => UsedExact
    BY DEF IInv
  <1> QED
    BY <1>1, Invariance, PTL

\* The string measured before the lock is the string hashed under it.
THEOREM RemovalsFresh == Spec => []RemovalFresh
PROOF
  <1>1. IInv => RemovalFresh
    BY DEF IInv
  <1> QED
    BY <1>1, Invariance, PTL

\* A string somebody holds is alive.
HeldAlive == \A a \in Addr : held[a] > 0 => heap[a] \in Values

\* It implies that a string a thread holds is in the table.
LEMMA IInvHeldAlive == IInv => HeldAlive
PROOF
  BY StoredAlive DEF IInv, HeldAlive, RefcountExact

\* What a step may do to a string that is held before and after it: nothing.
LEMMA StepStable ==
  ASSUME IInv, HeldAlive', [Next]_vars,
         NEW a \in Addr, held[a] > 0, held'[a] > 0
  PROVE  heap'[a] = heap[a]
PROOF
  <1>1. a \in Stored /\ heap[a] \in Values /\ heap'[a] \in Values
    BY IInvHeldAlive DEF IInv, RefcountExact, HeldAlive
  <1>2. CASE UNCHANGED heap
    BY <1>2
  <1>3. ASSUME NEW t \in Threads, dict_insert_found(t) PROVE heap'[a] = heap[a]
    BY <1>1, <1>3, NoneOutside DEF dict_insert_found
  <1>4. ASSUME NEW t \in Threads, NEW x \in Addr, dict_insert_new(t, x) PROVE heap'[a] = heap[a]
    <2>1. x # a
      BY <1>1, <1>4, NoneOutside DEF dict_insert_new, IInv, BufferPrivate
    <2> QED
      BY <2>1, <1>4 DEF dict_insert_new, IInv, TypeOK
  <1>5. ASSUME NEW t \in Threads, NEW v \in Values, NEW x \in Addr, lydict_insert_zc(t, v, x)
        PROVE  heap'[a] = heap[a]
    BY <1>1, <1>5, NoneOutside DEF lydict_insert_zc, IInv, TypeOK
  <1>6. ASSUME NEW t \in Threads, remove_last(t) PROVE heap'[a] = heap[a]
    BY <1>1, <1>6, NoneOutside DEF remove_last, IInv, TypeOK
  <1>7. CASE lydict_clean
    BY <1>7 DEF lydict_clean
  <1> QED
    BY <1>2, <1>3, <1>4, <1>5, <1>6, <1>7
    DEF Next, Body, vars, lydict_insert, lydict_remove_foreign, lydict_remove, InsertLock,
        RemoveLock, dict_insert_nomem, InsertUnlock, remove_notfound, remove_decrement, RemoveUnlock

\* No insert, release or reuse of memory by another thread changes the string
\* behind a pointer that lydict_insert returned and nobody gave back.
THEOREM HeldStringsStable == Spec => HeldStringStable
PROOF
  <1>1. IInv /\ HeldAlive' /\ [Next]_vars
          => [\A a \in Addr : held[a] > 0 /\ held'[a] > 0 => heap'[a] = heap[a]]_vars
    BY StepStable
  <1>2. Spec => []IInv /\ [][Next]_vars
    BY Invariance, PTL DEF Spec
  <1>3. IInv => HeldAlive
    BY IInvHeldAlive
  <1> QED
    BY <1>1, <1>2, <1>3, PTL DEF HeldStringStable
-----------------------------------------------------------------------------
(* The table as a set of records, and the pool it implements               *)

\* The records of the table, whichever bucket they are in.
AllRecs == {r \in Rec : \E b \in Buckets : \E i \in 1..Len(chain[b]) : chain[b][i] = r}

\* The table has one record of a content at most, which RecordsOf finds.
LEMMA RecordsFound ==
  ASSUME TypeOK, Interned, NEW v \in Values
  PROVE  RecordsOf(v) = {r \in AllRecs : r.value = v}
PROOF
  <1>1. HashOf[v] \in Buckets
    BY HashType
  <1>2. ASSUME NEW r \in RecordsOf(v) PROVE r \in AllRecs /\ r.value = v
    <2>1. PICK i \in 1..Len(chain[HashOf[v]]) : chain[HashOf[v]][i] = r /\ r.value = v
      BY <1>2 DEF RecordsOf, WithValue
    <2>2. r \in Rec
      BY <1>1, <2>1, RecTyped
    <2> QED
      BY <1>1, <2>1, <2>2 DEF AllRecs
  <1>3. ASSUME NEW r \in AllRecs, r.value = v PROVE r \in RecordsOf(v)
    <2>1. PICK b \in Buckets : \E i \in 1..Len(chain[b]) : chain[b][i] = r
      BY <1>3 DEF AllRecs
    <2>2. PICK i \in 1..Len(chain[b]) : chain[b][i] = r
      BY <2>1
    <2>3. HashOf[v] = b
      BY <1>3, <2>2 DEF Interned
    <2> QED
      BY <1>3, <2>2, <2>3 DEF RecordsOf, WithValue
  <1> QED
    BY <1>2, <1>3

\* What the pool sees of a content that has a record, and of one that has none.
LEMMA PoolView ==
  ASSUME TypeOK, Interned, NEW v \in Values
  PROVE  /\ \A r \in AllRecs : r.value = v => CountOf(v) = r.refcount /\ PtrOf(v) = r.addr
         /\ (\A r \in AllRecs : r.value # v) => CountOf(v) = 0 /\ PtrOf(v) = None
PROOF
  <1>1. ASSUME NEW r \in AllRecs, r.value = v PROVE CountOf(v) = r.refcount /\ PtrOf(v) = r.addr
    <2>1. ASSUME NEW q \in AllRecs, q.value = v PROVE q = r
      <3>1. PICK b \in Buckets : \E i \in 1..Len(chain[b]) : chain[b][i] = r
        BY DEF AllRecs
      <3>2. PICK c \in Buckets : \E j \in 1..Len(chain[c]) : chain[c][j] = q
        BY DEF AllRecs
      <3>3. PICK i \in 1..Len(chain[b]) : chain[b][i] = r
        BY <3>1
      <3>4. PICK j \in 1..Len(chain[c]) : chain[c][j] = q
        BY <3>2
      <3>5. b = c /\ i = j
        BY <1>1, <2>1, <3>3, <3>4 DEF Interned
      <3> QED
        BY <3>3, <3>4, <3>5
    <2>2. RecordsOf(v) = {r}
      BY <1>1, <2>1, RecordsFound
    <2>3. (CHOOSE x \in {r} : TRUE) = r
      OBVIOUS
    <2> QED
      BY <2>2, <2>3 DEF CountOf, PtrOf
  <1>2. ASSUME \A r \in AllRecs : r.value # v PROVE CountOf(v) = 0 /\ PtrOf(v) = None
    BY <1>2, RecordsFound DEF CountOf, PtrOf
  <1> QED
    BY <1>1, <1>2

\* The strings that have a record.
LEMMA StoredRecs ==
  ASSUME TypeOK
  PROVE  Stored = {r.addr : r \in AllRecs}
PROOF
  <1>1. ASSUME NEW a \in Stored PROVE \E r \in AllRecs : r.addr = a
    <2>1. PICK b \in Buckets : WithAddr(b, a) # {}
      BY DEF Stored
    <2>2. PICK i \in 1..Len(chain[b]) : chain[b][i].addr = a
      BY <2>1 DEF WithAddr
    <2>3. chain[b][i] \in AllRecs
      BY RecTyped DEF AllRecs
    <2> QED
      BY <2>2, <2>3
  <1>2. ASSUME NEW r \in AllRecs PROVE r.addr \in Stored
    <2>1. PICK b \in Buckets : \E i \in 1..Len(chain[b]) : chain[b][i] = r
      BY DEF AllRecs
    <2>2. r.addr \in Addr
      BY DEF AllRecs, Rec
    <2> QED
      BY <2>1, <2>2 DEF Stored, WithAddr
  <1> QED
    BY <1>1, <1>2

\* Record r of the table is replaced by one that counts d references more.
Recounted(r, d) ==
  \A q \in Rec : q.value = r.value /\ q.addr = r.addr /\ q.refcount = r.refcount + d =>
    r \in AllRecs /\ AllRecs' = (AllRecs \ {r}) \cup {q}

\* A step that counts references of one record, and of no other.
LEMMA CountedRecs ==
  ASSUME TypeOK, Interned, TypeOK', NEW b \in Buckets, NEW i \in 1..Len(chain[b]), NEW d \in Int,
         chain[b][i].refcount + d >= 0,
         chain' = [chain EXCEPT ![b] = Counted(chain[b], i, d)]
  PROVE  Recounted(chain[b][i], d)
PROOF
  <1>1. /\ \A c \in Buckets : Len(chain'[c]) = Len(chain[c])
        /\ \A c \in Buckets : \A j \in 1..Len(chain[c]) :
             /\ chain'[c][j].value = chain[c][j].value
             /\ chain'[c][j].addr = chain[c][j].addr
             /\ chain'[c][j].refcount =
                  IF c = b /\ j = i THEN chain[c][j].refcount + d ELSE chain[c][j].refcount
    <2>1. CountedAt(b, i, d) /\ \A c \in Buckets : Len(chain'[c]) = Len(chain[c])
      BY CountedTable
    <2> QED
      BY <2>1 DEF CountedAt
  <1> SUFFICES ASSUME NEW r, r = chain[b][i],
                      NEW q \in Rec, q.value = r.value, q.addr = r.addr, q.refcount = r.refcount + d
               PROVE  r \in AllRecs /\ AllRecs' = (AllRecs \ {r}) \cup {q}
    BY DEF Recounted
  <1>2. r \in Rec /\ r.refcount + d \in Nat
    BY RecTyped
  <1>4. \A x, y \in Rec : x.value = y.value /\ x.addr = y.addr /\ x.refcount = y.refcount => x = y
    BY DEF Rec
  <1>5. ASSUME NEW c \in Buckets, NEW j \in 1..Len(chain[c])
        PROVE  /\ j \in 1..Len(chain'[c]) /\ chain[c][j] \in Rec /\ chain'[c][j] \in Rec
               /\ chain'[c][j] = IF c = b /\ j = i THEN q ELSE chain[c][j]
               /\ chain[c][j] = r => c = b /\ j = i
    <2>1. chain[c][j] \in Rec
      BY RecTyped
    <2>2. j \in 1..Len(chain'[c])
      BY <1>1
    <2>3. chain'[c] \in Seq(Rec)
      BY DEF TypeOK
    <2>4. chain'[c][j] \in Rec
      BY <2>2, <2>3, ElementOfSeq
    <2>5. CASE c = b /\ j = i
      <3>1. chain'[c][j].value = r.value /\ chain'[c][j].addr = r.addr /\ chain'[c][j].refcount = r.refcount + d
        BY <1>1, <2>5
      <3>2. chain'[c][j] = q
        BY <1>4, <2>4, <3>1
      <3> QED
        BY <2>1, <2>2, <2>4, <2>5, <3>2
    <2>6. CASE ~(c = b /\ j = i)
      <3>1. chain[c][j] # r
        BY <2>6 DEF Interned
      <3>2. chain'[c][j].refcount = chain[c][j].refcount
        BY <1>1, <2>6
      <3>3. chain'[c][j].value = chain[c][j].value /\ chain'[c][j].addr = chain[c][j].addr
        BY <1>1
      <3>4. chain'[c][j] = chain[c][j]
        BY <1>4, <2>1, <2>4, <3>2, <3>3
      <3> QED
        BY <2>1, <2>2, <2>4, <2>6, <3>1, <3>4
    <2> QED
      BY <2>5, <2>6
  <1>6. AllRecs' = {x \in Rec : \E c \in Buckets : \E j \in 1..Len(chain[c]) : chain'[c][j] = x}
    BY <1>1 DEF AllRecs
  <1>7. r \in AllRecs
    BY <1>2 DEF AllRecs
  <1>8. ASSUME NEW x \in AllRecs' PROVE x \in (AllRecs \ {r}) \cup {q}
    <2>1. PICK c \in Buckets : \E j \in 1..Len(chain[c]) : chain'[c][j] = x
      BY <1>6
    <2>2. PICK j \in 1..Len(chain[c]) : chain'[c][j] = x
      BY <2>1
    <2>3. x = q \/ (x = chain[c][j] /\ x # r /\ x \in Rec)
      BY <1>5, <2>2
    <2> QED
      BY <2>3 DEF AllRecs
  <1>9. ASSUME NEW x \in (AllRecs \ {r}) PROVE x \in AllRecs'
    <2>1. PICK c \in Buckets : \E j \in 1..Len(chain[c]) : chain[c][j] = x
      BY DEF AllRecs
    <2>2. PICK j \in 1..Len(chain[c]) : chain[c][j] = x
      BY <2>1
    <2>3. chain'[c][j] = x /\ x \in Rec
      BY <1>5, <2>2
    <2> QED
      BY <1>6, <2>3
  <1>10. q \in AllRecs'
    BY <1>5, <1>6
  <1> QED
    BY <1>7, <1>8, <1>9, <1>10

\* A step that appends a record.
LEMMA GrownRecs ==
  ASSUME TypeOK, NEW b \in Buckets, NEW r \in Rec,
         chain' = [chain EXCEPT ![b] = Grown(chain[b], r)]
  PROVE  AllRecs' = AllRecs \cup {r}
PROOF
  <1>1. chain[b] \in Seq(Rec) /\ Len(chain[b]) \in Nat
    BY LenProperties DEF TypeOK
  <1>2. /\ Len(Grown(chain[b], r)) = Len(chain[b]) + 1
        /\ \A j \in 1..(Len(chain[b]) + 1) :
             Grown(chain[b], r)[j] = IF j <= Len(chain[b]) THEN chain[b][j] ELSE r
    BY <1>1, GrownChain
  <1>3. chain'[b] = Grown(chain[b], r) /\ \A c \in Buckets \ {b} : chain'[c] = chain[c]
    BY DEF TypeOK
  <1>4. ASSUME NEW x \in AllRecs' PROVE x \in AllRecs \cup {r}
    <2>1. PICK c \in Buckets : \E j \in 1..Len(chain'[c]) : chain'[c][j] = x
      BY DEF AllRecs
    <2>2. PICK j \in 1..Len(chain'[c]) : chain'[c][j] = x
      BY <2>1
    <2>3. x \in Rec
      BY DEF AllRecs
    <2>4. CASE c = b
      <3>1. j \in 1..(Len(chain[b]) + 1) /\ (x = r \/ (j \in 1..Len(chain[b]) /\ x = chain[b][j]))
        BY <1>1, <1>2, <1>3, <2>2, <2>4
      <3> QED
        BY <2>3, <3>1 DEF AllRecs
    <2>5. CASE c # b
      BY <1>3, <2>2, <2>3, <2>5 DEF AllRecs
    <2> QED
      BY <2>4, <2>5
  <1>5. ASSUME NEW x \in AllRecs PROVE x \in AllRecs'
    <2>1. PICK c \in Buckets : \E j \in 1..Len(chain[c]) : chain[c][j] = x
      BY DEF AllRecs
    <2>2. PICK j \in 1..Len(chain[c]) : chain[c][j] = x
      BY <2>1
    <2>3. x \in Rec
      BY DEF AllRecs
    <2>4. j \in 1..Len(chain'[c]) /\ chain'[c][j] = x
      <3>1. CASE c = b
        BY <1>1, <1>2, <1>3, <2>2, <3>1
      <3>2. CASE c # b
        BY <1>3, <2>2, <3>2
      <3> QED
        BY <3>1, <3>2
    <2> QED
      BY <2>3, <2>4 DEF AllRecs
  <1>6. r \in AllRecs'
    <2>1. Len(chain[b]) + 1 \in 1..Len(chain'[b]) /\ chain'[b][Len(chain[b]) + 1] = r
      BY <1>1, <1>2, <1>3
    <2> QED
      BY <2>1 DEF AllRecs
  <1> QED
    BY <1>4, <1>5, <1>6

\* A step that takes a record out.
LEMMA WithoutRecs ==
  ASSUME TypeOK, Interned, NEW b \in Buckets, NEW i \in 1..Len(chain[b]),
         chain' = [chain EXCEPT ![b] = Without(chain[b], i)],
         NEW r, r = chain[b][i]
  PROVE  r \in AllRecs /\ AllRecs' = AllRecs \ {r}
PROOF
  <1>1. chain[b] \in Seq(Rec) /\ Len(chain[b]) \in Nat /\ r \in Rec
    BY LenProperties, RecTyped DEF TypeOK
  <1>2. /\ Len(Without(chain[b], i)) = Len(chain[b]) - 1
        /\ \A j \in 1..(Len(chain[b]) - 1) :
             Without(chain[b], i)[j] = IF j < i THEN chain[b][j] ELSE chain[b][j + 1]
    BY <1>1, WithoutChain
  <1>3. chain'[b] = Without(chain[b], i) /\ \A c \in Buckets \ {b} : chain'[c] = chain[c]
    BY DEF TypeOK
  <1>4. \A c \in Buckets : \A j \in 1..Len(chain[c]) : chain[c][j] = r => c = b /\ j = i
    BY DEF Interned
  <1>5. ASSUME NEW x \in AllRecs' PROVE x \in AllRecs \ {r}
    <2>1. PICK c \in Buckets : \E j \in 1..Len(chain'[c]) : chain'[c][j] = x
      BY DEF AllRecs
    <2>2. PICK j \in 1..Len(chain'[c]) : chain'[c][j] = x
      BY <2>1
    <2>3. x \in Rec
      BY DEF AllRecs
    <2>4. PICK k \in 1..Len(chain[c]) : chain[c][k] = x /\ ~(c = b /\ k = i)
      <3>1. CASE c = b
        <4>1. j \in 1..(Len(chain[b]) - 1) /\ x = IF j < i THEN chain[b][j] ELSE chain[b][j + 1]
          BY <1>2, <1>3, <2>2, <3>1
        <4>2. CASE j < i
          BY <1>1, <3>1, <4>1, <4>2
        <4>3. CASE ~(j < i)
          <5>1. j + 1 \in 1..Len(chain[b]) /\ j + 1 # i
            BY <1>1, <4>1, <4>3
          <5> QED
            BY <3>1, <4>1, <4>3, <5>1
        <4> QED
          BY <4>2, <4>3
      <3>2. CASE c # b
        BY <1>3, <2>2, <3>2
      <3> QED
        BY <3>1, <3>2
    <2> QED
      BY <1>4, <2>3, <2>4 DEF AllRecs
  <1>6. ASSUME NEW x \in AllRecs \ {r} PROVE x \in AllRecs'
    <2>1. PICK c \in Buckets : \E j \in 1..Len(chain[c]) : chain[c][j] = x
      BY DEF AllRecs
    <2>2. PICK j \in 1..Len(chain[c]) : chain[c][j] = x
      BY <2>1
    <2>3. x \in Rec
      BY DEF AllRecs
    <2>4. \E k \in 1..Len(chain'[c]) : chain'[c][k] = x
      <3>1. CASE c = b
        <4>1. j # i
          BY <2>2, <3>1
        <4>2. CASE j < i
          <5>1. j \in 1..(Len(chain[b]) - 1)
            BY <1>1, <3>1, <4>2
          <5> QED
            BY <1>2, <1>3, <2>2, <3>1, <4>2, <5>1
        <4>3. CASE j > i
          <5>1. j - 1 \in 1..(Len(chain[b]) - 1) /\ ~(j - 1 < i) /\ (j - 1) + 1 = j
            BY <1>1, <3>1, <4>3
          <5>2. Without(chain[b], i)[j - 1] = chain[b][j]
            BY <1>2, <5>1
          <5> QED
            BY <1>2, <1>3, <2>2, <3>1, <5>1, <5>2
        <4> QED
          BY <3>1, <4>1, <4>2, <4>3
      <3>2. CASE c # b
        BY <1>3, <2>2, <3>2
      <3> QED
        BY <3>1, <3>2
    <2> QED
      BY <2>3, <2>4 DEF AllRecs
  <1>7. r \in AllRecs
    BY <1>1 DEF AllRecs
  <1> QED
    BY <1>5, <1>6, <1>7


\* What the pool sees of every content, and what is stored, from the records.
PoolViews ==
  \A v \in Values :
    /\ \A r \in AllRecs : r.value = v => CountOf(v) = r.refcount /\ PtrOf(v) = r.addr
    /\ (\A r \in AllRecs : r.value # v) => CountOf(v) = 0 /\ PtrOf(v) = None
Views == PoolViews /\ Stored = {r.addr : r \in AllRecs}

\* The inductive invariant has a record seen as one content of the pool.
LEMMA IInvViews == IInv => Views
PROOF
  BY PoolView, StoredRecs DEF IInv, Views, PoolViews

\* A content keeps its counter and its address when its record does not change.
LEMMA ViewKept ==
  ASSUME PoolViews, PoolViews', NEW v, \A r \in Rec : r.value # v => (r \in AllRecs' <=> r \in AllRecs),
         NEW w \in Values, w # v
  PROVE  CountOf(w)' = CountOf(w) /\ PtrOf(w)' = PtrOf(w)
PROOF
  <1>1. AllRecs \subseteq Rec /\ AllRecs' \subseteq Rec
    BY DEF AllRecs
  <1>2. ASSUME NEW r \in AllRecs, r.value = w PROVE CountOf(w)' = CountOf(w) /\ PtrOf(w)' = PtrOf(w)
    <2>1. r \in AllRecs'
      BY <1>1, <1>2
    <2> QED
      BY <1>2, <2>1 DEF PoolViews
  <1>3. ASSUME \A r \in AllRecs : r.value # w PROVE CountOf(w)' = CountOf(w) /\ PtrOf(w)' = PtrOf(w)
    <2>1. \A r \in AllRecs' : r.value # w
      BY <1>1, <1>3
    <2> QED
      BY <1>3, <2>1 DEF PoolViews
  <1> QED
    BY <1>2, <1>3

\* A step that counts one reference more or less to a content of the pool.
LEMMA PoolCounts ==
  ASSUME IInv, IInv', Views, Views', NEW b \in Buckets, NEW i \in 1..Len(chain[b]), NEW d \in Int,
         chain[b][i].refcount + d > 0,
         chain' = [chain EXCEPT ![b] = Counted(chain[b], i, d)]
  PROVE  \E v \in Values :
           /\ CountOf(v) > 0 /\ CountOf(v) = chain[b][i].refcount
           /\ CountOf(v)' = CountOf(v) + d /\ PtrOf(v)' = PtrOf(v)
           /\ \A w \in Values \ {v} : CountOf(w)' = CountOf(w) /\ PtrOf(w)' = PtrOf(w)
PROOF
  <1>1. PICK r \in Rec : r = chain[b][i]
    BY RecTyped DEF IInv
  <1>2. PICK q \in Rec : q.value = r.value /\ q.addr = r.addr /\ q.refcount = r.refcount + d
    <2>1. r.refcount + d \in Nat /\ r.value \in Values /\ r.addr \in Addr
      BY <1>1 DEF Rec
    <2>2. [value |-> r.value, addr |-> r.addr, refcount |-> r.refcount + d] \in Rec
      BY <2>1 DEF Rec
    <2> QED
      BY <2>2
  <1>3. r \in AllRecs /\ AllRecs' = (AllRecs \ {r}) \cup {q}
    <2>1. chain[b][i].refcount + d >= 0
      BY <1>1 DEF Rec
    <2>2. TypeOK /\ Interned /\ TypeOK'
      BY DEF IInv
    <2>3. Recounted(chain[b][i], d)
      BY <2>1, <2>2, CountedRecs
    <2> QED
      BY <1>1, <1>2, <2>3 DEF Recounted
  <1>4. r.value \in Values /\ q.value = r.value /\ q.addr = r.addr /\ q.refcount = r.refcount + d
    BY <1>1, <1>2 DEF Rec
  <1>5. r.refcount > 0
    BY <1>1 DEF IInv, RefcountExact
  <1>6. CountOf(r.value) = r.refcount /\ PtrOf(r.value) = r.addr
    BY <1>3, <1>4 DEF Views, PoolViews
  <1>7. q \in AllRecs'
    BY <1>3
  <1>8. CountOf(r.value)' = q.refcount /\ PtrOf(r.value)' = q.addr
    BY <1>4, <1>7 DEF Views, PoolViews
  <1>9. \A x \in Rec : x.value # r.value => (x \in AllRecs' <=> x \in AllRecs)
    BY <1>3, <1>4
  <1>10. \A w \in Values \ {r.value} : CountOf(w)' = CountOf(w) /\ PtrOf(w)' = PtrOf(w)
    BY <1>9, ViewKept DEF Views
  <1> QED
    BY <1>1, <1>4, <1>5, <1>6, <1>8, <1>10

\* Every step of the table is a step of the pool, or changes nothing there.
LEMMA StepPool ==
  ASSUME IInv, IInv', Views, Views', [Next]_vars
  PROVE  [Pool!Next]_(Pool!poolVars)
PROOF
  <1>1. ASSUME NEW t \in Threads, dict_insert_found(t) PROVE Pool!Next
    <2>1. HashOf[arg[t].val] \in Buckets
      BY <1>1, HashType DEF dict_insert_found, IInv, BufferPrivate
    <2>2. PICK b \in Buckets : b = HashOf[arg[t].val]
      BY <2>1
    <2>3. PICK i \in WithValue(b, arg[t].val) : chain' = [chain EXCEPT ![b] = Counted(chain[b], i, 1)]
      BY <1>1, <2>2 DEF dict_insert_found
    <2>4. i \in 1..Len(chain[b])
      BY DEF WithValue
    <2>5. 1 \in Int /\ chain[b][i].refcount + 1 > 0
      BY <2>4, RecTyped DEF IInv
    <2>6. PICK v \in Values :
            /\ CountOf(v) > 0 /\ CountOf(v)' = CountOf(v) + 1 /\ PtrOf(v)' = PtrOf(v)
            /\ \A w \in Values \ {v} : CountOf(w)' = CountOf(w) /\ PtrOf(w)' = PtrOf(w)
      BY <2>3, <2>4, <2>5, PoolCounts
    <2>7. Pool!InsertAgain(v)
      BY <2>6 DEF Pool!InsertAgain
    <2> QED
      BY <2>7 DEF Pool!Next
  <1>2. ASSUME NEW t \in Threads, remove_decrement(t) PROVE Pool!Next
    <2>1. HashOf[arg[t].val] \in Buckets
      BY <1>2, HashType DEF remove_decrement, IInv, RemovalFresh
    <2>2. PICK b \in Buckets : b = HashOf[arg[t].val]
      BY <2>1
    <2>3. PICK i \in WithAddr(b, arg[t].addr) :
            chain[b][i].refcount # 1 /\ chain' = [chain EXCEPT ![b] = Counted(chain[b], i, -1)]
      BY <1>2, <2>2 DEF remove_decrement
    <2>4. i \in 1..Len(chain[b])
      BY DEF WithAddr
    <2>5. -1 \in Int /\ chain[b][i].refcount + (-1) > 0 /\ chain[b][i].refcount \in Nat
      <3>1. chain[b][i].refcount \in Nat
        BY <2>4, RecTyped DEF IInv
      <3>2. chain[b][i].refcount > 0
        BY <2>4 DEF IInv, RefcountExact
      <3> QED
        BY <2>3, <3>1, <3>2
    <2>6. PICK v \in Values :
            /\ CountOf(v) > 0 /\ CountOf(v) = chain[b][i].refcount
            /\ CountOf(v)' = CountOf(v) + (-1) /\ PtrOf(v)' = PtrOf(v)
            /\ \A w \in Values \ {v} : CountOf(w)' = CountOf(w) /\ PtrOf(w)' = PtrOf(w)
      BY <2>3, <2>4, <2>5, PoolCounts, ZenonT(60)
    <2>7. CountOf(v) # 1 /\ CountOf(v)' = CountOf(v) - 1
      BY <2>3, <2>5, <2>6
    <2>8. Pool!Remove(v)
      BY <2>6, <2>7 DEF Pool!Remove
    <2> QED
      BY <2>8 DEF Pool!Next
  <1>3. ASSUME NEW t \in Threads, NEW a \in Addr, dict_insert_new(t, a) PROVE Pool!Next
    <2>1. PICK v \in Values : v = arg[t].val
      BY <1>3 DEF dict_insert_new, IInv, BufferPrivate
    <2>2. PICK b \in Buckets : b = HashOf[v]
      BY HashType
    <2>3. PICK r \in Rec : r = [value |-> v, addr |-> a, refcount |-> 1]
      BY DEF Rec
    <2>4. /\ WithValue(b, v) = {} /\ (IF arg[t].addr = None THEN heap[a] = None ELSE a = arg[t].addr)
          /\ chain' = [chain EXCEPT ![b] = Grown(chain[b], r)] /\ pc[t] = "ins"
      BY <1>3, <2>1, <2>2, <2>3 DEF dict_insert_new
    <2>5. AllRecs' = AllRecs \cup {r} /\ r.value = v /\ r.addr = a /\ r.refcount = 1
      BY <2>3, <2>4, GrownRecs DEF IInv
    <2>6. \A x \in AllRecs : x.value # v
      <3> SUFFICES ASSUME NEW x \in AllRecs, x.value = v PROVE FALSE
        OBVIOUS
      <3>1. PICK c \in Buckets : \E j \in 1..Len(chain[c]) : chain[c][j] = x
        BY DEF AllRecs
      <3>2. PICK j \in 1..Len(chain[c]) : chain[c][j] = x
        BY <3>1
      <3>3. c = b
        BY <2>2, <3>2 DEF IInv, Interned
      <3> QED
        BY <2>4, <3>2, <3>3 DEF WithValue
    <2>7. a \notin Stored
      <3>1. CASE arg[t].addr = None
        BY <2>4, <3>1, StoredAlive, NoneOutside DEF IInv
      <3>2. CASE arg[t].addr # None
        BY <2>4, <3>2 DEF IInv, BufferPrivate
      <3> QED
        BY <3>1, <3>2
    <2>8. ASSUME NEW w \in Values PROVE PtrOf(w) # a
      <3>1. CASE \A x \in AllRecs : x.value # w
        BY <3>1, NoneOutside DEF Views, PoolViews
      <3>2. ASSUME NEW x \in AllRecs, x.value = w PROVE PtrOf(w) # a
        <4>1. x.addr \in Stored /\ PtrOf(w) = x.addr
          BY <3>2 DEF Views, PoolViews
        <4> QED
          BY <2>7, <4>1
      <3> QED
        BY <3>1, <3>2
    <2>9. CountOf(v) = 0 /\ CountOf(v)' = 1 /\ PtrOf(v)' = a
      <3>1. r \in AllRecs'
        BY <2>5
      <3>2. CountOf(v)' = r.refcount /\ PtrOf(v)' = r.addr
        BY <2>5, <3>1 DEF Views, PoolViews
      <3> QED
        BY <2>5, <2>6, <3>2 DEF Views, PoolViews
    <2>10. \A w \in Values \ {v} : CountOf(w)' = CountOf(w) /\ PtrOf(w)' = PtrOf(w)
      <3>1. \A x \in Rec : x.value # v => (x \in AllRecs' <=> x \in AllRecs)
        BY <2>5
      <3> QED
        BY <3>1, ViewKept DEF Views
    <2>11. Pool!InsertNew(v, a)
      BY <2>8, <2>9, <2>10 DEF Pool!InsertNew
    <2> QED
      BY <2>11 DEF Pool!Next
  <1>4. ASSUME NEW t \in Threads, remove_last(t) PROVE Pool!Next
    <2>1. HashOf[arg[t].val] \in Buckets
      BY <1>4, HashType DEF remove_last, IInv, RemovalFresh
    <2>2. PICK b \in Buckets : b = HashOf[arg[t].val]
      BY <2>1
    <2>3. PICK i \in WithAddr(b, arg[t].addr) :
            chain[b][i].refcount = 1 /\ chain' = [chain EXCEPT ![b] = Without(chain[b], i)]
      BY <1>4, <2>2 DEF remove_last
    <2>4. i \in 1..Len(chain[b])
      BY DEF WithAddr
    <2>5. PICK r \in Rec : r = chain[b][i]
      BY <2>4, RecTyped DEF IInv
    <2>6. r \in AllRecs /\ AllRecs' = AllRecs \ {r} /\ r.value \in Values
      BY <2>3, <2>4, <2>5, WithoutRecs DEF IInv, Rec
    <2>7. CountOf(r.value) = 1
      BY <2>3, <2>5, <2>6 DEF Views, PoolViews
    <2>8. \A x \in AllRecs' : x.value # r.value
      <3> SUFFICES ASSUME NEW x \in AllRecs, x.value = r.value PROVE x = r
        BY <2>6
      <3>1. PICK c \in Buckets : \E j \in 1..Len(chain[c]) : chain[c][j] = x
        BY DEF AllRecs
      <3>2. PICK j \in 1..Len(chain[c]) : chain[c][j] = x
        BY <3>1
      <3> QED
        BY <2>4, <2>5, <3>2 DEF IInv, Interned
    <2>9. CountOf(r.value)' = 0 /\ PtrOf(r.value)' = None
      BY <2>6, <2>8 DEF Views, PoolViews
    <2>10. \A w \in Values \ {r.value} : CountOf(w)' = CountOf(w) /\ PtrOf(w)' = PtrOf(w)
      <3>1. \A x \in Rec : x.value # r.value => (x \in AllRecs' <=> x \in AllRecs)
        BY <2>6
      <3> QED
        BY <3>1, ViewKept DEF Views
    <2>11. Pool!Remove(r.value)
      <3>1. PICK v \in Values : v = r.value
        BY <2>6
      <3>2. CountOf(v) = 1 /\ CountOf(v)' = 0 /\ PtrOf(v)' = None
        BY <2>7, <2>9, <3>1
      <3>3. \A w \in Values : w # v => CountOf(w)' = CountOf(w) /\ PtrOf(w)' = PtrOf(w)
        BY <2>10, <3>1
      <3>4. 1 > 0 /\ 1 - 1 = 0
        OBVIOUS
      <3>5. Pool!Remove(v)
        BY <3>2, <3>3, <3>4 DEF Pool!Remove
      <3> QED
        BY <3>1, <3>5
    <2> QED
      BY <2>6, <2>11 DEF Pool!Next
  <1>5. CASE lydict_clean
    <2>1. \A b \in Buckets : Len(chain'[b]) = 0
      BY <1>5 DEF lydict_clean
    <2>2. AllRecs' = {}
      BY <2>1 DEF AllRecs
    <2>3. \A v \in Values : CountOf(v)' = 0 /\ PtrOf(v)' = None
      BY <2>2 DEF Views, PoolViews
    <2>4. Pool!Clear
      BY <2>3 DEF Pool!Clear
    <2> QED
      BY <2>4 DEF Pool!Next
  <1>6. CASE UNCHANGED chain
    <2>1. \A v \in Values : CountOf(v)' = CountOf(v) /\ PtrOf(v)' = PtrOf(v)
      BY <1>6 DEF CountOf, PtrOf, RecordsOf, WithValue
    <2> QED
      BY <2>1 DEF Pool!poolVars
  <1> QED
    BY <1>1, <1>2, <1>3, <1>4, <1>5, <1>6
    DEF Next, Body, vars, lydict_insert, lydict_insert_zc, lydict_remove_foreign, lydict_remove, InsertLock,
        RemoveLock, dict_insert_nomem, InsertUnlock, remove_notfound, RemoveUnlock

\* Callers cannot tell the locked table from a pool whose inserts and removes
\* happen at one moment each: every step under the lock is a step of StringPool,
\* and all others change nothing that it has.
THEOREM TableIsPool == Spec => ImplementsPool
PROOF
  <1>1. Init => Pool!Init
    <2> SUFFICES ASSUME Init PROVE Pool!Init
      OBVIOUS
    <2>1. IInv /\ Views
      BY InitIInv, IInvViews
    <2>2. \A b \in Buckets : Len(chain[b]) = 0
      BY DEF Init
    <2>3. AllRecs = {}
      BY <2>2 DEF AllRecs
    <2>4. \A v \in Values : CountOf(v) = 0 /\ PtrOf(v) = None
      BY <2>1, <2>3 DEF Views, PoolViews
    <2> QED
      BY <2>4 DEF Pool!Init
  <1>2. IInv /\ IInv' /\ Views /\ Views' /\ [Next]_vars => [Pool!Next]_(Pool!poolVars)
    BY StepPool
  <1>3. Spec => Init /\ []IInv /\ [][Next]_vars
    BY Invariance, PTL DEF Spec
  <1> QED
    BY <1>1, <1>2, <1>3, IInvViews, PTL DEF ImplementsPool, Pool!Spec

\* A step keeps the owner of every string that stays alive, unless an insert
\* gets no memory.
LEMMA StepOwned ==
  ASSUME IInv, IInv', Views, Views', [Next]_vars, NEW a \in Addr,
         heap[a] # None => Owned(a), heap'[a] # None, ~Owned(a)'
  PROVE  \E t \in Threads : arg[t].addr = a /\ dict_insert_nomem(t)
PROOF
  <1>1. a \notin Stored' /\ \A t \in Threads : pc'[t] \in {"ins_lock", "ins"} => arg'[t].addr # a
    BY DEF Owned
  <1>2. ASSUME NEW t \in Threads, NEW v \in Values, NEW x \in Addr, lydict_insert_zc(t, v, x) PROVE FALSE
    <2>1. x # a
      BY <1>1, <1>2 DEF lydict_insert_zc, Goto, IInv, TypeOK
    <2>2. heap[a] # None
      BY <1>2, <2>1 DEF lydict_insert_zc, IInv, TypeOK
    <2>3. Stored' = Stored
      BY <1>2 DEF lydict_insert_zc, Stored, WithAddr
    <2>4. PICK u \in Threads : pc[u] \in {"ins_lock", "ins"} /\ arg[u].addr = a
      BY <1>1, <2>2, <2>3 DEF Owned
    <2>5. u # t
      BY <1>2, <2>4 DEF lydict_insert_zc
    <2> QED
      BY <1>1, <1>2, <2>4, <2>5 DEF lydict_insert_zc, Goto, IInv, TypeOK
  <1>3. ASSUME NEW t \in Threads, dict_insert_found(t) PROVE FALSE
    <2>1. heap[a] # None /\ a # arg[t].addr
      BY <1>3 DEF dict_insert_found
    <2>2. HashOf[arg[t].val] \in Buckets
      BY <1>3, HashType DEF dict_insert_found, IInv, BufferPrivate
    <2>3. PICK b \in Buckets : b = HashOf[arg[t].val]
      BY <2>2
    <2>4. PICK i \in WithValue(b, arg[t].val) : chain' = [chain EXCEPT ![b] = Counted(chain[b], i, 1)]
      BY <1>3, <2>3 DEF dict_insert_found
    <2>5. i \in 1..Len(chain[b])
      BY DEF WithValue
    <2>6. 1 \in Int /\ chain[b][i].refcount + 1 >= 0
      BY <2>5, RecTyped DEF IInv
    <2>7. Stored' = Stored
      BY <2>4, <2>5, <2>6, CountedTable DEF IInv
    <2>8. PICK u \in Threads : pc[u] \in {"ins_lock", "ins"} /\ arg[u].addr = a
      BY <1>1, <2>1, <2>7 DEF Owned
    <2> QED
      BY <1>1, <1>3, <2>1, <2>8 DEF dict_insert_found, Goto, IInv, TypeOK
  <1>4. ASSUME NEW t \in Threads, NEW x \in Addr, dict_insert_new(t, x) PROVE FALSE
    <2>1. PICK v \in Values : v = arg[t].val
      BY <1>4 DEF dict_insert_new, IInv, BufferPrivate
    <2>2. PICK b \in Buckets : b = HashOf[v]
      BY HashType
    <2>3. PICK r \in Rec : r = [value |-> v, addr |-> x, refcount |-> 1]
      BY DEF Rec
    <2>4. chain' = [chain EXCEPT ![b] = Grown(chain[b], r)]
      BY <1>4, <2>1, <2>2, <2>3 DEF dict_insert_new
    <2>5. AllRecs' = AllRecs \cup {r} /\ r.addr = x
      BY <2>3, <2>4, GrownRecs DEF IInv
    <2>6. x \in Stored' /\ Stored \subseteq Stored'
      BY <2>5 DEF Views
    <2>7. a # x
      BY <1>1, <2>6
    <2>8. heap[a] # None
      BY <1>4, <2>7 DEF dict_insert_new, IInv, TypeOK
    <2>9. PICK u \in Threads : pc[u] \in {"ins_lock", "ins"} /\ arg[u].addr = a
      BY <1>1, <2>6, <2>8 DEF Owned
    <2>10. u # t
      BY <1>4, <2>7, <2>9, NoneOutside DEF dict_insert_new
    <2> QED
      BY <1>1, <1>4, <2>9, <2>10 DEF dict_insert_new, Goto, IInv, TypeOK
  <1>5. ASSUME NEW t \in Threads, remove_decrement(t) PROVE FALSE
    <2>1. heap[a] # None
      BY <1>5 DEF remove_decrement
    <2>2. HashOf[arg[t].val] \in Buckets
      BY <1>5, HashType DEF remove_decrement, IInv, RemovalFresh
    <2>3. PICK b \in Buckets : b = HashOf[arg[t].val]
      BY <2>2
    <2>4. PICK i \in WithAddr(b, arg[t].addr) :
            chain[b][i].refcount # 1 /\ chain' = [chain EXCEPT ![b] = Counted(chain[b], i, -1)]
      BY <1>5, <2>3 DEF remove_decrement
    <2>5. i \in 1..Len(chain[b])
      BY DEF WithAddr
    <2>6. -1 \in Int /\ chain[b][i].refcount + (-1) >= 0
      <3>1. chain[b][i].refcount \in Nat
        BY <2>5, RecTyped DEF IInv
      <3>2. chain[b][i].refcount > 0
        BY <2>5 DEF IInv, RefcountExact
      <3> QED
        BY <3>1, <3>2
    <2>7. Stored' = Stored
      BY <2>4, <2>5, <2>6, CountedTable DEF IInv
    <2>8. PICK u \in Threads : pc[u] \in {"ins_lock", "ins"} /\ arg[u].addr = a
      BY <1>1, <2>1, <2>7 DEF Owned
    <2> QED
      BY <1>1, <1>5, <2>8 DEF remove_decrement, Goto, IInv, TypeOK
  <1>6. ASSUME NEW t \in Threads, remove_last(t) PROVE FALSE
    <2>1. heap[a] # None /\ arg[t].addr # a
      BY <1>6 DEF remove_last, IInv, TypeOK
    <2>2. HashOf[arg[t].val] \in Buckets
      BY <1>6, HashType DEF remove_last, IInv, RemovalFresh
    <2>3. PICK b \in Buckets : b = HashOf[arg[t].val]
      BY <2>2
    <2>4. PICK i \in WithAddr(b, arg[t].addr) : chain' = [chain EXCEPT ![b] = Without(chain[b], i)]
      BY <1>6, <2>3 DEF remove_last
    <2>5. i \in 1..Len(chain[b]) /\ chain[b][i].addr = arg[t].addr
      BY DEF WithAddr
    <2>6. AllRecs' = AllRecs \ {chain[b][i]}
      BY <2>4, <2>5, WithoutRecs DEF IInv
    <2>7. a \in Stored => a \in Stored'
      BY <2>1, <2>5, <2>6 DEF Views
    <2>8. PICK u \in Threads : pc[u] \in {"ins_lock", "ins"} /\ arg[u].addr = a
      BY <1>1, <2>1, <2>7 DEF Owned
    <2> QED
      BY <1>1, <1>6, <2>8 DEF remove_last, Goto, IInv, TypeOK
  <1>7. CASE lydict_clean
    <2>1. heap[a] # None /\ a \notin Stored
      BY <1>7 DEF lydict_clean
    <2>2. PICK u \in Threads : pc[u] \in {"ins_lock", "ins"} /\ arg[u].addr = a
      BY <2>1 DEF Owned
    <2> QED
      BY <1>7, <2>2 DEF lydict_clean, Quiet
  <1>8. ASSUME UNCHANGED <<chain, heap>>, NEW t \in Threads,
               \A u \in Threads \ {t} : pc'[u] = pc[u] /\ arg'[u] = arg[u]
        PROVE  pc[t] \in {"ins_lock", "ins"} /\ arg[t].addr = a
               /\ ~(pc'[t] \in {"ins_lock", "ins"} /\ arg'[t].addr = a)
    <2>1. heap[a] # None /\ a \notin Stored
      BY <1>1, <1>8 DEF Stored, WithAddr
    <2>2. PICK u \in Threads : pc[u] \in {"ins_lock", "ins"} /\ arg[u].addr = a
      BY <2>1 DEF Owned
    <2> QED
      BY <1>1, <1>8, <2>2
  <1>9. ASSUME NEW t \in Threads, dict_insert_nomem(t) PROVE arg[t].addr = a
    BY <1>8, <1>9 DEF dict_insert_nomem, Goto, IInv, TypeOK
  <1>10. ASSUME NEW t \in Threads, NEW v \in Values, lydict_insert(t, v) \/ lydict_remove_foreign(t, v)
         PROVE  FALSE
    BY <1>8, <1>10 DEF lydict_insert, lydict_remove_foreign, Goto, IInv, TypeOK
  <1>11. ASSUME NEW t \in Threads, NEW x \in Addr, lydict_remove(t, x) PROVE FALSE
    BY <1>8, <1>11 DEF lydict_remove, Goto, IInv, TypeOK
  <1>12. ASSUME NEW t \in Threads, InsertLock(t) \/ RemoveLock(t) PROVE FALSE
    BY <1>8, <1>12 DEF InsertLock, RemoveLock, Goto, IInv, TypeOK
  <1>13. ASSUME NEW t \in Threads, InsertUnlock(t) \/ RemoveUnlock(t) \/ remove_notfound(t) PROVE FALSE
    BY <1>8, <1>13 DEF InsertUnlock, RemoveUnlock, remove_notfound, Goto, IInv, TypeOK
  <1>14. CASE UNCHANGED vars
    <2>1. heap[a] # None /\ a \notin Stored
      BY <1>1, <1>14 DEF vars, Stored, WithAddr
    <2> QED
      BY <1>1, <1>14, <2>1 DEF vars, Owned
  <1> QED
    BY <1>2, <1>3, <1>4, <1>5, <1>6, <1>7, <1>9, <1>10, <1>11, <1>12, <1>13, <1>14 DEF Next, Body

\* A live string always has an owner, the table or the caller of an insert; the
\* exception is dict_insert without memory for a record.
THEOREM StringsOwned == Spec => NoLeak
PROOF
  <1>1. IInv /\ IInv' /\ Views /\ Views' /\ [Next]_vars =>
          [\A a \in Addr :
             (heap[a] # None => Owned(a)) /\ heap'[a] # None /\ ~Owned(a)' =>
               \E t \in Threads : arg[t].addr = a /\ dict_insert_nomem(t)]_vars
    BY StepOwned
  <1>2. Spec => []IInv /\ [][Next]_vars
    BY Invariance, PTL DEF Spec
  <1> QED
    BY <1>1, <1>2, IInvViews, PTL DEF NoLeak
=============================================================================
