----------------------------- MODULE LoadProofs -----------------------------
(***************************************************************************)
(* What a context has after any calls, for any documents: proofs about     *)
(* ModuleLoad.  The parts of the invariant speak of a memory m, a list of  *)
(* modules l and readers s, since most steps are made of several changes   *)
(* of these and each change keeps the invariant.                           *)
(***************************************************************************)
EXTENDS ModuleLoad, ClosureProofs, SequenceTheorems

Frame == [obj : Addr, main : Addr, at : Nat \ {0}, aux : Nat \ {0}, implement : BOOLEAN, unres : BOOLEAN]

Typed(m, l, s) == m \in [Addr -> Obj \cup {None}] /\ l \in Seq(Addr) /\ s \in Seq(Frame)

\* x may point to submodules and belongs to module y: x is a module of the context, or
\* it is being read.
Belongs(l, s, x, y) == (x \in Range(l) /\ y = x) \/ \E k \in DOMAIN s : s[k].obj = x /\ s[k].main = y

\* A module is its own main module, a submodule is read for the reader below it.
Readers(m, l, s) ==
  /\ \A k \in DOMAIN s :
       /\ m[s[k].obj] # None /\ s[k].obj \notin Range(l)
       /\ \A j \in DOMAIN s : s[j].obj = s[k].obj => j = k
       /\ \E j \in DOMAIN s : j <= k /\ s[j].obj = s[k].main /\ s[j].main = s[k].main
       /\ IsModule(m, s[k].obj) <=> s[k].obj = s[k].main
       /\ s[k].obj # s[k].main => k > 1 /\ s[k - 1].main = s[k].main
  /\ \A a \in Range(l) : m[a] # None /\ IsModule(m, a)

\* Families are apart: a submodule is alive, neither a module nor being read any
\* more, and belongs to one module.
Families(m, l, s) ==
  /\ \A x, y \in Addr : Belongs(l, s, x, y) =>
       \A t \in Submodules(m, x) : m[t] # None /\ \A v, w \in Addr : Belongs(l, s, v, w) => t # v
  /\ \A x, y, v, w \in Addr : Belongs(l, s, x, y) /\ Belongs(l, s, v, w) /\ y # w =>
       Submodules(m, x) \cap Submodules(m, v) = {}

\* Imports are modules of the context.
Imports(m, l, s) == \A x, y \in Addr : Belongs(l, s, x, y) => Range(m[x].imp) \subseteq Range(l)

\* The statement st of the (sub)module at o has been dealt with.
Satisfied(m, o, st) ==
  \E x \in IF st.kind = "import" THEN Range(m[o].imp) ELSE Submodules(m, o) : File(m, x).name = st.name

\* The include statements among the first n of a document.
Includes(f, n) == {i \in 1..n : Doc[f].stmts[i].kind = "include"}

\* The places of the includes: the first ones are taken by the module's own, those
\* up to the number of its include statements are free.
Places(f, inc, aux) ==
  /\ Len(inc) >= Count(f, "include")
  /\ \A i \in 1..(aux - 1) : i <= Len(inc) => ~inc[i].ext
  /\ \A i \in 1..Count(f, "include") : i >= aux => inc[i].sub = None

\* How far the reader with frame r is: the statements before "at" are satisfied.
Position(m, r) ==
  LET o == m[r.obj] IN
  /\ r.at <= Len(Doc[o.file].stmts) + 1
  /\ r.aux = Cardinality(Includes(o.file, r.at - 1)) + 1
  /\ \A i \in 1..(r.at - 1) : Satisfied(m, r.obj, Doc[o.file].stmts[i])
  /\ Places(o.file, o.inc, r.aux)

\* What reader k waits for: the reader above it was started for its next statement.
Waits(m, s, k) ==
  LET f == m[s[k].obj].file
      st == Doc[f].stmts[s[k].at]
      above == s[k + 1] IN
  /\ s[k].at <= Len(Doc[f].stmts)
  /\ st.name = File(m, above.obj).name
  /\ st.kind = IF above.obj = above.main THEN "import" ELSE "include"

Positions(m, s) ==
  /\ \A k \in DOMAIN s : Position(m, s[k])
  /\ \A k \in DOMAIN s : k < Len(s) => Waits(m, s, k)

\* The modules of the context are complete, and have namespaces of their own.
Context(m, l) ==
  /\ \A a \in Range(l) : \A st \in Range(File(m, a).stmts) : Satisfied(m, a, st)
  /\ \A i, j \in DOMAIN l : File(m, l[i]).ns = File(m, l[j]).ns => File(m, l[i]).name = File(m, l[j]).name

Inv(m, l, s) ==
  /\ Typed(m, l, s) /\ Readers(m, l, s) /\ Families(m, l, s) /\ Imports(m, l, s)
  /\ Positions(m, s) /\ Context(m, l)

LoadInv == TypeOK /\ Inv(mem, list, stack)

-----------------------------------------------------------------------------
(* Documents, memory and readers                                           *)

\* A document is of the declared type: what the provers need of its statements.
LEMMA DocFacts ==
  ASSUME NEW f \in Files
  PROVE  /\ Doc[f].stmts \in Seq(Statement) /\ Len(Doc[f].stmts) \in Nat
         /\ DOMAIN Doc[f].stmts = 1..Len(Doc[f].stmts)
         /\ \A i \in 1..Len(Doc[f].stmts) : Doc[f].stmts[i] \in Statement
         /\ Doc[f].name \in STRING /\ Doc[f].rev \in Nat
<1>1. Doc[f].stmts \in Seq(Statement) /\ Doc[f].name \in STRING /\ Doc[f].rev \in Nat
  BY DocType
<1>2. Len(Doc[f].stmts) \in Nat /\ DOMAIN Doc[f].stmts = 1..Len(Doc[f].stmts)
  BY <1>1, LenProperties
<1>3. \A i \in 1..Len(Doc[f].stmts) : Doc[f].stmts[i] \in Statement
  BY <1>1, ElementOfSeq
<1> QED
  BY <1>1, <1>2, <1>3

\* Counting include statements.
LEMMA IncludesFacts ==
  ASSUME NEW f \in Files, NEW n \in Nat, n <= Len(Doc[f].stmts)
  PROVE  /\ Cardinality(Includes(f, n)) \in Nat /\ Count(f, "include") \in Nat
         /\ Cardinality(Includes(f, n)) <= Count(f, "include")
         /\ Includes(f, 0) = {}
         /\ n > 0 /\ Doc[f].stmts[n].kind = "include" =>
              Cardinality(Includes(f, n)) = Cardinality(Includes(f, n - 1)) + 1
         /\ n > 0 /\ Doc[f].stmts[n].kind # "include" => Includes(f, n) = Includes(f, n - 1)
<1>1. Len(Doc[f].stmts) \in Nat /\ DOMAIN Doc[f].stmts = 1..Len(Doc[f].stmts)
  BY DocFacts
<1> DEFINE len == Len(Doc[f].stmts)
           all == {i \in 1..len : Doc[f].stmts[i].kind = "include"}
<1>2. Count(f, "include") = Cardinality(all)
  BY <1>1 DEF Count
<1>3. IsFiniteSet(all)
  <2>1. IsFiniteSet(1..len)
    BY <1>1, FS_Interval
  <2> QED
    BY <2>1, FS_Subset
<1>4. Includes(f, n) \subseteq all
  <2>1. \A i \in 1..n : i \in 1..len
    BY <1>1
  <2> QED
    BY <2>1 DEF Includes
<1> HIDE DEF all
<1>5. /\ Cardinality(all) \in Nat /\ Cardinality(Includes(f, n)) \in Nat
      /\ Cardinality(Includes(f, n)) <= Cardinality(all) /\ IsFiniteSet(Includes(f, n))
  BY <1>3, <1>4, FS_Subset, FS_CardinalityType
<1>6. ASSUME n > 0
      PROVE  /\ Doc[f].stmts[n].kind = "include" => Includes(f, n) = Includes(f, n - 1) \cup {n}
             /\ Doc[f].stmts[n].kind # "include" => Includes(f, n) = Includes(f, n - 1)
             /\ Includes(f, n - 1) \subseteq Includes(f, n) /\ n \notin Includes(f, n - 1)
  <2>1. \A i : i \in 1..n <=> i \in 1..(n - 1) \/ i = n
    BY <1>6
  <2>2. n \notin 1..(n - 1)
    OBVIOUS
  <2> QED
    BY <2>1, <2>2 DEF Includes
<1>7. ASSUME n > 0, Doc[f].stmts[n].kind = "include"
      PROVE  Cardinality(Includes(f, n)) = Cardinality(Includes(f, n - 1)) + 1
  <2>1. IsFiniteSet(Includes(f, n - 1))
    BY <1>5, <1>6, <1>7, FS_Subset
  <2>2. /\ Includes(f, n) = Includes(f, n - 1) \cup {n} /\ n \notin Includes(f, n - 1)
    BY <1>6, <1>7
  <2> QED
    BY <2>1, <2>2, FS_AddElement
<1>8. Includes(f, 0) = {}
  BY DEF Includes
<1> QED
  BY <1>2, <1>5, <1>6, <1>7, <1>8

\* A structure in memory.
LEMMA ObjFacts ==
  ASSUME NEW m \in [Addr -> Obj \cup {None}], NEW a \in Addr, m[a] # None
  PROVE  /\ m[a] \in Obj /\ m[a].file \in Files
         /\ m[a].imp \in Seq(Addr) /\ m[a].cap \in Nat /\ m[a].inc \in Seq(Entry) /\ m[a].impl \in BOOLEAN
         /\ Len(m[a].inc) \in Nat /\ DOMAIN m[a].inc = 1..Len(m[a].inc)
         /\ \A i \in 1..Len(m[a].inc) : m[a].inc[i] \in Entry
         /\ Range(m[a].imp) \subseteq Addr /\ Submodules(m, a) \subseteq Addr
         /\ \A t : t \in Submodules(m, a) <=> t # None /\ \E i \in 1..Len(m[a].inc) : m[a].inc[i].sub = t
<1>1. m[a] \in Obj
  OBVIOUS
<1>2. /\ m[a].file \in Files /\ m[a].imp \in Seq(Addr) /\ m[a].cap \in Nat
      /\ m[a].inc \in Seq(Entry) /\ m[a].impl \in BOOLEAN
  BY <1>1 DEF Obj
<1>3. Len(m[a].inc) \in Nat /\ DOMAIN m[a].inc = 1..Len(m[a].inc)
  BY <1>2, LenProperties
<1>4. \A i \in 1..Len(m[a].inc) : m[a].inc[i] \in Entry
  BY <1>2, ElementOfSeq
<1>5. \A t : t \in Submodules(m, a) <=> t # None /\ \E i \in 1..Len(m[a].inc) : m[a].inc[i].sub = t
  BY <1>3 DEF Submodules, Range
<1>6. Submodules(m, a) \subseteq Addr
  BY <1>4, <1>5 DEF Entry
<1>7. Range(m[a].imp) \subseteq Addr
  BY <1>2, RangeOfSeq
<1> QED
  BY <1>1, <1>2, <1>3, <1>4, <1>5, <1>6, <1>7

\* A sequence and its last place.
LEMMA SeqFacts ==
  ASSUME NEW S, NEW q \in Seq(S)
  PROVE  /\ Len(q) \in Nat /\ DOMAIN q = 1..Len(q) /\ \A k \in 1..Len(q) : q[k] \in S
         /\ \A x : x \in Range(q) <=> \E k \in 1..Len(q) : q[k] = x
         /\ q # << >> => Len(q) > 0 /\ Len(q) \in 1..Len(q) /\ Last(q) = q[Len(q)] /\ Last(q) \in S
<1>1. Len(q) \in Nat /\ DOMAIN q = 1..Len(q)
  BY LenProperties
<1>2. \A k \in 1..Len(q) : q[k] \in S
  BY ElementOfSeq
<1>3. \A x : x \in Range(q) <=> \E k \in 1..Len(q) : q[k] = x
  BY <1>1 DEF Range
<1>4. ASSUME q # << >> PROVE Len(q) > 0 /\ Len(q) \in 1..Len(q) /\ Last(q) = q[Len(q)] /\ Last(q) \in S
  <2>1. Len(q) \in Nat \ {0}
    BY <1>4, EmptySeq
  <2>2. Len(q) > 0 /\ Len(q) \in 1..Len(q)
    BY <2>1
  <2> QED
    BY <1>2, <2>2 DEF Last
<1> QED
  BY <1>1, <1>2, <1>3, <1>4

\* What is below the last place of a sequence.
LEMMA FrontFacts ==
  ASSUME NEW S, NEW q \in Seq(S), q # << >>
  PROVE  /\ Front(q) \in Seq(S) /\ Len(Front(q)) = Len(q) - 1 /\ DOMAIN Front(q) = 1..(Len(q) - 1)
         /\ \A k \in 1..(Len(q) - 1) : Front(q)[k] = q[k] /\ k \in 1..Len(q)
<1>1. Len(q) \in Nat /\ Len(q) > 0 /\ \A k \in 1..Len(q) : q[k] \in S
  BY SeqFacts
<1>2. Len(q) - 1 \in Int /\ 1 \in Int /\ \A k \in 1..(Len(q) - 1) : k \in 1..Len(q) /\ 1 + k - 1 = k
  BY <1>1
<1>3. /\ Front(q) \in Seq(S) /\ Len(Front(q)) = IF 1 <= Len(q) - 1 THEN (Len(q) - 1) - 1 + 1 ELSE 0
      /\ \A k \in 1..((Len(q) - 1) - 1 + 1) : Front(q)[k] = q[1 + k - 1]
  <2>1. PICK n \in Int : n = Len(q) - 1
    BY <1>2
  <2>2. \A k \in 1..n : q[k] \in S
    BY <1>1, <1>2, <2>1
  <2>3. /\ SubSeq(q, 1, n) \in Seq(S) /\ Len(SubSeq(q, 1, n)) = IF 1 <= n THEN n - 1 + 1 ELSE 0
        /\ \A k \in 1..(n - 1 + 1) : SubSeq(q, 1, n)[k] = q[1 + k - 1]
    BY <1>2, <2>2, SubSeqProperties
  <2> QED
    BY <2>1, <2>3 DEF Front
<1>4. Len(Front(q)) = Len(q) - 1 /\ (Len(q) - 1) - 1 + 1 = Len(q) - 1
  <2>1. \A n \in Nat : n > 0 => (IF 1 <= n - 1 THEN (n - 1) - 1 + 1 ELSE 0) = n - 1 /\ (n - 1) - 1 + 1 = n - 1
    OBVIOUS
  <2> QED
    BY <1>1, <1>3, <2>1
<1>5. DOMAIN Front(q) = 1..(Len(q) - 1)
  BY <1>3, <1>4, LenProperties
<1>6. \A k \in 1..(Len(q) - 1) : Front(q)[k] = q[k]
  BY <1>2, <1>3, <1>4
<1> QED
  BY <1>2, <1>3, <1>4, <1>5, <1>6

\* Appending an element adds just that element to the range.
LEMMA AppendRange ==
  ASSUME NEW S, NEW q \in Seq(S), NEW e \in S
  PROVE  Append(q, e) \in Seq(S) /\ Range(Append(q, e)) = Range(q) \cup {e}
<1> DEFINE p == Append(q, e)
           n == Len(q)
<1>1. p \in Seq(S) /\ Len(p) = n + 1 /\ p[n + 1] = e /\ \A k \in 1..n : p[k] = q[k]
  BY AppendProperties
<1>2. n \in Nat /\ \A x : x \in Range(q) <=> \E k \in 1..n : q[k] = x
  BY SeqFacts
<1> HIDE DEF p, n
<1>3. \A x : x \in Range(p) <=> \E k \in 1..(n + 1) : p[k] = x
  <2>1. \A x : x \in Range(p) <=> \E k \in 1..Len(p) : p[k] = x
    BY <1>1, SeqFacts
  <2> QED
    BY <1>1, <2>1
<1>4. \A k : k \in 1..(n + 1) <=> k \in 1..n \/ k = n + 1
  BY <1>2
<1>5. \A x : x \in Range(p) <=> x \in Range(q) \/ x = e
  BY <1>1, <1>2, <1>3, <1>4
<1> QED
  BY <1>1, <1>5 DEF p
-----------------------------------------------------------------------------
(* Changes that keep the invariant                                         *)

\* What belongs to a module is allocated, belongs to that module only,
\* and is a module exactly when it belongs to itself.
LEMMA BelongsFacts ==
  ASSUME NEW m, NEW l, NEW s, Typed(m, l, s), Readers(m, l, s), NEW x, NEW y, Belongs(l, s, x, y)
  PROVE  /\ x \in Addr /\ y \in Addr /\ m[x] # None /\ m[y] # None /\ Belongs(l, s, y, y)
         /\ \A w : Belongs(l, s, x, w) => w = y
         /\ IsModule(m, x) <=> x = y
<1>1. \A a \in Range(l) : a \in Addr
  BY RangeOfSeq DEF Typed
<1>2. \A k \in DOMAIN s : s[k] \in Frame
  BY SeqFacts DEF Typed
<1>3. \A k \in DOMAIN s : s[k].obj \in Addr /\ s[k].main \in Addr
  BY <1>2 DEF Frame
<1>4. CASE x \in Range(l) /\ y = x
  BY <1>1, <1>4 DEF Readers, Belongs
<1>5. CASE \E k \in DOMAIN s : s[k].obj = x /\ s[k].main = y
  <2>1. PICK k \in DOMAIN s : s[k].obj = x /\ s[k].main = y
    BY <1>5
  <2>2. PICK j \in DOMAIN s : s[j].obj = y /\ s[j].main = y
    BY <2>1 DEF Readers
  <2>3. m[x] # None /\ m[y] # None /\ x \notin Range(l) /\ (IsModule(m, x) <=> x = y)
    BY <2>1, <2>2 DEF Readers
  <2>4. \A w : Belongs(l, s, x, w) => w = y
    BY <2>1, <2>3 DEF Readers, Belongs
  <2> QED
    BY <1>3, <2>1, <2>2, <2>3, <2>4 DEF Belongs
<1> QED
  BY <1>4, <1>5 DEF Belongs

\* A statement stays satisfied while what satisfies it stays.
LEMMA SatisfiedKept ==
  ASSUME NEW m, NEW n, NEW o, NEW st, Satisfied(m, o, st),
         Range(m[o].imp) \subseteq Range(n[o].imp), Submodules(m, o) \subseteq Submodules(n, o),
         \A x \in Range(m[o].imp) \cup Submodules(m, o) : n[x].file = m[x].file
  PROVE  Satisfied(n, o, st)
  BY DEF Satisfied, File

\* A change of the memory where nobody looks.
Seen(m, l, s, x) == \E v, w \in Addr : Belongs(l, s, v, w) /\ (x = v \/ x \in Submodules(m, v))

\* A new memory in which whatever is seen has the same file, imports and
\* includes keeps the invariant.
LEMMA Elsewhere ==
  ASSUME NEW m, NEW l, NEW s, Inv(m, l, s), NEW n \in [Addr -> Obj \cup {None}],
         \A x \in Addr : Seen(m, l, s, x) =>
           n[x] # None /\ n[x].file = m[x].file /\ n[x].imp = m[x].imp /\ n[x].inc = m[x].inc
  PROVE  Inv(n, l, s)
<1>1. /\ Typed(m, l, s) /\ Readers(m, l, s) /\ Families(m, l, s) /\ Imports(m, l, s)
      /\ Positions(m, s) /\ Context(m, l)
  BY DEF Inv
<1>2. Typed(n, l, s)
  BY <1>1 DEF Typed
<1>3. ASSUME NEW x, NEW y, Belongs(l, s, x, y)
      PROVE  /\ x \in Addr /\ y \in Addr /\ m[x] # None
             /\ n[x] # None /\ n[x].file = m[x].file /\ n[x].imp = m[x].imp /\ n[x].inc = m[x].inc
             /\ Submodules(n, x) = Submodules(m, x)
             /\ \A t \in Submodules(m, x) : t \in Addr /\ n[t] # None /\ n[t].file = m[t].file
             /\ \A st : Satisfied(m, x, st) => Satisfied(n, x, st)
  <2>1. x \in Addr /\ y \in Addr /\ m[x] # None
    BY <1>1, <1>3, BelongsFacts
  <2>2. Seen(m, l, s, x) /\ \A t \in Submodules(m, x) : Seen(m, l, s, t)
    BY <1>3, <2>1 DEF Seen
  <2>3. n[x] # None /\ n[x].file = m[x].file /\ n[x].imp = m[x].imp /\ n[x].inc = m[x].inc
    BY <2>1, <2>2
  <2>4. Submodules(n, x) = Submodules(m, x)
    BY <2>3 DEF Submodules
  <2>5. \A t \in Submodules(m, x) : t \in Addr
    BY <1>1, <2>1, ObjFacts DEF Typed
  <2>6. \A t \in Submodules(m, x) : n[t] # None /\ n[t].file = m[t].file
    BY <2>2, <2>5
  <2>7. \A t \in Range(m[x].imp) : n[t].file = m[t].file
    <3>1. \A t \in Range(m[x].imp) : t \in Range(l)
      BY <1>1, <1>3, <2>1 DEF Imports
    <3>2. \A t \in Range(l) : t \in Addr /\ Belongs(l, s, t, t)
      BY <1>1, RangeOfSeq DEF Belongs, Typed
    <3>3. \A t \in Range(l) : Seen(m, l, s, t)
      BY <3>2 DEF Seen
    <3> QED
      BY <3>1, <3>2, <3>3
  <2>8. \A st : Satisfied(m, x, st) => Satisfied(n, x, st)
    BY <2>3, <2>4, <2>6, <2>7, SatisfiedKept
  <2> QED
    BY <2>1, <2>3, <2>4, <2>5, <2>6, <2>8
<1>4. \A k \in DOMAIN s : Belongs(l, s, s[k].obj, s[k].main)
  BY DEF Belongs
<1>5. \A a \in Range(l) : Belongs(l, s, a, a)
  BY DEF Belongs
<1>6. Readers(n, l, s)
  BY <1>1, <1>3, <1>4, <1>5 DEF Readers, IsModule, File
<1>7. Families(n, l, s)
  BY <1>1, <1>3 DEF Families
<1>8. Imports(n, l, s)
  BY <1>1, <1>3 DEF Imports
<1>9. Positions(n, s)
  <2>1. ASSUME NEW k \in DOMAIN s PROVE Position(n, s[k])
    BY <1>1, <1>3, <1>4 DEF Positions, Position
  <2>2. ASSUME NEW k \in DOMAIN s, k < Len(s) PROVE Waits(n, s, k)
    <3>1. k + 1 \in DOMAIN s
      BY <1>1, <2>2, SeqFacts DEF Typed
    <3>2. n[s[k].obj].file = m[s[k].obj].file /\ n[s[k + 1].obj].file = m[s[k + 1].obj].file
      BY <1>3, <1>4, <3>1
    <3>3. Waits(m, s, k)
      BY <1>1, <2>2 DEF Positions
    <3> QED
      BY <3>2, <3>3 DEF Waits, File
  <2> QED
    BY <2>1, <2>2 DEF Positions
<1>10. Context(n, l)
  <2>1. \A a \in Range(l) : File(n, a) = File(m, a) /\ \A st : Satisfied(m, a, st) => Satisfied(n, a, st)
    BY <1>3, <1>5 DEF File
  <2>2. \A i \in DOMAIN l : l[i] \in Range(l)
    BY DEF Range
  <2> QED
    BY <1>1, <2>1, <2>2 DEF Context
<1> QED
  BY <1>2, <1>6, <1>7, <1>8, <1>9, <1>10 DEF Inv

\* A reader that is gone without a trace in memory.
LEMMA PopKeeps ==
  ASSUME NEW m, NEW l, NEW s, Inv(m, l, s), s # << >>
  PROVE  Inv(m, l, Front(s))
<1> DEFINE b == Front(s)
<1>1. /\ Typed(m, l, s) /\ Readers(m, l, s) /\ Families(m, l, s) /\ Imports(m, l, s)
      /\ Positions(m, s) /\ Context(m, l)
  BY DEF Inv
<1>2. /\ b \in Seq(Frame) /\ Len(b) = Len(s) - 1 /\ DOMAIN b = 1..(Len(s) - 1) /\ Len(s) \in Nat
      /\ DOMAIN s = 1..Len(s) /\ \A k \in DOMAIN b : b[k] = s[k] /\ k \in DOMAIN s
  BY <1>1, FrontFacts, SeqFacts DEF Typed
<1> HIDE DEF b
<1>3. \A x, y : Belongs(l, b, x, y) => Belongs(l, s, x, y)
  BY <1>2 DEF Belongs
<1>4. Typed(m, l, b)
  BY <1>1, <1>2 DEF Typed
<1>5. Readers(m, l, b)
  <2>1. ASSUME NEW k \in DOMAIN b
        PROVE  /\ m[b[k].obj] # None /\ b[k].obj \notin Range(l)
               /\ \A j \in DOMAIN b : b[j].obj = b[k].obj => j = k
               /\ \E j \in DOMAIN b : j <= k /\ b[j].obj = b[k].main /\ b[j].main = b[k].main
               /\ IsModule(m, b[k].obj) <=> b[k].obj = b[k].main
               /\ b[k].obj # b[k].main => k > 1 /\ b[k - 1].main = b[k].main
    <3>1. /\ m[s[k].obj] # None /\ s[k].obj \notin Range(l)
          /\ \A j \in DOMAIN s : s[j].obj = s[k].obj => j = k
          /\ IsModule(m, s[k].obj) <=> s[k].obj = s[k].main
          /\ s[k].obj # s[k].main => k > 1 /\ s[k - 1].main = s[k].main
      BY <1>1, <1>2 DEF Readers
    <3>2. PICK j \in DOMAIN s : j <= k /\ s[j].obj = s[k].main /\ s[j].main = s[k].main
      BY <1>1, <1>2 DEF Readers
    <3>3. j \in DOMAIN b
      BY <1>2, <3>2
    <3>4. k > 1 => k - 1 \in DOMAIN b
      BY <1>2
    <3> QED
      BY <1>2, <3>1, <3>2, <3>3, <3>4
  <2> QED
    BY <1>1, <2>1 DEF Readers
<1>6. Families(m, l, b) /\ Imports(m, l, b)
  BY <1>1, <1>3 DEF Families, Imports
<1>7. Positions(m, b)
  <2>1. \A k \in DOMAIN b : Position(m, b[k])
    BY <1>1, <1>2 DEF Positions
  <2>2. ASSUME NEW k \in DOMAIN b, k < Len(b) PROVE Waits(m, b, k)
    <3>1. k < Len(s) /\ k + 1 \in DOMAIN b
      BY <1>2, <2>2
    <3>2. Waits(m, s, k) /\ b[k] = s[k] /\ b[k + 1] = s[k + 1]
      BY <1>1, <1>2, <3>1 DEF Positions
    <3> QED
      BY <3>2 DEF Waits
  <2> QED
    BY <2>1, <2>2 DEF Positions
<1> QED
  BY <1>1, <1>4, <1>5, <1>6, <1>7 DEF Inv, b
\* The innermost reader is gone and what lys_free frees for it: nobody else looks there.
LEMMA FreeKeeps ==
  ASSUME NEW m, NEW l, NEW s, Inv(m, l, s), s # << >>
  PROVE  /\ Inv(Freed(m, Last(s).obj), l, Front(s))
         /\ \A x \in Addr : Seen(m, l, Front(s), x) => Freed(m, Last(s).obj)[x] = m[x]
<1> DEFINE b == Front(s)
           o == Last(s).obj
           y == Last(s).main
           top == Len(s)
<1>1. Typed(m, l, s) /\ Readers(m, l, s) /\ Families(m, l, s)
  BY DEF Inv
<1>2. /\ top \in DOMAIN s /\ o = s[top].obj /\ y = s[top].main /\ Last(s) \in Frame
      /\ \A k \in DOMAIN b : b[k] = s[k] /\ k \in DOMAIN s /\ k # top
  <2>1. s \in Seq(Frame) /\ top \in Nat
    BY <1>1, SeqFacts DEF Typed
  <2>2. \A k \in 1..(top - 1) : k # top
    BY <2>1
  <2>3. top \in DOMAIN s /\ Last(s) = s[top] /\ Last(s) \in Frame /\ DOMAIN s = 1..top
    BY <2>1, SeqFacts
  <2>4. DOMAIN b = 1..(top - 1) /\ \A k \in 1..(top - 1) : b[k] = s[k] /\ k \in 1..top
    BY <2>1, FrontFacts
  <2> QED
    BY <2>2, <2>3, <2>4
<1>3. o \in Addr /\ y \in Addr /\ Belongs(l, s, o, y)
  BY <1>2 DEF Belongs, Frame
<1>4. IsModule(m, o) => o = y
  BY <1>1, <1>2 DEF Readers
<1>5. o \notin Range(l) /\ \A k \in DOMAIN b : b[k].obj # o /\ b[k].main # o
  <2>1. o \notin Range(l) /\ \A j \in DOMAIN s : s[j].obj = o => j = top
    BY <1>1, <1>2 DEF Readers
  <2>2. ASSUME NEW k \in DOMAIN b PROVE b[k].main # o
    <3>1. PICK j \in DOMAIN s : j <= k /\ s[j].obj = s[k].main
      BY <1>1, <1>2 DEF Readers
    <3>2. j # top
      BY <1>1, <1>2, <3>1, FrontFacts, SeqFacts DEF Typed
    <3> QED
      BY <1>2, <2>1, <3>1, <3>2
  <2> QED
    BY <1>2, <2>1, <2>2
<1> HIDE DEF b, o, y, top
<1>6. \A v, w : Belongs(l, b, v, w) => v # o /\ w # o /\ Belongs(l, s, v, w)
  BY <1>2, <1>5 DEF Belongs
<1>7. ASSUME NEW x \in Addr, Seen(m, l, b, x) PROVE x \notin Family(m, o)
  <2>1. PICK v \in Addr, w \in Addr : Belongs(l, b, v, w) /\ (x = v \/ x \in Submodules(m, v))
    BY <1>7 DEF Seen
  <2>2. v # o /\ w # o /\ Belongs(l, s, v, w)
    BY <1>6, <2>1
  <2>3. x # o
    BY <1>1, <1>3, <2>1, <2>2 DEF Families
  <2>4. ASSUME IsModule(m, o) PROVE x \notin Submodules(m, o)
    <3>1. Belongs(l, s, o, o)
      BY <1>3, <1>4, <2>4
    <3>2. Submodules(m, v) \cap Submodules(m, o) = {}
      BY <1>1, <1>3, <2>2, <3>1 DEF Families
    <3>3. \A t \in Submodules(m, o) : t # v
      BY <1>1, <1>3, <2>2, <3>1 DEF Families
    <3> QED
      BY <2>1, <3>2, <3>3
  <2> QED
    BY <2>3, <2>4 DEF Family
<1>8. Inv(m, l, b)
  BY PopKeeps DEF b
<1>9. /\ Freed(m, o) \in [Addr -> Obj \cup {None}]
      /\ \A x \in Addr : x \notin Family(m, o) => Freed(m, o)[x] = m[x]
  BY <1>1 DEF Freed, Released, Typed
<1>10. \A x \in Addr : Seen(m, l, b, x) => m[x] # None
  <2>1. ASSUME NEW x \in Addr, NEW v \in Addr, NEW w \in Addr, Belongs(l, b, v, w), x = v \/ x \in Submodules(m, v)
        PROVE  m[x] # None
    <3>1. Belongs(l, s, v, w)
      BY <1>6, <2>1
    <3>2. m[v] # None
      BY <1>1, <3>1, BelongsFacts
    <3> QED
      BY <1>1, <2>1, <3>1, <3>2 DEF Families
  <2> QED
    BY <2>1 DEF Seen
<1>11. \A x \in Addr : Seen(m, l, b, x) => Freed(m, o)[x] = m[x]
  BY <1>7, <1>9
<1>12. Inv(Freed(m, o), l, b)
  BY <1>8, <1>9, <1>10, <1>11, Elsewhere
<1> QED
  BY <1>11, <1>12 DEF b, o
\* What somebody looks at is allocated.
LEMMA SeenLive ==
  ASSUME NEW m, NEW l, NEW s, Inv(m, l, s), NEW x, Seen(m, l, s, x)
  PROVE  m[x] # None
<1>1. PICK v \in Addr, w \in Addr : Belongs(l, s, v, w) /\ (x = v \/ x \in Submodules(m, v))
  BY DEF Seen
<1>2. Typed(m, l, s) /\ Readers(m, l, s) /\ Families(m, l, s)
  BY DEF Inv
<1>3. m[v] # None
  BY <1>1, <1>2, BelongsFacts
<1> QED
  BY <1>1, <1>2, <1>3 DEF Families

\* A structure as it is allocated.
LEMMA NewObjFacts ==
  ASSUME NEW f \in Files, NEW implement \in BOOLEAN
  PROVE  /\ NewObj(f, implement) \in Obj /\ NewObj(f, implement) # None
         /\ NewObj(f, implement).file = f /\ NewObj(f, implement).imp = << >>
         /\ Len(NewObj(f, implement).inc) = Count(f, "include")
         /\ \A i \in 1..Count(f, "include") : NewObj(f, implement).inc[i] = NoInc
         /\ Range(NewObj(f, implement).inc) \subseteq {NoInc}
<1>1. ASSUME NEW kind PROVE Count(f, kind) \in Nat
  <2>0. Len(Doc[f].stmts) \in Nat /\ DOMAIN Doc[f].stmts = 1..Len(Doc[f].stmts)
    BY DocFacts
  <2>1. IsFiniteSet(1..Len(Doc[f].stmts))
    <3>1. PICK b \in Int : b = Len(Doc[f].stmts)
      BY <2>0
    <3>2. IsFiniteSet(1..b)
      BY FS_Interval
    <3> QED
      BY <3>1, <3>2
  <2>2. IsFiniteSet({i \in DOMAIN Doc[f].stmts : Doc[f].stmts[i].kind = kind})
    BY <2>0, <2>1, FS_Subset
  <2> QED
    BY <2>2, FS_CardinalityType DEF Count
<1> DEFINE c == Count(f, "include")
           inc == [i \in 1..c |-> NoInc]
<1>2. c \in Nat /\ Count(f, "import") \in Nat
  BY <1>1
<1> HIDE DEF c
<1>3. NoInc \in Entry
  BY DEF NoInc, Entry
<1>4. inc \in Seq(Entry)
  BY <1>2, <1>3, IsASeq
<1>5. Len(inc) = c /\ (\A i \in 1..c : inc[i] = NoInc) /\ Range(inc) \subseteq {NoInc}
  <2>1. DOMAIN inc = 1..c /\ \A i \in 1..c : inc[i] = NoInc
    OBVIOUS
  <2>2. Len(inc) = c
    BY <1>2, <1>4, <2>1
  <2> QED
    BY <2>1, <2>2 DEF Range
<1>6. << >> \in Seq(Addr)
  OBVIOUS
<1> HIDE DEF inc
<1>7. NewObj(f, implement) = [file |-> f, imp |-> << >>, cap |-> Count(f, "import"), inc |-> inc, impl |-> implement]
  BY DEF NewObj, inc, c
<1>8. NewObj(f, implement) \in Obj
  BY <1>2, <1>4, <1>6, <1>7 DEF Obj
<1>9. NewObj(f, implement) # None
  BY <1>8, NoneType
<1> QED
  BY <1>5, <1>7, <1>8, <1>9 DEF c

\* A reader starts, with a structure of its own.
LEMMA PushKeeps ==
  ASSUME NEW m, NEW l, NEW s, Inv(m, l, s), NEW n \in Addr, m[n] = None,
         NEW f \in Files, NEW y \in Addr, NEW implement \in BOOLEAN,
         Doc[f].kind = "module" <=> n = y,
         n # y => s # << >> /\ Last(s).main = y,
         s # << >> => LET r == Last(s)
                          stmts == Doc[m[r.obj].file].stmts IN
                      /\ r.at <= Len(stmts) /\ stmts[r.at].name = Doc[f].name
                      /\ stmts[r.at].kind = IF n = y THEN "import" ELSE "include"
  PROVE  Inv([m EXCEPT ![n] = NewObj(f, implement)], l, Append(s, NewFrame(n, y, implement)))
<1> DEFINE m2 == [m EXCEPT ![n] = NewObj(f, implement)]
           r == NewFrame(n, y, implement)
           s2 == Append(s, r)
           top == Len(s)
<1>1. Typed(m, l, s) /\ Readers(m, l, s)
  BY DEF Inv
<1>2. /\ m2 \in [Addr -> Obj \cup {None}] /\ m2[n] = NewObj(f, implement) /\ m2[n] # None
      /\ \A x \in Addr : x # n => m2[x] = m[x]
  BY <1>1, NewObjFacts DEF Typed
<1>3. \A x \in Addr : Seen(m, l, s, x) => m[x] # None /\ m2[x] = m[x]
  BY <1>2, SeenLive
<1> HIDE DEF m2
<1>4. Inv(m2, l, s)
  BY <1>2, <1>3, Elsewhere
<1>5. /\ Typed(m2, l, s) /\ Readers(m2, l, s) /\ Families(m2, l, s) /\ Imports(m2, l, s)
      /\ Positions(m2, s) /\ Context(m2, l)
  BY <1>4 DEF Inv
<1>6. /\ r \in Frame /\ r.obj = n /\ r.main = y /\ r.at = 1 /\ r.aux = 1
  BY DEF NewFrame, Frame
<1> HIDE DEF r
<1>7. /\ s2 \in Seq(Frame) /\ top \in Nat /\ Len(s2) = top + 1 /\ DOMAIN s2 = 1..(top + 1) /\ DOMAIN s = 1..top
      /\ (\A k \in 1..top : s2[k] = s[k]) /\ s2[top + 1] = r /\ s \in Seq(Frame)
  BY <1>1, <1>6, AppendProperties, SeqFacts DEF Typed
<1> HIDE DEF s2, top
<1>8. \A x, z : Belongs(l, s, x, z) => x \in Addr /\ z \in Addr /\ m[x] # None /\ x # n
  BY <1>1, BelongsFacts
<1>9. \A x, z : Belongs(l, s2, x, z) <=> Belongs(l, s, x, z) \/ (x = n /\ z = y)
  <2>1. \A k : k \in DOMAIN s2 <=> k \in DOMAIN s \/ k = top + 1
    BY <1>7
  <2> QED
    BY <1>6, <1>7, <2>1 DEF Belongs
<1>10. m2[n].file = f /\ m2[n].imp = << >> /\ Range(m2[n].imp) = {} /\ Submodules(m2, n) = {}
  <2>1. m2[n].file = f /\ m2[n].imp = << >> /\ Range(m2[n].inc) \subseteq {NoInc}
    <3>1. NewObj(f, implement).file = f /\ NewObj(f, implement).imp = << >> /\ Range(NewObj(f, implement).inc) \subseteq {NoInc}
      BY NewObjFacts
    <3>2. m2[n] = NewObj(f, implement)
      BY <1>2
    <3> QED
      BY <3>1, <3>2
  <2>2. Range(m2[n].imp) = {}
    BY <2>1 DEF Range
  <2>3. NoInc.sub = None
    BY DEF NoInc
  <2> QED
    BY <2>1, <2>2, <2>3 DEF Submodules
<1>11. Typed(m2, l, s2)
  BY <1>5, <1>7 DEF Typed
<1>12. Readers(m2, l, s2)
  <2>1. \A k \in 1..top : s[k].obj # n
    <3>1. \A k \in 1..top : Belongs(l, s, s[k].obj, s[k].main)
      BY <1>7 DEF Belongs
    <3> QED
      BY <1>8, <3>1
  <2>2. n \notin Range(l)
    BY <1>8 DEF Belongs
  <2>3. \A k \in 1..(top + 1) : k \in 1..top \/ k = top + 1
    BY <1>7
  <2>4. ASSUME NEW k \in 1..top
        PROVE  /\ m2[s2[k].obj] # None /\ s2[k].obj \notin Range(l)
               /\ \A j \in DOMAIN s2 : s2[j].obj = s2[k].obj => j = k
               /\ \E j \in DOMAIN s2 : j <= k /\ s2[j].obj = s2[k].main /\ s2[j].main = s2[k].main
               /\ IsModule(m2, s2[k].obj) <=> s2[k].obj = s2[k].main
               /\ s2[k].obj # s2[k].main => k > 1 /\ s2[k - 1].main = s2[k].main
    <3>1. k \in DOMAIN s /\ s2[k] = s[k] /\ (k > 1 => s2[k - 1] = s[k - 1])
      BY <1>7
    <3>2. /\ m2[s[k].obj] # None /\ s[k].obj \notin Range(l)
          /\ \A j \in DOMAIN s : s[j].obj = s[k].obj => j = k
          /\ IsModule(m2, s[k].obj) <=> s[k].obj = s[k].main
          /\ s[k].obj # s[k].main => k > 1 /\ s[k - 1].main = s[k].main
      BY <1>5, <3>1 DEF Readers
    <3>3. PICK j \in 1..top : j <= k /\ s[j].obj = s[k].main /\ s[j].main = s[k].main
      BY <1>5, <1>7, <3>1 DEF Readers
    <3>4. j \in DOMAIN s2 /\ s2[j] = s[j]
      BY <1>7, <3>3
    <3>5. \A i \in DOMAIN s2 : s2[i].obj = s2[k].obj => i = k
      BY <1>6, <1>7, <2>1, <2>3, <3>1, <3>2
    <3> QED
      BY <3>1, <3>2, <3>3, <3>4, <3>5
  <2>5. \E j \in DOMAIN s2 : j <= top + 1 /\ s2[j].obj = y /\ s2[j].main = y
    <3>1. CASE n = y
      BY <1>6, <1>7, <3>1
    <3>2. CASE n # y
      <4>1. top \in 1..top /\ s[top].main = y
        BY <1>7, <3>2, SeqFacts DEF top
      <4>2. PICK j \in 1..top : s[j].obj = y /\ s[j].main = y
        BY <1>5, <1>7, <4>1 DEF Readers
      <4>3. j \in DOMAIN s2 /\ j <= top + 1 /\ s2[j] = s[j]
        BY <1>7, <4>2
      <4> QED
        BY <4>2, <4>3
    <3> QED
      BY <3>1, <3>2
  <2>6. n # y => top + 1 > 1 /\ s2[(top + 1) - 1].main = y
    <3>1. ASSUME n # y PROVE top \in 1..top /\ s[top].main = y
      BY <1>7, <3>1, SeqFacts DEF top
    <3>2. (top + 1) - 1 = top /\ (top \in 1..top => top + 1 > 1)
      BY <1>7
    <3> QED
      BY <1>7, <3>1, <3>2
  <2>7. IsModule(m2, n) <=> n = y
    BY <1>10 DEF IsModule, File
  <2>8. \A j \in DOMAIN s2 : s2[j].obj = n => j = top + 1
    BY <1>7, <2>1, <2>3
  <2>9. \A k \in DOMAIN s2 :
               /\ m2[s2[k].obj] # None /\ s2[k].obj \notin Range(l)
               /\ \A j \in DOMAIN s2 : s2[j].obj = s2[k].obj => j = k
               /\ \E j \in DOMAIN s2 : j <= k /\ s2[j].obj = s2[k].main /\ s2[j].main = s2[k].main
               /\ IsModule(m2, s2[k].obj) <=> s2[k].obj = s2[k].main
               /\ s2[k].obj # s2[k].main => k > 1 /\ s2[k - 1].main = s2[k].main
    <3>1. ASSUME NEW k, k = top + 1
          PROVE  /\ m2[s2[k].obj] # None /\ s2[k].obj \notin Range(l)
                 /\ \A j \in DOMAIN s2 : s2[j].obj = s2[k].obj => j = k
                 /\ \E j \in DOMAIN s2 : j <= k /\ s2[j].obj = s2[k].main /\ s2[j].main = s2[k].main
                 /\ IsModule(m2, s2[k].obj) <=> s2[k].obj = s2[k].main
                 /\ s2[k].obj # s2[k].main => k > 1 /\ s2[k - 1].main = s2[k].main
      <4>1. s2[k].obj = n /\ s2[k].main = y
        BY <1>6, <1>7, <3>1
      <4> QED
        BY <1>2, <2>2, <2>5, <2>6, <2>7, <2>8, <3>1, <4>1
    <3> QED
      BY <1>7, <2>3, <2>4, <3>1
  <2> QED
    BY <1>5, <2>9 DEF Readers
<1>13. Families(m2, l, s2)
  <2>1. ASSUME NEW x \in Addr, NEW z \in Addr, Belongs(l, s, x, z), NEW t \in Submodules(m2, x)
        PROVE  m2[t] # None /\ t # n /\ \A v, w \in Addr : Belongs(l, s, v, w) => t # v
    <3>1. Submodules(m2, x) = Submodules(m, x)
      BY <1>2, <1>8, <2>1 DEF Submodules
    <3>2. m[t] # None
      BY <2>1, <3>1, SeenLive DEF Seen
    <3> QED
      BY <1>5, <2>1, <3>2 DEF Families
  <2>2. ASSUME NEW x \in Addr, NEW z \in Addr, Belongs(l, s2, x, z), NEW t \in Submodules(m2, x)
        PROVE  m2[t] # None /\ \A v, w \in Addr : Belongs(l, s2, v, w) => t # v
    BY <1>9, <1>10, <2>1, <2>2
  <2>3. ASSUME NEW x \in Addr, NEW z \in Addr, NEW v \in Addr, NEW w \in Addr,
               Belongs(l, s2, x, z), Belongs(l, s2, v, w), z # w
        PROVE  Submodules(m2, x) \cap Submodules(m2, v) = {}
    BY <1>5, <1>9, <1>10, <2>3 DEF Families
  <2> QED
    BY <2>2, <2>3 DEF Families
<1>14. Imports(m2, l, s2)
  BY <1>5, <1>9, <1>10 DEF Imports
<1>15. Positions(m2, s2)
  <2>1. Position(m2, r)
    <3>1. Len(Doc[f].stmts) \in Nat /\ 1 <= Len(Doc[f].stmts) + 1
      BY DocFacts
    <3>2. Cardinality(Includes(f, 1 - 1)) + 1 = 1
      <4>1. Includes(f, 0) = {} /\ 1 - 1 = 0
        BY DEF Includes
      <4>2. Cardinality({}) = 0
        BY FS_EmptySet
      <4>3. Cardinality(Includes(f, 1 - 1)) = 0
        BY <4>1, <4>2
      <4> QED
        BY <4>3
    <3>3. Places(f, m2[n].inc, 1)
      <4>1. Len(m2[n].inc) = Count(f, "include") /\ \A i \in 1..Count(f, "include") : m2[n].inc[i].sub = None
        BY <1>2, NewObjFacts DEF NoInc
      <4>2. 0 \in Nat /\ 0 <= Len(Doc[f].stmts)
        BY <3>1
      <4>3. Count(f, "include") \in Nat
        BY <4>2, IncludesFacts
      <4>4. Count(f, "include") >= Count(f, "include") /\ 1..(1 - 1) = {}
        BY <4>3
      <4> QED
        BY <4>1, <4>4 DEF Places
    <3>4. 1..(1 - 1) = {}
      OBVIOUS
    <3> QED
      BY <1>6, <1>10, <3>1, <3>2, <3>3, <3>4 DEF Position
  <2>2. \A k \in DOMAIN s2 : Position(m2, s2[k])
    <3>1. \A k \in 1..(top + 1) : k \in 1..top \/ k = top + 1
      BY <1>7
    <3> QED
      BY <1>5, <1>7, <2>1, <3>1 DEF Positions
  <2>3. ASSUME NEW k \in DOMAIN s2, k < Len(s2) PROVE Waits(m2, s2, k)
    <3>1. CASE k < top
      <4>1. k \in 1..top /\ k + 1 \in 1..top
        BY <1>7, <2>3, <3>1
      <4>2. Waits(m2, s, k) /\ s2[k] = s[k] /\ s2[k + 1] = s[k + 1]
        BY <1>5, <1>7, <3>1, <4>1 DEF Positions, top
      <4> QED
        BY <4>2 DEF Waits
    <3>2. CASE k = top
      <4>1. s # << >> /\ k \in 1..top /\ Last(s) = s[k] /\ s2[k] = s[k] /\ s2[k + 1] = r
        <5>1. k \in 1..top /\ top > 0
          BY <1>7, <2>3, <3>2
        <5>2. s # << >>
          BY <5>1, EmptySeq DEF top
        <5> QED
          BY <1>7, <3>2, <5>1, <5>2, SeqFacts DEF top
      <4>2. Belongs(l, s, s[k].obj, s[k].main)
        BY <1>7, <4>1 DEF Belongs
      <4>3. m2[s[k].obj] = m[s[k].obj]
        BY <1>2, <1>8, <4>2
      <4> QED
        BY <1>6, <1>10, <4>1, <4>3 DEF Waits, File
    <3>3. k < top \/ k = top
      BY <1>7, <2>3
    <3> QED
      BY <3>1, <3>2, <3>3
  <2> QED
    BY <2>2, <2>3 DEF Positions
<1>16. Inv(m2, l, s2)
  BY <1>5, <1>11, <1>12, <1>13, <1>14, <1>15 DEF Inv
<1> QED
  BY <1>16 DEF m2, s2, r
\* The memory n is m but for the structure of the reader for o, which has got more:
\* imports from the context, submodules that are nobody else's.
Grows(m, n, l, s, o, w) ==
  /\ n[o] # None /\ n[o].file = m[o].file /\ \A x \in Addr : x # o => n[x] = m[x]
  /\ Range(m[o].imp) \subseteq Range(n[o].imp) /\ Range(n[o].imp) \subseteq Range(l)
  /\ Submodules(m, o) \subseteq Submodules(n, o)
  /\ \A t \in Submodules(n, o) : m[t] # None /\ \A v, z \in Addr :
       Belongs(l, s, v, z) => t # v /\ (z # w => t \notin Submodules(m, v))

\* The readers u are those of s but for where the reader for o is.
Advances(s, u, o) ==
  /\ u \in Seq(Frame) /\ Len(u) = Len(s)
  /\ \A k \in DOMAIN s :
       /\ u[k].obj = s[k].obj /\ u[k].main = s[k].main
       /\ s[k].obj # o \/ k < Len(s) => u[k].at = s[k].at /\ u[k].aux = s[k].aux

\* A reader that extends its own structure keeps the parts about the others.
LEMMA GrowKeeps ==
  ASSUME NEW m, NEW l, NEW s, Inv(m, l, s), NEW o, NEW w, Belongs(l, s, o, w), o \notin Range(l),
         NEW n \in [Addr -> Obj \cup {None}], Grows(m, n, l, s, o, w),
         NEW u, Advances(s, u, o),
         \A k \in DOMAIN s : s[k].obj = o => Position(n, u[k])
  PROVE  Inv(n, l, u)
<1>1. /\ Typed(m, l, s) /\ Readers(m, l, s) /\ Families(m, l, s) /\ Imports(m, l, s)
      /\ Positions(m, s) /\ Context(m, l)
  BY DEF Inv
<1>2. /\ u \in Seq(Frame) /\ Len(u) = Len(s) /\ Len(s) \in Nat
      /\ DOMAIN s = 1..Len(s) /\ DOMAIN u = DOMAIN s
  BY <1>1, SeqFacts DEF Typed, Advances
<1>3. \A x, y : Belongs(l, u, x, y) <=> Belongs(l, s, x, y)
  BY <1>2 DEF Belongs, Advances
<1>4. Typed(n, l, u)
  BY <1>1, <1>2 DEF Typed
<1>5. o \in Addr /\ w \in Addr /\ \A z : Belongs(l, s, o, z) => z = w
  BY <1>1, BelongsFacts
<1>6. \A x \in Addr : n[x].file = m[x].file /\ (m[x] # None => n[x] # None)
  BY <1>5 DEF Grows
<1>7. \A x \in Addr : x # o => n[x] = m[x] /\ Submodules(n, x) = Submodules(m, x)
  BY DEF Grows, Submodules
<1>8. \A x, y : Belongs(l, s, x, y) => x \in Addr /\ y \in Addr /\ m[x] # None
  BY <1>1, BelongsFacts
<1>9. \A k \in DOMAIN s : Belongs(l, s, s[k].obj, s[k].main)
  BY DEF Belongs
<1>10. \A a \in Range(l) : Belongs(l, s, a, a)
  BY DEF Belongs
<1>11. ASSUME NEW x, NEW y, Belongs(l, s, x, y), x # o, NEW st, Satisfied(m, x, st)
       PROVE  Satisfied(n, x, st)
  <2>1. x \in Addr /\ y \in Addr /\ m[x] # None
    BY <1>8, <1>11
  <2>2. n[x] = m[x] /\ Submodules(n, x) = Submodules(m, x)
    BY <1>7, <1>11, <2>1
  <2>3. \A t \in Range(m[x].imp) \cup Submodules(m, x) : t \in Addr
    BY <1>1, <2>1, ObjFacts DEF Typed
  <2> QED
    BY <1>6, <1>11, <2>2, <2>3, SatisfiedKept
<1>12. Readers(n, l, u)
  <2>1. \A a \in Range(l) : n[a] # None /\ IsModule(n, a)
    BY <1>1, <1>6, <1>8, <1>10 DEF Readers, IsModule, File
  <2>2. ASSUME NEW k \in DOMAIN u
        PROVE  /\ n[u[k].obj] # None /\ u[k].obj \notin Range(l)
               /\ \A j \in DOMAIN u : u[j].obj = u[k].obj => j = k
               /\ \E j \in DOMAIN u : j <= k /\ u[j].obj = u[k].main /\ u[j].main = u[k].main
               /\ IsModule(n, u[k].obj) <=> u[k].obj = u[k].main
               /\ u[k].obj # u[k].main => k > 1 /\ u[k - 1].main = u[k].main
    <3>1. \A j \in DOMAIN s : u[j].obj = s[j].obj /\ u[j].main = s[j].main
      BY DEF Advances
    <3>2. k > 1 => k - 1 \in DOMAIN s
      BY <1>2
    <3>3. /\ m[s[k].obj] # None /\ s[k].obj \notin Range(l)
          /\ \A j \in DOMAIN s : s[j].obj = s[k].obj => j = k
          /\ \E j \in DOMAIN s : j <= k /\ s[j].obj = s[k].main /\ s[j].main = s[k].main
          /\ IsModule(m, s[k].obj) <=> s[k].obj = s[k].main
          /\ s[k].obj # s[k].main => k > 1 /\ s[k - 1].main = s[k].main
      BY <1>1, <1>2 DEF Readers
    <3>4. n[s[k].obj] # None /\ (IsModule(n, s[k].obj) <=> IsModule(m, s[k].obj))
      BY <1>2, <1>6, <1>8, <1>9 DEF IsModule, File
    <3> QED
      BY <1>2, <3>1, <3>2, <3>3, <3>4
  <2> QED
    BY <2>1, <2>2 DEF Readers
<1>13. Families(n, l, u)
  <2>1. ASSUME NEW x \in Addr, NEW y \in Addr, Belongs(l, s, x, y), NEW t \in Submodules(n, x)
        PROVE  n[t] # None /\ \A v, z \in Addr : Belongs(l, s, v, z) => t # v
    <3>1. n[x] # None
      BY <1>6, <1>8, <2>1
    <3>2. t \in Addr
      BY <2>1, <3>1, ObjFacts
    <3>3. m[t] # None /\ \A v, z \in Addr : Belongs(l, s, v, z) => t # v
      <4>1. CASE x = o
        BY <2>1, <4>1 DEF Grows
      <4>2. CASE x # o
        BY <1>1, <1>7, <2>1, <4>2 DEF Families
      <4> QED
        BY <4>1, <4>2
    <3> QED
      BY <1>6, <3>2, <3>3
  <2>2. ASSUME NEW v \in Addr, NEW z \in Addr, Belongs(l, s, v, z), z # w
        PROVE  Submodules(n, o) \cap Submodules(n, v) = {}
    <3>1. v # o
      BY <1>5, <2>2
    <3>2. Submodules(n, v) = Submodules(m, v)
      BY <1>7, <3>1
    <3>3. \A t \in Submodules(n, o) : t \notin Submodules(m, v)
      BY <2>2 DEF Grows
    <3> QED
      BY <3>2, <3>3
  <2>3. ASSUME NEW x \in Addr, NEW y \in Addr, NEW v \in Addr, NEW z \in Addr,
               Belongs(l, s, x, y), Belongs(l, s, v, z), y # z
        PROVE  Submodules(n, x) \cap Submodules(n, v) = {}
    <3>1. CASE x = o
      <4>1. z # w
        BY <1>5, <2>3, <3>1
      <4> QED
        BY <2>2, <2>3, <3>1, <4>1
    <3>2. CASE v = o
      <4>1. y # w
        BY <1>5, <2>3, <3>2
      <4> QED
        BY <2>2, <2>3, <3>2, <4>1
    <3>3. CASE x # o /\ v # o
      BY <1>1, <1>7, <2>3, <3>3 DEF Families
    <3> QED
      BY <3>1, <3>2, <3>3
  <2> QED
    BY <1>3, <2>1, <2>3 DEF Families
<1>14. Imports(n, l, u)
  <2>1. ASSUME NEW x \in Addr, NEW y \in Addr, Belongs(l, s, x, y) PROVE Range(n[x].imp) \subseteq Range(l)
    <3>1. CASE x = o
      BY <3>1 DEF Grows
    <3>2. CASE x # o
      BY <1>1, <1>7, <2>1, <3>2 DEF Imports
    <3> QED
      BY <3>1, <3>2
  <2> QED
    BY <1>3, <2>1 DEF Imports
<1>15. Positions(n, u)
  <2>1. ASSUME NEW k \in DOMAIN u PROVE Position(n, u[k])
    <3>1. CASE s[k].obj = o
      BY <1>2, <3>1
    <3>2. CASE s[k].obj # o
      <4>1. u[k].obj = s[k].obj /\ u[k].at = s[k].at /\ u[k].aux = s[k].aux
        BY <1>2, <3>2 DEF Advances
      <4>2. Belongs(l, s, s[k].obj, s[k].main) /\ s[k].obj \in Addr
        BY <1>2, <1>8, <1>9
      <4>3. n[s[k].obj] = m[s[k].obj] /\ \A st : Satisfied(m, s[k].obj, st) => Satisfied(n, s[k].obj, st)
        BY <1>7, <1>11, <3>2, <4>2
      <4>4. Position(m, s[k])
        BY <1>1, <1>2 DEF Positions
      <4> QED
        BY <4>1, <4>3, <4>4 DEF Position
    <3> QED
      BY <3>1, <3>2
  <2>2. ASSUME NEW k \in DOMAIN u, k < Len(u) PROVE Waits(n, u, k)
    <3>1. k \in DOMAIN s /\ k + 1 \in DOMAIN s /\ k < Len(s)
      BY <1>2, <2>2
    <3>2. /\ u[k].obj = s[k].obj /\ u[k].at = s[k].at
          /\ u[k + 1].obj = s[k + 1].obj /\ u[k + 1].main = s[k + 1].main
      BY <3>1 DEF Advances
    <3>3. n[s[k].obj].file = m[s[k].obj].file /\ n[s[k + 1].obj].file = m[s[k + 1].obj].file
      BY <1>6, <1>8, <1>9, <3>1
    <3>4. Waits(m, s, k)
      BY <1>1, <3>1 DEF Positions
    <3> QED
      BY <3>2, <3>3, <3>4 DEF Waits, File
  <2> QED
    BY <2>1, <2>2 DEF Positions
<1>16. Context(n, l)
  <2>1. \A a \in Range(l) : a # o /\ File(n, a) = File(m, a)
    BY <1>6, <1>8, <1>10 DEF File
  <2>2. \A a \in Range(l) : \A st : Satisfied(m, a, st) => Satisfied(n, a, st)
    BY <1>10, <1>11, <2>1
  <2>3. \A i \in DOMAIN l : l[i] \in Range(l)
    BY DEF Range
  <2> QED
    BY <1>1, <2>1, <2>2, <2>3 DEF Context
<1> QED
  BY <1>4, <1>12, <1>13, <1>14, <1>15, <1>16 DEF Inv
\* What a (sub)module has is nobody else's.
LEMMA OwnApart ==
  ASSUME NEW m, NEW l, NEW s, Inv(m, l, s), NEW o, NEW w, Belongs(l, s, o, w), NEW t \in Submodules(m, o)
  PROVE  m[t] # None /\ \A v, z \in Addr : Belongs(l, s, v, z) => t # v /\ (z # w => t \notin Submodules(m, v))
<1>1. Typed(m, l, s) /\ Readers(m, l, s) /\ Families(m, l, s)
  BY DEF Inv
<1>2. o \in Addr /\ w \in Addr
  BY <1>1, BelongsFacts
<1>3. m[t] # None /\ \A v, z \in Addr : Belongs(l, s, v, z) => t # v
  BY <1>1, <1>2 DEF Families
<1>4. \A v, z \in Addr : Belongs(l, s, v, z) /\ z # w => Submodules(m, o) \cap Submodules(m, v) = {}
  BY <1>1, <1>2 DEF Families
<1> QED
  BY <1>3, <1>4

\* The innermost reader.
LEMMA TopFacts ==
  ASSUME NEW m, NEW l, NEW s, Inv(m, l, s), s # << >>
  PROVE  /\ s \in Seq(Frame) /\ Len(s) \in DOMAIN s /\ Len(s) \in Nat /\ Last(s) = s[Len(s)] /\ Last(s) \in Frame
         /\ Last(s).obj \in Addr /\ Last(s).main \in Addr /\ m[Last(s).obj] # None /\ m[Last(s).obj] \in Obj
         /\ Last(s).at \in Nat /\ Last(s).at > 0 /\ Last(s).aux \in Nat /\ Last(s).aux > 0
         /\ Belongs(l, s, Last(s).obj, Last(s).main) /\ Last(s).obj \notin Range(l)
         /\ Belongs(l, s, Last(s).main, Last(s).main) /\ m[Last(s).main] # None /\ Last(s).main \notin Range(l)
         /\ IsModule(m, Last(s).obj) <=> Last(s).obj = Last(s).main
         /\ Position(m, Last(s)) /\ \A k \in DOMAIN s : s[k].obj = Last(s).obj => k = Len(s)
<1>1. /\ Typed(m, l, s) /\ Readers(m, l, s) /\ Positions(m, s)
  BY DEF Inv
<1>2. s \in Seq(Frame) /\ Len(s) \in DOMAIN s /\ Len(s) \in Nat /\ Last(s) = s[Len(s)] /\ Last(s) \in Frame
  BY <1>1, SeqFacts DEF Typed
<1>3. /\ Last(s).obj \in Addr /\ Last(s).main \in Addr /\ Last(s).at \in Nat \ {0} /\ Last(s).aux \in Nat \ {0}
  BY <1>2 DEF Frame
<1>4. Last(s).at > 0 /\ Last(s).aux > 0 /\ Last(s).at \in Nat /\ Last(s).aux \in Nat
  BY <1>3
<1>5. Belongs(l, s, Last(s).obj, Last(s).main)
  BY <1>2 DEF Belongs
<1>6. m[Last(s).obj] # None /\ Belongs(l, s, Last(s).main, Last(s).main) /\ m[Last(s).main] # None
  BY <1>1, <1>5, BelongsFacts
<1>7. m[Last(s).obj] \in Obj
  BY <1>1, <1>3, <1>6 DEF Typed
<1>8. /\ Last(s).obj \notin Range(l) /\ \A k \in DOMAIN s : s[k].obj = Last(s).obj => k = Len(s)
      /\ IsModule(m, Last(s).obj) <=> Last(s).obj = Last(s).main
  BY <1>1, <1>2 DEF Readers
<1>9. Last(s).main \notin Range(l)
  BY <1>1, <1>2 DEF Readers
<1>10. Position(m, Last(s))
  BY <1>1, <1>2 DEF Positions
<1> QED
  BY <1>2, <1>3, <1>4, <1>5, <1>6, <1>7, <1>8, <1>9, <1>10

\* The reader with frame r goes on to the next statement.
LEMMA FrameFacts ==
  ASSUME NEW r \in Frame
  PROVE  LET p == [r EXCEPT !.at = @ + 1]
             q == [r EXCEPT !.at = @ + 1, !.aux = @ + 1] IN
         /\ p \in Frame /\ p.obj = r.obj /\ p.main = r.main /\ p.at = r.at + 1 /\ p.aux = r.aux
         /\ q \in Frame /\ q.obj = r.obj /\ q.main = r.main /\ q.at = r.at + 1 /\ q.aux = r.aux + 1
<1> DEFINE p == [r EXCEPT !.at = @ + 1]
           q == [r EXCEPT !.at = @ + 1, !.aux = @ + 1]
<1>1. p \in Frame /\ p.obj = r.obj /\ p.main = r.main /\ p.at = r.at + 1 /\ p.aux = r.aux
  BY DEF Frame
<1>2. q = [p EXCEPT !.aux = @ + 1]
  OBVIOUS
<1> HIDE DEF p, q
<1>3. q \in Frame /\ q.obj = p.obj /\ q.main = p.main /\ q.at = p.at /\ q.aux = p.aux + 1
  BY <1>1, <1>2 DEF Frame
<1> QED
  BY <1>1, <1>3 DEF p, q

\* A reader that goes on keeps its place in the stack and its structure.
LEMMA AdvanceFacts ==
  ASSUME NEW s \in Seq(Frame), s # << >>, NEW r \in Frame, r.obj = Last(s).obj, r.main = Last(s).main
  PROVE  Advances(s, [s EXCEPT ![Len(s)] = r], Last(s).obj) /\ [s EXCEPT ![Len(s)] = r][Len(s)] = r
<1> DEFINE u == [s EXCEPT ![Len(s)] = r]
<1>1. Len(s) \in Nat /\ Len(s) \in DOMAIN s /\ Last(s) = s[Len(s)] /\ DOMAIN s = 1..Len(s)
  BY SeqFacts
<1>2. u \in Seq(Frame) /\ Len(u) = Len(s) /\ u[Len(s)] = r /\ \A k \in DOMAIN s : k # Len(s) => u[k] = s[k]
  BY <1>1, ExceptSeq
<1>3. \A k \in DOMAIN s : k < Len(s) => k # Len(s)
  BY <1>1
<1> QED
  BY <1>1, <1>2, <1>3 DEF Advances

\* The reader's import is linked.
LEMMA ImportKeeps ==
  ASSUME NEW m, NEW l, NEW s, Inv(m, l, s), s # << >>,
         Last(s).at <= Len(File(m, Last(s).obj).stmts),
         File(m, Last(s).obj).stmts[Last(s).at].kind = "import",
         NEW a \in Range(l), File(m, a).name = File(m, Last(s).obj).stmts[Last(s).at].name
  PROVE  Inv([m EXCEPT ![Last(s).obj].imp = Append(@, a)], l, [s EXCEPT ![Len(s)].at = @ + 1])
<1> DEFINE r == Last(s)
           o == r.obj
           f == m[o].file
           q == [r EXCEPT !.at = @ + 1]
           u == [s EXCEPT ![Len(s)] = q]
           n == [m EXCEPT ![o].imp = Append(@, a)]
<1>1. /\ s \in Seq(Frame) /\ Len(s) \in DOMAIN s /\ r = s[Len(s)] /\ r \in Frame
      /\ o \in Addr /\ m[o] # None /\ m[o] \in Obj /\ r.at \in Nat /\ r.at > 0
      /\ Belongs(l, s, o, r.main) /\ o \notin Range(l) /\ Position(m, r)
      /\ \A k \in DOMAIN s : s[k].obj = o => k = Len(s)
  BY TopFacts
<1>2. Typed(m, l, s) /\ Readers(m, l, s) /\ Imports(m, l, s)
  BY DEF Inv
<1>3. f \in Files /\ m[o].imp \in Seq(Addr) /\ a \in Addr
  BY <1>1, <1>2, ObjFacts, RangeOfSeq DEF Typed
<1>4. /\ n[o] \in Obj /\ n[o].file = f /\ n[o].inc = m[o].inc /\ n[o].imp = Append(m[o].imp, a)
      /\ n \in [Addr -> Obj \cup {None}] /\ \A x \in Addr : x # o => n[x] = m[x]
  <2>1. Append(m[o].imp, a) \in Seq(Addr)
    BY <1>3
  <2>2. [m[o] EXCEPT !.imp = Append(@, a)] \in Obj
    BY <1>1, <2>1 DEF Obj
  <2>3. n = [m EXCEPT ![o] = [m[o] EXCEPT !.imp = Append(@, a)]]
    OBVIOUS
  <2>4. n[o] = [m[o] EXCEPT !.imp = Append(@, a)] /\ n \in [Addr -> Obj \cup {None}]
    BY <1>1, <1>2, <2>2, <2>3 DEF Typed
  <2>5. n[o].file = f /\ n[o].inc = m[o].inc /\ n[o].imp = Append(m[o].imp, a)
    BY <1>1, <2>4 DEF Obj
  <2> QED
    BY <1>2, <2>2, <2>4, <2>5 DEF Typed
<1>5. n[o] # None
  BY <1>4, NoneType
<1>6. Range(n[o].imp) = Range(m[o].imp) \cup {a} /\ Submodules(n, o) = Submodules(m, o)
  <2>1. Range(Append(m[o].imp, a)) = Range(m[o].imp) \cup {a}
    BY <1>3, AppendRange
  <2> QED
    BY <1>4, <2>1 DEF Submodules
<1>7. /\ q \in Frame /\ q.obj = o /\ q.main = r.main /\ q.at = r.at + 1 /\ q.aux = r.aux
      /\ [s EXCEPT ![Len(s)].at = @ + 1] = u
  <2>1. /\ q \in Frame /\ q.obj = o /\ q.main = r.main /\ q.at = r.at + 1 /\ q.aux = r.aux
    BY <1>1, FrameFacts
  <2>2. [s EXCEPT ![Len(s)].at = @ + 1] = u
    BY <1>1
  <2> QED
    BY <2>1, <2>2
<1> HIDE DEF q, n
<1>8. Advances(s, u, o) /\ u[Len(s)] = q
  BY <1>1, <1>7, AdvanceFacts
<1>9. Grows(m, n, l, s, o, r.main)
  <2>1. Range(m[o].imp) \subseteq Range(l)
    BY <1>1, <1>2, BelongsFacts DEF Imports
  <2>2. \A t \in Submodules(n, o) : m[t] # None /\ \A v, z \in Addr :
          Belongs(l, s, v, z) => t # v /\ (z # r.main => t \notin Submodules(m, v))
    BY <1>1, <1>6, OwnApart
  <2> QED
    BY <1>4, <1>5, <1>6, <2>1, <2>2 DEF Grows
<1>10. Position(n, q)
  <2>1. r.at <= Len(Doc[f].stmts) /\ Doc[f].stmts[r.at].kind = "import" /\ Doc[f].stmts[r.at].name = File(m, a).name
    BY DEF File
  <2>2. /\ r.aux = Cardinality(Includes(f, r.at - 1)) + 1 /\ Places(f, m[o].inc, r.aux)
        /\ \A i \in 1..(r.at - 1) : Satisfied(m, o, Doc[f].stmts[i])
    BY <1>1 DEF Position
  <2>3. Includes(f, r.at) = Includes(f, r.at - 1)
    BY <1>1, <1>3, <2>1, IncludesFacts
  <2>4. Len(Doc[f].stmts) \in Nat
    BY <1>3, DocFacts
  <2>5. (r.at + 1) - 1 = r.at /\ r.at + 1 <= Len(Doc[f].stmts) + 1 /\ \A i \in 1..r.at : i \in 1..(r.at - 1) \/ i = r.at
    <3>1. \A c, d \in Nat : c <= d => (c + 1) - 1 = c /\ c + 1 <= d + 1 /\ \A i \in 1..c : i \in 1..(c - 1) \/ i = c
      OBVIOUS
    <3>2. r.at \in Nat
      BY <1>1
    <3> QED
      BY <2>1, <2>4, <3>1, <3>2
  <2>6. \A x \in Range(m[o].imp) \cup Submodules(m, o) \cup {a} : n[x].file = m[x].file
    <3>1. \A x \in Range(m[o].imp) \cup Submodules(m, o) \cup {a} : x \in Addr
      BY <1>1, <1>2, <1>3, ObjFacts DEF Typed
    <3> QED
      BY <1>4, <3>1
  <2>7. \A i \in 1..(r.at - 1) : Satisfied(n, o, Doc[f].stmts[i])
    BY <1>6, <2>2, <2>6, SatisfiedKept
  <2>8. Satisfied(n, o, Doc[f].stmts[r.at])
    BY <1>6, <2>1, <2>6 DEF Satisfied, File
  <2> QED
    BY <1>4, <1>7, <2>2, <2>3, <2>5, <2>7, <2>8 DEF Position
<1>11. Inv(n, l, u)
  BY <1>1, <1>4, <1>8, <1>9, <1>10, GrowKeeps
<1> QED
  BY <1>7, <1>11 DEF n
\* The place for the next include is there and free.
LEMMA SlotFacts ==
  ASSUME NEW m, NEW l, NEW s, Inv(m, l, s), s # << >>,
         Last(s).at <= Len(File(m, Last(s).obj).stmts),
         File(m, Last(s).obj).stmts[Last(s).at].kind = "include"
  PROVE  LET o == Last(s).obj
             f == m[o].file
             k == Last(s).aux IN
         /\ k = Cardinality(Includes(f, Last(s).at)) /\ k <= Count(f, "include") /\ Count(f, "include") \in Nat
         /\ Count(f, "include") <= Len(m[o].inc) /\ Len(m[o].inc) \in Nat /\ k \in 1..Len(m[o].inc)
         /\ m[o].inc[k].sub = None
<1> DEFINE r == Last(s)
           o == r.obj
           f == m[o].file
           c == Count(f, "include")
<1>1. /\ o \in Addr /\ m[o] # None /\ r.at \in Nat /\ r.at > 0 /\ r.aux \in Nat /\ r.aux > 0 /\ Position(m, r)
  BY TopFacts
<1>2. f \in Files /\ Len(m[o].inc) \in Nat
  BY <1>1, ObjFacts DEF Inv, Typed
<1>3. r.at <= Len(Doc[f].stmts) /\ Doc[f].stmts[r.at].kind = "include"
  BY DEF File
<1>4. r.aux = Cardinality(Includes(f, r.at - 1)) + 1 /\ Places(f, m[o].inc, r.aux)
  BY <1>1 DEF Position
<1>5. /\ Cardinality(Includes(f, r.at)) = Cardinality(Includes(f, r.at - 1)) + 1
      /\ Cardinality(Includes(f, r.at)) <= c /\ c \in Nat
  BY <1>1, <1>2, <1>3, IncludesFacts
<1>6. r.aux <= c
  BY <1>4, <1>5
<1>7. c <= Len(m[o].inc)
  BY <1>2, <1>4, <1>5 DEF Places
<1>8. r.aux \in 1..c /\ r.aux \in 1..Len(m[o].inc) /\ r.aux >= r.aux
  BY <1>1, <1>2, <1>5, <1>6, <1>7
<1>9. m[o].inc[r.aux].sub = None
  BY <1>4, <1>8 DEF Places
<1> QED
  BY <1>2, <1>4, <1>5, <1>6, <1>7, <1>8, <1>9

\* The reader's next statement is an include, of a submodule with the name of t.
ReadsInclude(m, s, t) ==
  /\ s # << >> /\ Last(s).at <= Len(File(m, Last(s).obj).stmts)
  /\ File(m, Last(s).obj).stmts[Last(s).at].kind = "include"
  /\ File(m, Last(s).obj).stmts[Last(s).at].name = File(m, t).name

\* t is a submodule that no other family has.
Apart(m, l, s, t) ==
  /\ t \in Addr /\ m[t] # None
  /\ \A v, z \in Addr : Belongs(l, s, v, z) => t # v /\ (z # Last(s).main => t \notin Submodules(m, v))

\* o has t among its submodules in n, put into place k; the readers go on.
Gets(m, n, o, k, t) ==
  /\ n \in [Addr -> Obj \cup {None}] /\ n[o] # None /\ \A x \in Addr : x # o => n[x] = m[x]
  /\ n[o].file = m[o].file /\ n[o].imp = m[o].imp
  /\ Submodules(n, o) = Submodules(m, o) \cup {t} /\ Places(m[o].file, n[o].inc, k + 1)
PutAt(m, n, o, k, e) == n = [m EXCEPT ![o].inc[k] = e]
TakenOut(m, n, o, i) == n = [m EXCEPT ![o].inc = RemoveAt(@, i)]
GoesOn(s, u) == u = [s EXCEPT ![Len(s)].at = @ + 1, ![Len(s)].aux = @ + 1]

\* The reader's include is done: t is among the submodules.
LEMMA IncludeKeeps ==
  ASSUME NEW m, NEW l, NEW s, Inv(m, l, s), NEW t, ReadsInclude(m, s, t), Apart(m, l, s, t),
         NEW n, Gets(m, n, Last(s).obj, Last(s).aux, t), NEW u, GoesOn(s, u)
  PROVE  Inv(n, l, u)
<1> DEFINE r == Last(s)
           o == r.obj
           f == m[o].file
           q == [r EXCEPT !.at = @ + 1, !.aux = @ + 1]
<1>0. s # << >>
  BY DEF ReadsInclude
<1>1. /\ s \in Seq(Frame) /\ Len(s) \in DOMAIN s /\ r = s[Len(s)] /\ r \in Frame
      /\ o \in Addr /\ m[o] # None /\ m[o] \in Obj /\ r.at \in Nat /\ r.at > 0 /\ r.aux \in Nat
      /\ Belongs(l, s, o, r.main) /\ o \notin Range(l) /\ Position(m, r)
      /\ \A k \in DOMAIN s : s[k].obj = o => k = Len(s)
  BY <1>0, TopFacts
<1>2. Typed(m, l, s) /\ Readers(m, l, s) /\ Imports(m, l, s)
  BY DEF Inv
<1>3. f \in Files
  BY <1>1, <1>2, ObjFacts DEF Typed
<1>4. /\ q \in Frame /\ q.obj = o /\ q.main = r.main /\ q.at = r.at + 1 /\ q.aux = r.aux + 1
      /\ u = [s EXCEPT ![Len(s)] = q]
  <2>1. /\ q \in Frame /\ q.obj = o /\ q.main = r.main /\ q.at = r.at + 1 /\ q.aux = r.aux + 1
    BY <1>1, FrameFacts
  <2>2. u = [s EXCEPT ![Len(s)] = q]
    BY <1>1 DEF Frame, GoesOn
  <2> QED
    BY <2>1, <2>2
<1> HIDE DEF q
<1>5. Advances(s, u, o) /\ u[Len(s)] = q
  BY <1>0, <1>1, <1>4, AdvanceFacts
<1>6. Grows(m, n, l, s, o, r.main)
  <2>1. Range(m[o].imp) \subseteq Range(l)
    BY <1>1, <1>2, BelongsFacts DEF Imports
  <2>2. \A x \in Submodules(m, o) : m[x] # None /\ \A v, z \in Addr :
          Belongs(l, s, v, z) => x # v /\ (z # r.main => x \notin Submodules(m, v))
    BY <1>1, OwnApart
  <2> QED
    BY <2>1, <2>2 DEF Grows, Gets, Apart
<1>7. Position(n, q)
  <2>1. r.at <= Len(Doc[f].stmts) /\ Doc[f].stmts[r.at].kind = "include" /\ Doc[f].stmts[r.at].name = File(m, t).name
    BY DEF File, ReadsInclude
  <2>2. \A i \in 1..(r.at - 1) : Satisfied(m, o, Doc[f].stmts[i])
    BY <1>1 DEF Position
  <2>3. r.aux = Cardinality(Includes(f, r.at))
    BY SlotFacts DEF ReadsInclude
  <2>4. Len(Doc[f].stmts) \in Nat
    BY <1>3, DocFacts
  <2>5. (r.at + 1) - 1 = r.at /\ r.at + 1 <= Len(Doc[f].stmts) + 1 /\ \A i \in 1..r.at : i \in 1..(r.at - 1) \/ i = r.at
    <3>1. \A a, c \in Nat : a > 0 /\ a <= c =>
            (a + 1) - 1 = a /\ a + 1 <= c + 1 /\ \A i \in 1..a : i \in 1..(a - 1) \/ i = a
      OBVIOUS
    <3> QED
      BY <1>1, <2>1, <2>4, <3>1
  <2>6. \A x \in Range(m[o].imp) \cup Submodules(m, o) \cup {t} : n[x].file = m[x].file
    <3>1. \A x \in Range(m[o].imp) \cup Submodules(m, o) \cup {t} : x \in Addr
      BY <1>1, <1>2, <1>3, ObjFacts DEF Typed, Apart
    <3> QED
      BY <3>1 DEF Gets
  <2>7. \A i \in 1..(r.at - 1) : Satisfied(n, o, Doc[f].stmts[i])
    <3>1. n[o].imp = m[o].imp /\ Submodules(m, o) \subseteq Submodules(n, o)
      BY DEF Gets
    <3> QED
      BY <2>2, <2>6, <3>1, SatisfiedKept
  <2>8. Satisfied(n, o, Doc[f].stmts[r.at])
    BY <2>1, <2>6 DEF Satisfied, File, Gets
  <2> QED
    BY <1>4, <2>3, <2>5, <2>7, <2>8 DEF Position, Gets
<1>8. Inv(n, l, u)
  BY <1>1, <1>5, <1>6, <1>7, GrowKeeps DEF Gets
<1> QED
  BY <1>8

\* Filling the next of the own places leaves the own places in order.
LEMMA PutPlaces ==
  ASSUME NEW f, NEW inc \in Seq(Entry), NEW k \in 1..Len(inc), Places(f, inc, k), Count(f, "include") \in Nat,
         NEW e \in Entry, ~e.ext
  PROVE  Places(f, [inc EXCEPT ![k] = e], k + 1)
<1> DEFINE q == [inc EXCEPT ![k] = e]
<1>1. Len(inc) \in Nat
  BY SeqFacts
<1>2. Len(q) = Len(inc) /\ \A i \in 1..Len(inc) : q[i] = IF i = k THEN e ELSE inc[i]
  BY ExceptSeq
<1> HIDE DEF q
<1>3. ASSUME NEW i \in 1..((k + 1) - 1), i <= Len(q) PROVE ~q[i].ext
  <2>1. i \in 1..Len(inc) /\ (i # k => i \in 1..(k - 1))
    BY <1>1, <1>2, <1>3
  <2>2. i # k => ~inc[i].ext
    BY <1>2, <1>3, <2>1 DEF Places
  <2> QED
    BY <1>2, <2>1, <2>2
<1>4. ASSUME NEW i \in 1..Count(f, "include"), i >= k + 1 PROVE q[i].sub = None
  <2>1. Count(f, "include") <= Len(inc)
    BY <1>1 DEF Places
  <2>2. i \in 1..Len(inc) /\ i # k /\ i >= k
    BY <1>1, <1>4, <2>1
  <2>3. inc[i].sub = None
    BY <2>2 DEF Places
  <2> QED
    BY <1>2, <2>2, <2>3
<1> QED
  BY <1>2, <1>3, <1>4 DEF Places, q

\* A submodule is put into a free place of o's includes.
LEMMA PutGets ==
  ASSUME NEW m \in [Addr -> Obj \cup {None}], NEW o \in Addr, m[o] # None,
         NEW k \in 1..Len(m[o].inc), m[o].inc[k].sub = None, Places(m[o].file, m[o].inc, k),
         NEW e \in Entry, e.sub # None, ~e.ext, NEW n, PutAt(m, n, o, k, e)
  PROVE  Gets(m, n, o, k, e.sub)
<1> DEFINE inc == m[o].inc
           q == [inc EXCEPT ![k] = e]
<1>1. /\ m[o] \in Obj /\ inc \in Seq(Entry) /\ Len(inc) \in Nat /\ m[o].file \in Files
      /\ \A t : t \in Submodules(m, o) <=> t # None /\ \E i \in 1..Len(inc) : inc[i].sub = t
  BY ObjFacts
<1>2. q \in Seq(Entry) /\ Len(q) = Len(inc) /\ \A i \in 1..Len(inc) : q[i] = IF i = k THEN e ELSE inc[i]
  BY <1>1, ExceptSeq
<1>3. Places(m[o].file, q, k + 1)
  <2>1. 0 \in Nat /\ 0 <= Len(Doc[m[o].file].stmts)
    BY <1>1, DocFacts
  <2>2. Count(m[o].file, "include") \in Nat
    BY <1>1, <2>1, IncludesFacts
  <2> QED
    BY <1>1, <2>2, PutPlaces
<1> HIDE DEF q
<1>4. n = [m EXCEPT ![o] = [m[o] EXCEPT !.inc = q]]
  BY DEF q, PutAt
<1>5. /\ [m[o] EXCEPT !.inc = q] \in Obj /\ [m[o] EXCEPT !.inc = q].inc = q
      /\ [m[o] EXCEPT !.inc = q].file = m[o].file /\ [m[o] EXCEPT !.inc = q].imp = m[o].imp
  BY <1>1, <1>2 DEF Obj
<1>6. n[o] = [m[o] EXCEPT !.inc = q] /\ \A x \in Addr : x # o => n[x] = m[x]
  BY <1>4
<1>7. n \in [Addr -> Obj \cup {None}] /\ n[o] # None
  BY <1>4, <1>5, <1>6, NoneType
<1>8. n[o].file = m[o].file /\ n[o].imp = m[o].imp /\ n[o].inc = q
  BY <1>5, <1>6
<1>9. \A t : t \in Submodules(n, o) <=> t # None /\ \E i \in 1..Len(n[o].inc) : n[o].inc[i].sub = t
  BY <1>7, ObjFacts
<1>10. \A t : t \in Submodules(n, o) <=> t \in Submodules(m, o) \/ t = e.sub
  BY <1>1, <1>2, <1>8, <1>9
<1> QED
  BY <1>3, <1>6, <1>7, <1>8, <1>10 DEF Gets

\* q is inc without the entry at i, and k is a place for the module's own in both.
WithoutEntry(f, inc, k, i, q) ==
  /\ q \in Seq(Entry) /\ k \in 1..Len(q) /\ Places(f, q, k) /\ q[k] = inc[k]
  /\ \A t : (\E j \in 1..Len(inc) : inc[j].sub = t) <=> t = inc[i].sub \/ \E j \in 1..Len(q) : q[j].sub = t

\* An entry from a submodule is behind the places for the module's own: removing it
\* leaves these alone.
LEMMA RemoveFacts ==
  ASSUME NEW f, NEW inc \in Seq(Entry), NEW k \in 1..Len(inc), k <= Count(f, "include"), Count(f, "include") \in Nat,
         Places(f, inc, k), NEW i \in 1..Len(inc), inc[i].ext, inc[i].sub # None,
         NEW q, q = RemoveAt(inc, i)
  PROVE  WithoutEntry(f, inc, k, i, q)
<1> DEFINE c == Count(f, "include")
           len == Len(inc)
<1>1. len \in Nat /\ \A j \in 1..len : inc[j] \in Entry
  BY SeqFacts
<1>2. i > c
  <2>1. ~(i \in 1..(k - 1))
    BY <1>1 DEF Places
  <2>2. ~(i \in 1..c /\ i >= k)
    BY DEF Places
  <2> QED
    BY <2>1, <2>2
<1>3. q \in Seq(Entry) /\ Len(q) = len - 1 /\ \A j \in 1..(len - 1) : q[j] = IF j < i THEN inc[j] ELSE inc[j + 1]
  <2> DEFINE a == SubSeq(inc, 1, i - 1)
             b == SubSeq(inc, i + 1, len)
  <2>1. a \in Seq(Entry) /\ Len(a) = i - 1 /\ \A j \in 1..(i - 1) : a[j] = inc[j]
    <3>1. PICK n \in Int : n = i - 1
      OBVIOUS
    <3>2. \A j \in 1..n : inc[j] \in Entry
      BY <1>1, <3>1
    <3>3. /\ SubSeq(inc, 1, n) \in Seq(Entry) /\ Len(SubSeq(inc, 1, n)) = IF 1 <= n THEN n - 1 + 1 ELSE 0
          /\ \A j \in 1..(n - 1 + 1) : SubSeq(inc, 1, n)[j] = inc[1 + j - 1]
      BY <3>2, SubSeqProperties
    <3>4. (IF 1 <= n THEN n - 1 + 1 ELSE 0) = n /\ n - 1 + 1 = n /\ \A j \in 1..n : 1 + j - 1 = j
      BY <1>1, <3>1
    <3>5. Len(SubSeq(inc, 1, n)) = n /\ \A j \in 1..n : SubSeq(inc, 1, n)[j] = inc[j]
      BY <3>3, <3>4
    <3> QED
      BY <3>1, <3>3, <3>5
  <2>2. b \in Seq(Entry) /\ Len(b) = len - i /\ \A j \in 1..(len - i) : b[j] = inc[i + j]
    <3>1. PICK n \in Int : n = i + 1
      OBVIOUS
    <3>2. \A j \in n..len : inc[j] \in Entry
      BY <1>1, <3>1
    <3>3. /\ SubSeq(inc, n, len) \in Seq(Entry) /\ Len(SubSeq(inc, n, len)) = IF n <= len THEN len - n + 1 ELSE 0
          /\ \A j \in 1..(len - n + 1) : SubSeq(inc, n, len)[j] = inc[n + j - 1]
      BY <1>1, <3>2, SubSeqProperties
    <3>4. (IF n <= len THEN len - n + 1 ELSE 0) = len - i /\ len - n + 1 = len - i /\ \A j \in 1..(len - i) : n + j - 1 = i + j
      BY <1>1, <3>1
    <3>5. Len(SubSeq(inc, n, len)) = len - i /\ \A j \in 1..(len - i) : SubSeq(inc, n, len)[j] = inc[i + j]
      BY <3>3, <3>4
    <3> QED
      BY <3>1, <3>3, <3>5
  <2>3. q = a \o b
    BY DEF RemoveAt
  <2> HIDE DEF a, b, len
  <2>4. /\ q \in Seq(Entry) /\ Len(q) = Len(a) + Len(b)
        /\ \A j \in 1..(Len(a) + Len(b)) : q[j] = IF j <= Len(a) THEN a[j] ELSE b[j - Len(a)]
    BY <2>1, <2>2, <2>3, ConcatProperties
  <2>5. Len(a) + Len(b) = len - 1
    BY <1>1, <2>1, <2>2
  <2>6. ASSUME NEW j \in 1..(len - 1) PROVE q[j] = IF j < i THEN inc[j] ELSE inc[j + 1]
    <3>1. CASE j < i
      <4>1. j <= i - 1 /\ j \in 1..(i - 1)
        BY <2>6, <3>1
      <4> QED
        BY <2>1, <2>4, <2>5, <2>6, <3>1, <4>1
    <3>2. CASE ~(j < i)
      <4>1. ~(j <= i - 1) /\ j - (i - 1) \in 1..(len - i) /\ i + (j - (i - 1)) = j + 1
        BY <1>1, <2>6, <3>2
      <4> QED
        BY <2>1, <2>2, <2>4, <2>5, <2>6, <3>2, <4>1
    <3> QED
      BY <3>1, <3>2
  <2> QED
    BY <2>4, <2>5, <2>6
<1>4. len \in Nat /\ c \in Nat /\ c <= len - 1 /\ k \in 1..(len - 1) /\ k < i
  BY <1>1, <1>2
<1>5. q[k] = inc[k]
  BY <1>3, <1>4
<1>6. Places(f, q, k)
  <2>1. \A j \in 1..(k - 1) : j \in 1..(len - 1) /\ j < i /\ j <= len
    BY <1>4
  <2>2. \A j \in 1..c : j \in 1..(len - 1) /\ j < i
    BY <1>2, <1>4
  <2>3. \A j \in 1..(k - 1) : ~q[j].ext
    BY <1>3, <2>1 DEF Places
  <2>4. \A j \in 1..c : j >= k => q[j].sub = None
    BY <1>3, <2>2 DEF Places
  <2>5. Len(q) >= c
    BY <1>3, <1>4
  <2> QED
    BY <2>3, <2>4, <2>5 DEF Places
<1>7. ASSUME NEW t
      PROVE  (\E j \in 1..len : inc[j].sub = t) <=> t = inc[i].sub \/ \E j \in 1..Len(q) : q[j].sub = t
  <2>1. ASSUME NEW j \in 1..len, j # i PROVE \E h \in 1..(len - 1) : q[h] = inc[j]
    <3>1. CASE j < i
      <4>1. j \in 1..(len - 1)
        BY <1>1, <2>1, <3>1
      <4> QED
        BY <1>3, <3>1, <4>1
    <3>2. CASE j > i
      <4>1. j - 1 \in 1..(len - 1) /\ ~(j - 1 < i) /\ (j - 1) + 1 = j
        BY <1>1, <2>1, <3>2
      <4>2. q[j - 1] = inc[(j - 1) + 1]
        BY <1>3, <4>1
      <4> QED
        BY <4>1, <4>2
    <3>3. j < i \/ j > i
      BY <2>1
    <3> QED
      BY <3>1, <3>2, <3>3
  <2>2. ASSUME NEW h \in 1..(len - 1) PROVE \E j \in 1..len : q[h] = inc[j]
    <3>1. h \in 1..len /\ h + 1 \in 1..len
      BY <1>1
    <3> QED
      BY <1>3, <3>1
  <2>3. Len(q) = len - 1
    BY <1>3
  <2> HIDE DEF len
  <2>4. ASSUME NEW j \in 1..len, inc[j].sub = t PROVE t = inc[i].sub \/ \E h \in 1..Len(q) : q[h].sub = t
    BY <2>1, <2>3, <2>4
  <2>5. i \in 1..len
    BY DEF len
  <2>6. ASSUME NEW h \in 1..Len(q), q[h].sub = t PROVE \E j \in 1..len : inc[j].sub = t
    BY <2>2, <2>3, <2>6
  <2> QED
    BY <2>4, <2>5, <2>6
<1> QED
  BY <1>3, <1>4, <1>5, <1>6, <1>7 DEF WithoutEntry
\* The steps of Included: the entry is put into its place, or moves there from behind.
LEMMA PutKeeps ==
  ASSUME NEW m, NEW l, NEW s, Inv(m, l, s), NEW e \in Entry, ~e.ext,
         ReadsInclude(m, s, e.sub), Apart(m, l, s, e.sub),
         NEW n, PutAt(m, n, Last(s).obj, Last(s).aux, e), NEW u, GoesOn(s, u)
  PROVE  Inv(n, l, u)
<1> DEFINE o == Last(s).obj
           k == Last(s).aux
<1>1. /\ o \in Addr /\ m[o] # None /\ m \in [Addr -> Obj \cup {None}] /\ Places(m[o].file, m[o].inc, k)
  BY TopFacts DEF Inv, Typed, Position, ReadsInclude
<1>2. k \in 1..Len(m[o].inc) /\ m[o].inc[k].sub = None
  BY SlotFacts DEF ReadsInclude
<1>3. e.sub # None
  BY AddrType DEF Apart
<1>4. Gets(m, n, o, k, e.sub)
  BY <1>1, <1>2, <1>3, PutGets
<1> QED
  BY <1>4, IncludeKeeps

\* An entry that moves from the appended ones to the own place keeps the invariant.
LEMMA MoveKeeps ==
  ASSUME NEW m, NEW l, NEW s, Inv(m, l, s),
         NEW i \in 1..Len(m[Last(s).obj].inc), m[Last(s).obj].inc[i].ext, m[Last(s).obj].inc[i].sub # None,
         NEW e \in Entry, ~e.ext, e.sub = m[Last(s).obj].inc[i].sub, ReadsInclude(m, s, e.sub),
         NEW m1, TakenOut(m, m1, Last(s).obj, i),
         NEW n, PutAt(m1, n, Last(s).obj, Last(s).aux, e), NEW u, GoesOn(s, u)
  PROVE  Inv(n, l, u)
<1> DEFINE o == Last(s).obj
           k == Last(s).aux
           inc == m[o].inc
           f == m[o].file
<1>1. /\ o \in Addr /\ m[o] # None /\ m[o] \in Obj /\ m \in [Addr -> Obj \cup {None}]
      /\ Places(f, inc, k) /\ Belongs(l, s, o, Last(s).main)
  BY TopFacts DEF Inv, Typed, Position, ReadsInclude
<1>2. /\ k \in 1..Len(inc) /\ inc[k].sub = None /\ k <= Count(f, "include")
      /\ Count(f, "include") \in Nat
  BY SlotFacts DEF ReadsInclude
<1>3. inc \in Seq(Entry)
  BY <1>1, ObjFacts
<1>4. PICK q : q = RemoveAt(inc, i)
  OBVIOUS
<1>5. i \in 1..Len(inc) /\ inc[i].ext /\ inc[i].sub # None /\ e.sub = inc[i].sub
  OBVIOUS
<1>6. m1 = [m EXCEPT ![o] = [m[o] EXCEPT !.inc = q]]
  BY <1>4 DEF TakenOut
<1> HIDE DEF o, k, inc, f
<1>7. /\ q \in Seq(Entry) /\ k \in 1..Len(q) /\ Places(f, q, k) /\ q[k] = inc[k]
      /\ \A t : (\E j \in 1..Len(inc) : inc[j].sub = t) <=> t = inc[i].sub \/ \E j \in 1..Len(q) : q[j].sub = t
  <2>1. WithoutEntry(f, inc, k, i, q)
    BY <1>1, <1>2, <1>3, <1>4, <1>5, RemoveFacts
  <2> QED
    BY <2>1 DEF WithoutEntry
<1>8. /\ [m[o] EXCEPT !.inc = q] \in Obj /\ [m[o] EXCEPT !.inc = q].inc = q
      /\ [m[o] EXCEPT !.inc = q].file = m[o].file /\ [m[o] EXCEPT !.inc = q].imp = m[o].imp
  BY <1>1, <1>7 DEF Obj
<1>9. m1[o] = [m[o] EXCEPT !.inc = q] /\ \A x \in Addr : x # o => m1[x] = m[x]
  BY <1>1, <1>6
<1>10. m1 \in [Addr -> Obj \cup {None}] /\ m1[o] # None
  BY <1>1, <1>6, <1>8, <1>9, NoneType
<1>11. m1[o].file = f /\ m1[o].imp = m[o].imp /\ m1[o].inc = q
  BY <1>8, <1>9 DEF f
<1>12. Gets(m1, n, o, k, e.sub)
  <2>1. k \in 1..Len(m1[o].inc) /\ m1[o].inc[k].sub = None /\ Places(m1[o].file, m1[o].inc, k)
    BY <1>2, <1>7, <1>11
  <2>2. PutAt(m1, n, o, k, e)
    BY DEF o, k
  <2> QED
    BY <1>1, <1>5, <1>10, <2>1, <2>2, PutGets
<1>13. Submodules(n, o) = Submodules(m, o) \cup {e.sub}
  <2>1. \A t : t \in Submodules(m, o) <=> t # None /\ \E j \in 1..Len(inc) : inc[j].sub = t
    BY <1>1, ObjFacts DEF inc
  <2>2. \A t : t \in Submodules(m1, o) <=> t # None /\ \E j \in 1..Len(m1[o].inc) : m1[o].inc[j].sub = t
    BY <1>1, <1>10, ObjFacts
  <2>3. \A t : t \in Submodules(m1, o) <=> t # None /\ \E j \in 1..Len(q) : q[j].sub = t
    BY <1>11, <2>2
  <2>4. \A t : t \in Submodules(m1, o) \cup {e.sub} <=> t \in Submodules(m, o) \cup {e.sub}
    BY <1>5, <1>7, <2>1, <2>3
  <2> QED
    BY <1>12, <2>4 DEF Gets
<1>14. Gets(m, n, o, k, e.sub)
  <2>1. /\ n \in [Addr -> Obj \cup {None}] /\ n[o] # None /\ \A x \in Addr : x # o => n[x] = m1[x]
        /\ n[o].file = m1[o].file /\ n[o].imp = m1[o].imp /\ Places(m1[o].file, n[o].inc, k + 1)
    BY <1>12 DEF Gets
  <2>2. /\ n[o].file = f /\ n[o].imp = m[o].imp /\ Places(f, n[o].inc, k + 1)
        /\ \A x \in Addr : x # o => n[x] = m[x]
    BY <1>9, <1>11, <2>1
  <2> QED
    BY <1>13, <2>1, <2>2 DEF Gets, f
<1>15. e.sub \in Submodules(m, o)
  BY <1>1, <1>5, ObjFacts DEF inc
<1>16. Apart(m, l, s, e.sub)
  <2>1. e.sub \in Addr
    BY <1>1, <1>15, ObjFacts
  <2>2. m[e.sub] # None /\ \A v, z \in Addr :
         Belongs(l, s, v, z) => e.sub # v /\ (z # Last(s).main => e.sub \notin Submodules(m, v))
    <3>1. PICK w : w = Last(s).main
      OBVIOUS
    <3>2. Belongs(l, s, o, w) /\ Inv(m, l, s)
      BY <1>1, <3>1
    <3>3. PICK t \in Submodules(m, o) : t = e.sub
      BY <1>15
    <3>4. m[t] # None /\ \A v, z \in Addr : Belongs(l, s, v, z) => t # v /\ (z # w => t \notin Submodules(m, v))
      BY <3>2, OwnApart
    <3> QED
      BY <3>1, <3>3, <3>4
  <2> QED
    BY <2>1, <2>2 DEF Apart
<1> QED
  BY <1>14, <1>16, IncludeKeeps DEF o, k
-----------------------------------------------------------------------------
(* What the recursive functions compute                                    *)

\* The least number of a set of naturals that has one.
LEMMA MinFacts ==
  ASSUME NEW S \in SUBSET Nat, S # {}
  PROVE  Min(S) \in S /\ \A n \in S : Min(S) <= n
  BY LeastNumber DEF Min

\* What is missing is among what there was.
LEMMA MissingType ==
  ASSUME NEW S, NEW s \in Seq(S), NEW have
  PROVE  Missing(s, have) \in Seq(S)
<1> DEFINE len == Len(s)
           Body(f) == [k \in 0..len |-> IF k = 0 THEN << >> ELSE
                         IF s[k] \in have THEN f[k - 1] ELSE Append(f[k - 1], s[k])]
           up == CHOOSE f : f = Body(f)
           G(p) == IF p[1] \in 1..len /\ s[p[1]] \notin have THEN Append(p[2], s[p[1]]) ELSE p[2]
           g == [p \in (Nat \ {0}) \X Seq(S) |-> G(p)]
<1>1. len \in Nat /\ \A k \in 1..len : s[k] \in S
  BY SeqFacts
<1>2. Missing(s, have) = up[len]
  BY DEF Missing
<1> HIDE DEF len
<1>3. g \in [(Nat \ {0}) \X Seq(S) -> Seq(S)]
  <2>1. ASSUME NEW p \in (Nat \ {0}) \X Seq(S) PROVE G(p) \in Seq(S)
    BY <1>1, AppendProperties
  <2> HIDE DEF G
  <2> QED
    BY <2>1
<1>4. ASSUME NEW k \in 1..len, NEW q \in Seq(S)
      PROVE  g[<<k, q>>] = IF s[k] \in have THEN q ELSE Append(q, s[k])
  <2>1. <<k, q>> \in (Nat \ {0}) \X Seq(S)
    BY <1>1
  <2>2. g[<<k, q>>] = G(<<k, q>>)
    <3> HIDE DEF G
    <3> QED
      BY <2>1
  <2> QED
    BY <2>2
<1> HIDE DEF g
<1>5. << >> \in Seq(S)
  OBVIOUS
<1>6. PICK h : Unrolled(h, len, Seq(S), << >>, g)
  BY <1>1, <1>3, <1>5, UnrolledExists
<1>7. h = Body(h)
  <2>1. h \in [0..len -> Seq(S)] /\ h[0] = << >>
    BY <1>6 DEF Unrolled
  <2>2. ASSUME NEW k \in 0..len, k # 0
        PROVE  h[k] = IF s[k] \in have THEN h[k - 1] ELSE Append(h[k - 1], s[k])
    <3>1. k \in 1..len /\ k - 1 \in 0..len
      BY <1>1, <2>2
    <3>2. h[k - 1] \in Seq(S)
      BY <2>1, <3>1
    <3>3. h[k] = g[<<k, h[k - 1]>>]
      BY <1>6, <3>1 DEF Unrolled
    <3> QED
      BY <1>4, <3>1, <3>2, <3>3
  <2> QED
    BY <2>1, <2>2
<1>8. up = Body(up)
  BY <1>7
<1> HIDE DEF up
<1>9. /\ up[0] = << >>
      /\ \A k \in 1..len : up[k] = IF s[k] \in have THEN up[k - 1] ELSE Append(up[k - 1], s[k])
  <2>1. \A k \in 0..len : up[k] = IF k = 0 THEN << >> ELSE
                            IF s[k] \in have THEN up[k - 1] ELSE Append(up[k - 1], s[k])
    BY <1>8
  <2>2. 0 \in 0..len /\ \A k \in 1..len : k \in 0..len /\ k # 0
    BY <1>1
  <2> QED
    BY <2>1, <2>2
<1> DEFINE A == {n \in Nat : n <= len => up[n] \in Seq(S)}
<1>10. 0 \in A
  BY <1>5, <1>9
<1>11. ASSUME NEW n \in Nat, n \in A PROVE n + 1 \in A
  <2>1. SUFFICES ASSUME n + 1 <= len PROVE up[n + 1] \in Seq(S)
    OBVIOUS
  <2>2. n + 1 \in 1..len /\ (n + 1) - 1 = n /\ n <= len
    BY <1>1, <2>1
  <2>3. up[n] \in Seq(S) /\ s[n + 1] \in S
    BY <1>1, <1>11, <2>2
  <2>4. up[n + 1] = IF s[n + 1] \in have THEN up[n] ELSE Append(up[n], s[n + 1])
    BY <1>9, <2>2
  <2>5. Append(up[n], s[n + 1]) \in Seq(S)
    BY <2>3, AppendProperties
  <2> QED
    BY <2>3, <2>4, <2>5
<1> HIDE DEF A
<1>12. Nat \subseteq A
  BY <1>10, <1>11, SetInduction
<1>13. len \in A
  BY <1>1, <1>12
<1>14. len <= len
  BY <1>1
<1> QED
  BY <1>2, <1>13, <1>14 DEF A

\* The newest module with a name.
LEMMA NewerFacts ==
  ASSUME NEW m, NEW a \in Addr, NEW result \in Addr \cup {None}, File(m, a).rev \in Nat,
         result # None => File(m, result).rev \in Nat
  PROVE  LET b == Newer(m, a, result) IN
         /\ b \in {a, result} /\ b # None /\ File(m, b).rev >= File(m, a).rev
         /\ result # None => File(m, b).rev >= File(m, result).rev
<1>1. a # None
  BY AddrType
<1>2. CASE result = None
  BY <1>1, <1>2 DEF Newer
<1>3. CASE result # None
  <2> DEFINE x == File(m, a).rev
             y == File(m, result).rev
  <2>1. x \in Nat /\ y \in Nat
    BY <1>3
  <2>2. Newer(m, a, result) = IF x = 0 THEN result ELSE IF y # 0 /\ x < y THEN result ELSE a
    BY <1>3 DEF Newer
  <2> HIDE DEF x, y
  <2>3. CASE x = 0 \/ (y # 0 /\ x < y)
    <3>1. Newer(m, a, result) = result /\ y >= x /\ y >= y
      BY <2>1, <2>2, <2>3
    <3> QED
      BY <1>3, <3>1 DEF x, y
  <2>4. CASE ~(x = 0 \/ (y # 0 /\ x < y))
    <3>1. Newer(m, a, result) = a /\ x >= x /\ x >= y
      BY <2>1, <2>2, <2>4
    <3> QED
      BY <1>1, <3>1 DEF x, y
  <2> QED
    BY <2>3, <2>4
<1> QED
  BY <1>2, <1>3

\* x is what a search of the list l may deliver.
SearchResult(m, l, name, rev, x) ==
  /\ x # None => x \in Range(l) /\ File(m, x).name = name
  /\ rev = 0 => \A i \in DOMAIN l : File(m, l[i]).name = name => x # None /\ File(m, x).rev >= File(m, l[i]).rev

\* What ly_ctx_get_module finds: a module of that name in the list and, when no
\* revision is asked for, one no older than any other of that name.
LEMMA SearchFacts ==
  ASSUME NEW m, NEW l \in Seq(Addr), \A a \in Range(l) : File(m, a).rev \in Nat, NEW name, NEW rev \in Nat
  PROVE  SearchResult(m, l, name, rev, ly_ctx_get_module(m, l, name, rev))
<1> DEFINE len == Len(l)
           Pick(a, b) == IF File(m, a).name = name THEN Newer(m, a, b) ELSE b
           Body(f) == [k \in 0..len |-> IF k = 0 THEN None ELSE
                         IF File(m, l[k]).name = name THEN Newer(m, l[k], f[k - 1]) ELSE f[k - 1]]
           up == CHOOSE f : f = Body(f)
           exact == {k \in DOMAIN l : File(m, l[k]).name = name /\ File(m, l[k]).rev = rev}
           S == Range(l) \cup {None}
           G(p) == IF p[1] \in 1..len THEN Pick(l[p[1]], p[2]) ELSE p[2]
           g == [p \in (Nat \ {0}) \X S |-> G(p)]
           x == ly_ctx_get_module(m, l, name, rev)
<1>1. /\ len \in Nat /\ DOMAIN l = 1..len /\ Range(l) \subseteq Addr
      /\ \A k \in 1..len : l[k] \in Range(l)
  BY SeqFacts, RangeOfSeq
<1>2. x = IF rev = 0 THEN up[len] ELSE IF exact = {} THEN None ELSE l[Min(exact)]
  BY DEF ly_ctx_get_module
<1> HIDE DEF len, x
<1>3. CASE rev # 0
  <2>1. CASE exact = {}
    <3>1. x = None
      BY <1>2, <1>3, <2>1
    <3> QED
      BY <1>3, <3>1 DEF x, SearchResult
  <2>2. CASE exact # {}
    <3>1. exact \in SUBSET Nat
      BY <1>1
    <3> HIDE DEF exact
    <3>2. Min(exact) \in exact
      BY <2>2, <3>1, MinFacts
    <3>3. x = l[Min(exact)]
      BY <1>2, <1>3, <2>2
    <3> USE DEF exact
    <3>4. Min(exact) \in 1..len /\ File(m, l[Min(exact)]).name = name
      BY <1>1, <3>2
    <3> HIDE DEF exact
    <3> QED
      BY <1>1, <1>3, <3>3, <3>4 DEF x, SearchResult
  <2> QED
    BY <2>1, <2>2
<1>4. CASE rev = 0
  <2>0. x = up[len]
    BY <1>2, <1>4
  <2>1. ASSUME NEW a \in Range(l), NEW b \in S PROVE Pick(a, b) \in S
    <3>1. a \in Addr /\ b \in Addr \cup {None} /\ File(m, a).rev \in Nat /\ (b # None => File(m, b).rev \in Nat)
      BY <1>1, <2>1
    <3>2. Newer(m, a, b) \in {a, b}
      BY <3>1, NewerFacts
    <3> QED
      BY <2>1, <3>2
  <2> HIDE DEF S
  <2>2. g \in [(Nat \ {0}) \X S -> S]
    <3>1. ASSUME NEW p \in (Nat \ {0}) \X S PROVE G(p) \in S
      <4>1. p[2] \in S
        OBVIOUS
      <4> HIDE DEF Pick
      <4>2. p[1] \in 1..len => Pick(l[p[1]], p[2]) \in S
        BY <1>1, <2>1, <4>1
      <4> QED
        BY <4>1, <4>2
    <3> HIDE DEF G
    <3> QED
      BY <3>1
  <2>3. ASSUME NEW k \in 1..len, NEW b \in S PROVE g[<<k, b>>] = Pick(l[k], b)
    <3>1. <<k, b>> \in (Nat \ {0}) \X S
      BY <1>1
    <3>2. g[<<k, b>>] = G(<<k, b>>)
      <4> HIDE DEF G
      <4> QED
        BY <3>1
    <3> HIDE DEF Pick
    <3> QED
      BY <3>2
  <2> HIDE DEF g
  <2>4. None \in S
    BY DEF S
  <2>5. PICK h : Unrolled(h, len, S, None, g)
    BY <1>1, <2>2, <2>4, UnrolledExists
  <2>6. h = Body(h)
    <3>1. h \in [0..len -> S] /\ h[0] = None
      BY <2>5 DEF Unrolled
    <3>2. ASSUME NEW k \in 0..len, k # 0
          PROVE  h[k] = IF File(m, l[k]).name = name THEN Newer(m, l[k], h[k - 1]) ELSE h[k - 1]
      <4>1. k \in 1..len /\ k - 1 \in 0..len
        BY <1>1, <3>2
      <4>2. h[k - 1] \in S
        BY <3>1, <4>1
      <4>3. h[k] = g[<<k, h[k - 1]>>]
        BY <2>5, <4>1 DEF Unrolled
      <4> QED
        BY <2>3, <4>1, <4>2, <4>3
    <3> QED
      BY <3>1, <3>2
  <2>7. up = Body(up)
    BY <2>6
  <2> HIDE DEF up
  <2>8. /\ up[0] = None
        /\ \A k \in 1..len : up[k] = IF File(m, l[k]).name = name THEN Newer(m, l[k], up[k - 1]) ELSE up[k - 1]
    BY <1>1, <2>7
  <2> DEFINE P(n) == /\ up[n] # None => up[n] \in Range(l) /\ File(m, up[n]).name = name
                     /\ \A j \in 1..n : File(m, l[j]).name = name =>
                          up[n] # None /\ File(m, up[n]).rev >= File(m, l[j]).rev
             A == {n \in Nat : n <= len => P(n)}
  <2>9. 0 \in A
    <3>1. 1..0 = {}
      OBVIOUS
    <3> QED
      BY <2>8, <3>1
  <2>10. ASSUME NEW n \in Nat, n \in A PROVE n + 1 \in A
    <3>1. SUFFICES ASSUME n + 1 <= len PROVE P(n + 1)
      OBVIOUS
    <3>2. n + 1 \in 1..len /\ (n + 1) - 1 = n /\ n <= len /\ \A j \in 1..(n + 1) : j \in 1..n \/ j = n + 1
      BY <1>1, <3>1
    <3>3. P(n)
      BY <2>10, <3>2
    <3>4. l[n + 1] \in Range(l) /\ l[n + 1] \in Addr /\ File(m, l[n + 1]).rev \in Nat
      BY <1>1, <3>2
    <3>5. up[n + 1] = IF File(m, l[n + 1]).name = name THEN Newer(m, l[n + 1], up[n]) ELSE up[n]
      BY <2>8, <3>2
    <3>6. up[n] \in Addr \cup {None} /\ (up[n] # None => File(m, up[n]).rev \in Nat)
      BY <1>1, <3>3
    <3>7. CASE File(m, l[n + 1]).name # name
      BY <3>2, <3>3, <3>5, <3>7
    <3>8. CASE File(m, l[n + 1]).name = name
      <4>1. /\ up[n + 1] \in {l[n + 1], up[n]} /\ up[n + 1] # None
            /\ File(m, up[n + 1]).rev >= File(m, l[n + 1]).rev
            /\ up[n] # None => File(m, up[n + 1]).rev >= File(m, up[n]).rev
        BY <3>4, <3>5, <3>6, <3>8, NewerFacts
      <4>2. up[n + 1] \in Range(l) /\ File(m, up[n + 1]).name = name /\ File(m, up[n + 1]).rev \in Nat
        BY <3>3, <3>4, <3>8, <4>1
      <4>3. ASSUME NEW j \in 1..(n + 1), File(m, l[j]).name = name
            PROVE  File(m, up[n + 1]).rev >= File(m, l[j]).rev
        <5>1. CASE j = n + 1
          BY <4>1, <5>1
        <5>2. CASE j \in 1..n
          <6>1. up[n] # None /\ File(m, up[n]).rev >= File(m, l[j]).rev
            BY <3>3, <4>3, <5>2
          <6>2. File(m, l[j]).rev \in Nat
            <7>1. j \in 1..len
              BY <1>1, <3>2, <5>2
            <7> QED
              BY <1>1, <7>1
          <6>3. \A a, b, c \in Nat : a >= b /\ b >= c => a >= c
            OBVIOUS
          <6> QED
            BY <3>6, <4>1, <4>2, <6>1, <6>2, <6>3
        <5> QED
          BY <3>2, <5>1, <5>2
      <4> QED
        BY <4>1, <4>2, <4>3
    <3> QED
      BY <3>7, <3>8
  <2> HIDE DEF A, P
  <2>11. Nat \subseteq A
    BY <2>9, <2>10, SetInduction
  <2>12. len \in A /\ len <= len
    BY <1>1, <2>11
  <2>13. P(len)
    BY <2>12 DEF A
  <2> QED
    BY <1>1, <1>4, <2>0, <2>13 DEF P, x, SearchResult
<1> QED
  BY <1>3, <1>4
-----------------------------------------------------------------------------
(* The end of a submodule                                                  *)

\* More entries behind those of a reader change nothing about its places.
LEMMA PlacesLonger ==
  ASSUME NEW m, NEW r \in Frame, Position(m, r), m[r.obj] \in Obj,
         NEW more \in Seq(Entry)
  PROVE  Places(m[r.obj].file, m[r.obj].inc \o more, r.aux)
<1> DEFINE f == m[r.obj].file
           inc == m[r.obj].inc
           c == Count(f, "include")
<1>1. f \in Files /\ inc \in Seq(Entry)
  BY DEF Obj
<1>2. r.at \in Nat /\ r.at - 1 \in Nat /\ r.aux \in Nat
  BY DEF Frame
<1>3. /\ r.at <= Len(Doc[f].stmts) + 1 /\ r.aux = Cardinality(Includes(f, r.at - 1)) + 1
      /\ Places(f, inc, r.aux)
  BY DEF Position
<1>4. Len(Doc[f].stmts) \in Nat
  BY <1>1, DocFacts
<1>5. r.at - 1 <= Len(Doc[f].stmts)
  BY <1>2, <1>3, <1>4
<1>6. c \in Nat /\ Cardinality(Includes(f, r.at - 1)) \in Nat /\ Cardinality(Includes(f, r.at - 1)) <= c
  BY <1>1, <1>2, <1>5, IncludesFacts
<1>7. /\ Len(inc) \in Nat /\ Len(more) \in Nat /\ Len(inc \o more) = Len(inc) + Len(more)
      /\ \A i \in 1..(Len(inc) + Len(more)) : i <= Len(inc) => (inc \o more)[i] = inc[i]
  BY <1>1, ConcatProperties, SeqFacts
<1>8. /\ Len(inc) >= c /\ \A i \in 1..(r.aux - 1) : i <= Len(inc) => ~inc[i].ext
      /\ \A i \in 1..c : i >= r.aux => inc[i].sub = None
  BY <1>3 DEF Places
<1> HIDE DEF f, inc, c
<1>9. r.aux - 1 <= c
  BY <1>2, <1>3, <1>6
<1>10. \A i \in 1..(r.aux - 1) : i <= Len(inc) /\ i \in 1..(Len(inc) + Len(more))
  <2>1. PICK b \in Nat, d \in Nat, g \in Nat, h \in Nat : b = r.aux /\ d = c /\ g = Len(inc) /\ h = Len(more)
    BY <1>2, <1>6, <1>7
  <2>2. b - 1 <= d /\ g >= d
    BY <1>8, <1>9, <2>1
  <2>3. \A i \in 1..(b - 1) : i <= g /\ i \in 1..(g + h)
    BY <2>2
  <2> QED
    BY <2>1, <2>3
<1>11. \A i \in 1..c : i <= Len(inc) /\ i \in 1..(Len(inc) + Len(more))
  <2>1. PICK d \in Nat, g \in Nat, h \in Nat : d = c /\ g = Len(inc) /\ h = Len(more)
    BY <1>6, <1>7
  <2>2. g >= d
    BY <1>8, <2>1
  <2>3. \A i \in 1..d : i <= g /\ i \in 1..(g + h)
    BY <2>2
  <2> QED
    BY <2>1, <2>3
<1>12. Len(inc \o more) >= c
  BY <1>6, <1>7, <1>8
<1>13. \A i \in 1..(r.aux - 1) : ~(inc \o more)[i].ext
  BY <1>7, <1>8, <1>10
<1>14. \A i \in 1..c : i >= r.aux => (inc \o more)[i].sub = None
  BY <1>7, <1>8, <1>11
<1> QED
  BY <1>12, <1>13, <1>14 DEF Places, f, inc, c

\* n is m with the imports imp and the includes more added to the main module y.
Adds(m, n, y, imp, more) ==
  /\ n \in [Addr -> Obj \cup {None}] /\ n[y] # None /\ \A x \in Addr : x # y => n[x] = m[x]
  /\ n[y].file = m[y].file /\ n[y].imp = m[y].imp \o imp /\ n[y].inc = m[y].inc \o more

\* What the innermost reader has becomes its main module's too.
LEMMA MergeKeeps ==
  ASSUME NEW m, NEW l, NEW s, Inv(m, l, s), s # << >>,
         NEW imp \in Seq(Range(m[Last(s).obj].imp)), NEW more \in Seq(Entry),
         \A i \in 1..Len(more) : more[i].sub \in Submodules(m, Last(s).obj) \cup {None},
         NEW n, Adds(m, n, Last(s).main, imp, more)
  PROVE  Inv(n, l, s)
<1> DEFINE o == Last(s).obj
           y == Last(s).main
<1>1. /\ o \in Addr /\ y \in Addr /\ m[o] # None /\ m[y] # None /\ y \notin Range(l) /\ s \in Seq(Frame)
      /\ Belongs(l, s, o, y) /\ Belongs(l, s, y, y)
  BY TopFacts
<1>2. Typed(m, l, s) /\ Readers(m, l, s) /\ Imports(m, l, s) /\ Positions(m, s)
  BY DEF Inv
<1> HIDE DEF o, y
<1>3. /\ n \in [Addr -> Obj \cup {None}] /\ n[y] # None /\ \A x \in Addr : x # y => n[x] = m[x]
  BY DEF Adds, y
<1>4. n[y].file = m[y].file /\ n[y].imp = m[y].imp \o imp /\ n[y].inc = m[y].inc \o more
  BY DEF Adds, y
<1>5. /\ m[y].imp \in Seq(Addr) /\ m[y].inc \in Seq(Entry) /\ Range(m[o].imp) \subseteq Addr /\ m[y] \in Obj
      /\ Len(m[y].inc) \in Nat
      /\ \A t : t \in Submodules(m, y) <=> t # None /\ \E i \in 1..Len(m[y].inc) : m[y].inc[i].sub = t
  BY <1>1, <1>2, ObjFacts DEF Typed
<1>6. Range(m[y].imp) \subseteq Range(n[y].imp) /\ Range(n[y].imp) \subseteq Range(l)
  <2>1. Range(m[o].imp) \subseteq Range(l) /\ Range(m[y].imp) \subseteq Range(l)
    BY <1>1, <1>2 DEF Imports
  <2>2. imp \in Seq(Range(m[o].imp))
    BY DEF o
  <2>3. Range(imp) \subseteq Range(m[o].imp)
    BY <2>2, RangeOfSeq
  <2>4. imp \in Seq(Addr)
    BY <1>5, <2>2
  <2>5. Range(m[y].imp \o imp) = Range(m[y].imp) \cup Range(imp)
    BY <1>5, <2>4, RangeConcatenation
  <2> QED
    BY <1>4, <2>1, <2>3, <2>5
<1>7. Submodules(m, y) \subseteq Submodules(n, y) /\ Submodules(n, y) \subseteq Submodules(m, y) \cup Submodules(m, o)
  <2> DEFINE q == m[y].inc \o more
             a == Len(m[y].inc)
             b == Len(more)
  <2>1. /\ a \in Nat /\ b \in Nat /\ Len(q) = a + b
        /\ \A i \in 1..(a + b) : q[i] = IF i <= a THEN m[y].inc[i] ELSE more[i - a]
    BY <1>5, ConcatProperties, SeqFacts
  <2>2. \A t : t \in Submodules(n, y) <=> t # None /\ \E i \in 1..Len(n[y].inc) : n[y].inc[i].sub = t
    BY <1>1, <1>3, ObjFacts
  <2> HIDE DEF q
  <2>3. \A t : t \in Submodules(n, y) <=> t # None /\ \E i \in 1..(a + b) : q[i].sub = t
    BY <1>4, <2>1, <2>2 DEF q
  <2>4. \A i \in 1..b : more[i].sub \in Submodules(m, o) \cup {None}
    BY DEF o
  <2> HIDE DEF a, b
  <2>5. ASSUME NEW t \in Submodules(m, y) PROVE t \in Submodules(n, y)
    <3>1. PICK i \in 1..a : m[y].inc[i].sub = t
      BY <1>5, <2>5 DEF a
    <3>2. i \in 1..(a + b) /\ i <= a
      BY <2>1, <3>1
    <3> QED
      BY <1>5, <2>1, <2>3, <2>5, <3>1, <3>2
  <2>6. ASSUME NEW t \in Submodules(n, y) PROVE t \in Submodules(m, y) \cup Submodules(m, o)
    <3>1. PICK i \in 1..(a + b) : q[i].sub = t
      BY <2>3, <2>6
    <3>2. t # None
      BY <2>3, <2>6
    <3>3. CASE i <= a
      <4>1. i \in 1..a /\ m[y].inc[i].sub = t
        BY <2>1, <3>1, <3>3
      <4> QED
        BY <1>5, <3>2, <4>1 DEF a
    <3>4. CASE ~(i <= a)
      <4>1. i - a \in 1..b
        BY <2>1, <3>1, <3>4
      <4>2. more[i - a].sub = t
        BY <2>1, <3>1, <3>4
      <4> QED
        BY <2>4, <3>2, <4>1, <4>2
    <3> QED
      BY <3>3, <3>4
  <2> QED
    BY <2>5, <2>6
<1>8. Grows(m, n, l, s, y, y)
  <2>1. \A t \in Submodules(m, y) \cup Submodules(m, o) : m[t] # None /\ \A v, z \in Addr :
          Belongs(l, s, v, z) => t # v /\ (z # y => t \notin Submodules(m, v))
    BY <1>1, OwnApart
  <2> QED
    BY <1>3, <1>4, <1>6, <1>7, <2>1 DEF Grows
<1>9. Advances(s, s, y)
  BY <1>1 DEF Advances
<1>10. ASSUME NEW k \in DOMAIN s, s[k].obj = y PROVE Position(n, s[k])
  <2>1. s[k] \in Frame /\ Position(m, s[k]) /\ m[s[k].obj] \in Obj
    BY <1>1, <1>2, <1>5, <1>10, SeqFacts DEF Positions
  <2>2. Places(m[s[k].obj].file, m[s[k].obj].inc \o more, s[k].aux)
    BY <2>1, PlacesLonger
  <2>3. ASSUME NEW st, Satisfied(m, y, st) PROVE Satisfied(n, y, st)
    <3>1. \A x \in Range(m[y].imp) \cup Submodules(m, y) : x \in Addr
      BY <1>1, <1>2, ObjFacts DEF Typed
    <3>2. \A x \in Range(m[y].imp) \cup Submodules(m, y) : n[x].file = m[x].file
      BY <1>3, <1>4, <3>1
    <3> QED
      BY <1>6, <1>7, <2>3, <3>2, SatisfiedKept
  <2>4. /\ s[k].at <= Len(Doc[m[y].file].stmts) + 1
        /\ s[k].aux = Cardinality(Includes(m[y].file, s[k].at - 1)) + 1
        /\ \A i \in 1..(s[k].at - 1) : Satisfied(m, y, Doc[m[y].file].stmts[i])
    BY <1>10, <2>1 DEF Position
  <2> QED
    BY <1>4, <1>10, <2>2, <2>3, <2>4 DEF Position
<1> QED
  BY <1>1, <1>3, <1>8, <1>9, <1>10, GrowKeeps
-----------------------------------------------------------------------------
(* The end of a module                                                     *)

\* A module that is complete enters the list.
LEMMA ListKeeps ==
  ASSUME NEW m, NEW l, NEW s, Inv(m, l, s), s # << >>, Last(s).obj = Last(s).main,
         Last(s).at > Len(File(m, Last(s).obj).stmts),
         \A i \in DOMAIN l : File(m, l[i]).ns = File(m, Last(s).obj).ns => File(m, l[i]).name = File(m, Last(s).obj).name
  PROVE  Inv(m, Append(l, Last(s).obj), Front(s))
<1> DEFINE r == Last(s)
           o == r.obj
           b == Front(s)
           l2 == Append(l, o)
           len == Len(l)
<1>1. /\ Typed(m, l, s) /\ Readers(m, l, s) /\ Families(m, l, s) /\ Imports(m, l, s) /\ Context(m, l)
  BY DEF Inv
<1>2. Typed(m, l, b) /\ Readers(m, l, b) /\ Positions(m, b)
  BY PopKeeps DEF Inv
<1>3. /\ o \in Addr /\ m[o] # None /\ r.at \in Nat /\ Belongs(l, s, o, o) /\ IsModule(m, o) /\ Position(m, r)
      /\ \A k \in DOMAIN s : s[k].obj = o => k = Len(s)
  BY TopFacts
<1>4. /\ \A k \in DOMAIN b : b[k] = s[k] /\ k \in DOMAIN s /\ k # Len(s)
  <2>1. s \in Seq(Frame) /\ Len(s) \in Nat /\ DOMAIN s = 1..Len(s)
    BY <1>1, SeqFacts DEF Typed
  <2>2. DOMAIN b = 1..(Len(s) - 1) /\ \A k \in 1..(Len(s) - 1) : b[k] = s[k] /\ k \in 1..Len(s)
    BY <2>1, FrontFacts
  <2>3. \A n \in Nat : \A k \in 1..(n - 1) : k # n
    OBVIOUS
  <2> QED
    BY <2>1, <2>2, <2>3
<1>5. /\ l2 \in Seq(Addr) /\ Range(l2) = Range(l) \cup {o} /\ len \in Nat
      /\ DOMAIN l2 = 1..(len + 1) /\ DOMAIN l = 1..len /\ l2[len + 1] = o /\ \A i \in 1..len : l2[i] = l[i]
  <2>1. l \in Seq(Addr)
    BY <1>1 DEF Typed
  <2>2. l2 \in Seq(Addr) /\ Range(l2) = Range(l) \cup {o}
    BY <1>3, <2>1, AppendRange
  <2>3. Len(l2) = len + 1 /\ l2[len + 1] = o /\ \A i \in 1..len : l2[i] = l[i]
    BY <1>3, <2>1, AppendProperties
  <2>4. len \in Nat /\ DOMAIN l = 1..len
    BY <2>1, SeqFacts
  <2>5. DOMAIN l2 = 1..Len(l2)
    BY <2>2, SeqFacts
  <2> HIDE DEF l2, len
  <2> QED
    BY <2>2, <2>3, <2>4, <2>5
<1>6. \A k \in DOMAIN b : b[k].obj # o
  BY <1>3, <1>4
<1> HIDE DEF b, l2, len
<1>7. \A x, y : Belongs(l2, b, x, y) => Belongs(l, s, x, y)
  BY <1>3, <1>4, <1>5 DEF Belongs
<1>8. Typed(m, l2, b)
  BY <1>2, <1>5 DEF Typed
<1>9. Readers(m, l2, b)
  BY <1>2, <1>3, <1>5, <1>6 DEF Readers
<1>10. Families(m, l2, b) /\ Imports(m, l2, b)
  BY <1>1, <1>5, <1>7 DEF Families, Imports
<1>11. Context(m, l2)
  <2>1. ASSUME NEW st \in Range(File(m, o).stmts) PROVE Satisfied(m, o, st)
    <3> DEFINE stmts == Doc[m[o].file].stmts
    <3>1. m[o].file \in Files
      BY <1>1, <1>3, ObjFacts DEF Typed
    <3>2. Len(stmts) \in Nat /\ DOMAIN stmts = 1..Len(stmts)
      BY <3>1, DocFacts
    <3>3. PICK i \in 1..Len(stmts) : stmts[i] = st
      BY <2>1, <3>2 DEF Range, File
    <3>4. r.at > Len(stmts)
      BY DEF File
    <3>5. i \in 1..(r.at - 1)
      BY <1>3, <3>2, <3>3, <3>4
    <3>6. Satisfied(m, o, stmts[i])
      BY <1>3, <3>5 DEF Position
    <3> QED
      BY <3>3, <3>6
  <2>2. \A i, j \in DOMAIN l2 : File(m, l2[i]).ns = File(m, l2[j]).ns => File(m, l2[i]).name = File(m, l2[j]).name
    <3>1. \A i \in 1..(len + 1) : i \in 1..len \/ i = len + 1
      BY <1>5
    <3>2. \A i, j \in 1..len : File(m, l[i]).ns = File(m, l[j]).ns => File(m, l[i]).name = File(m, l[j]).name
      BY <1>1, <1>5 DEF Context
    <3>3. \A i \in 1..len : File(m, l[i]).ns = File(m, o).ns => File(m, l[i]).name = File(m, o).name
      BY <1>5
    <3> QED
      BY <1>5, <3>1, <3>2, <3>3
  <2> QED
    BY <1>1, <1>5, <2>1, <2>2 DEF Context
<1>12. Inv(m, l2, b)
  BY <1>2, <1>8, <1>9, <1>10, <1>11 DEF Inv
<1> QED
  BY <1>12 DEF l2, b

\* Setting the flag of modules and submodules leaves the rest alone.
LEMMA ImplementedKeeps ==
  ASSUME NEW m, NEW l, NEW s, Inv(m, l, s), NEW a \in Range(l)
  PROVE  Inv(Implemented(m, a), l, s) /\ \A x \in Addr : Implemented(m, a)[x].file = m[x].file
<1> DEFINE n == Implemented(m, a)
<1>1. Typed(m, l, s) /\ Readers(m, l, s) /\ Families(m, l, s)
  BY DEF Inv
<1>2. Belongs(l, s, a, a)
  BY DEF Belongs
<1>3. a \in Addr /\ m[a] # None
  BY <1>1, <1>2, BelongsFacts
<1>4. \A t \in Submodules(m, a) : m[t] # None
  BY <1>1, <1>2, <1>3 DEF Families
<1>5. ASSUME NEW x \in Addr
      PROVE  /\ n[x] \in Obj \cup {None} /\ n[x].file = m[x].file
             /\ m[x] # None => n[x] # None /\ n[x].imp = m[x].imp /\ n[x].inc = m[x].inc
  <2>1. CASE x = a \/ x \in Submodules(m, a)
    <3>1. m[x] # None /\ m[x] \in Obj
      BY <1>1, <1>3, <1>4, <2>1 DEF Typed
    <3>2. n[x] = [m[x] EXCEPT !.impl = TRUE]
      BY <2>1 DEF Implemented
    <3>3. /\ [m[x] EXCEPT !.impl = TRUE] \in Obj /\ [m[x] EXCEPT !.impl = TRUE].file = m[x].file
          /\ [m[x] EXCEPT !.impl = TRUE].imp = m[x].imp /\ [m[x] EXCEPT !.impl = TRUE].inc = m[x].inc
      BY <3>1 DEF Obj
    <3> HIDE DEF n
    <3>4. n[x] \in Obj /\ n[x].file = m[x].file /\ n[x].imp = m[x].imp /\ n[x].inc = m[x].inc
      BY <3>2, <3>3
    <3> QED
      BY <3>4, NoneType
  <2>2. CASE ~(x = a \/ x \in Submodules(m, a))
    <3>1. n[x] = m[x]
      BY <2>2 DEF Implemented
    <3> HIDE DEF n
    <3> QED
      BY <1>1, <3>1 DEF Typed
  <2> QED
    BY <2>1, <2>2
<1>6. n \in [Addr -> Obj \cup {None}]
  <2>1. n = [x \in Addr |-> n[x]]
    BY DEF Implemented
  <2> HIDE DEF n
  <2> QED
    BY <1>5, <2>1
<1> HIDE DEF n
<1>7. \A x \in Addr : Seen(m, l, s, x) =>
         n[x] # None /\ n[x].file = m[x].file /\ n[x].imp = m[x].imp /\ n[x].inc = m[x].inc
  BY <1>5, SeenLive
<1>8. Inv(n, l, s)
  BY <1>6, <1>7, Elsewhere
<1> QED
  BY <1>5, <1>8 DEF n
-----------------------------------------------------------------------------
(* The steps                                                               *)

\* The variables next to the memory, the list and the readers.
Rest ==
  /\ parsing \in Seq(STRING) /\ size \in Nat /\ setid \in 0..(SetIdMod - 1)
  /\ failing \in BOOLEAN /\ clb \in BOOLEAN /\ path \in Paths /\ (failing => stack # << >>)

\* The invariant is what holds of memory, list and readers, and the plain rest.
LEMMA InvParts == LoadInv <=> Inv(mem, list, stack) /\ Rest
  BY DEF LoadInv, TypeOK, Rest, Inv, Typed

\* The same of the next state.
LEMMA NextParts ==
  ASSUME Inv(mem', list', stack'), Rest'
  PROVE  LoadInv'
  BY DEF LoadInv, TypeOK, Rest, Inv, Typed

\* Nothing is known of a memory that nobody looks at.
LEMMA EmptyInv ==
  ASSUME NEW m \in [Addr -> Obj \cup {None}]
  PROVE  Inv(m, << >>, << >>)
<1>1. << >> \in Seq(Addr) /\ << >> \in Seq(Frame) /\ Range(<< >>) = {}
  BY DEF Range
<1>2. \A x, y : ~Belongs(<< >>, << >>, x, y)
  BY <1>1 DEF Belongs
<1>3. Typed(m, << >>, << >>) /\ Readers(m, << >>, << >>)
  BY <1>1 DEF Typed, Readers
<1>4. Families(m, << >>, << >>) /\ Imports(m, << >>, << >>)
  BY <1>2 DEF Families, Imports
<1>5. Positions(m, << >>) /\ Context(m, << >>)
  BY <1>1 DEF Positions, Context
<1> QED
  BY <1>3, <1>4, <1>5 DEF Inv

\* The empty context satisfies the invariant.
LEMMA InitInv == Init => LoadInv
<1> SUFFICES ASSUME Init PROVE LoadInv
  OBVIOUS
<1>1. mem \in [Addr -> Obj \cup {None}] /\ list = << >> /\ stack = << >>
  BY DEF Init
<1>2. Inv(mem, list, stack)
  BY <1>1, EmptyInv
<1>3. Rest
  <2>1. 1 \in 0..(SetIdMod - 1)
    BY DEF SetIdMod
  <2> QED
    <3>1. size \in Nat /\ parsing \in Seq(STRING)
      BY SizeType DEF Init
    <3>2. setid \in 0..(SetIdMod - 1)
      BY <2>1 DEF Init
    <3>3. failing \in BOOLEAN /\ clb \in BOOLEAN /\ path \in Paths /\ ~failing
      BY DEF Init
    <3> QED
      BY <3>1, <3>2, <3>3 DEF Rest
<1> QED
  BY <1>2, <1>3, InvParts

\* The rest is left alone, or a name more or less is being read.
LEMMA FrontType ==
  ASSUME NEW S, NEW q \in Seq(S)
  PROVE  Front(q) \in Seq(S)
<1>1. CASE q = << >>
  <2>1. Front(q) = << >>
    <3>1. Len(q) - 1 \in Int /\ 1 \in Int /\ Len(q) - 1 < 1
      BY <1>1
    <3> QED
      BY <3>1, SubSeqEmpty DEF Front
  <2> QED
    BY <2>1
<1>2. CASE q # << >>
  BY <1>2, FrontFacts
<1> QED
  BY <1>1, <1>2

\* A remainder modulo the width of module_set_id is below it.
LEMMA RemainderType ==
  ASSUME NEW n \in Int, NEW d \in Nat \ {0}
  PROVE  n % d \in 0..(d - 1)
  OBVIOUS

\* Reporting an error in a reader changes none of the structures.
LEMMA FailKeeps ==
  ASSUME LoadInv, Fail, stack # << >>, UNCHANGED path
  PROVE  LoadInv'
<1>1. Inv(mem, list, stack) /\ Rest
  BY InvParts
<1>2. Inv(mem', list', stack')
  BY <1>1 DEF Fail
<1>3. Rest'
  BY <1>1 DEF Fail, Rest
<1> QED
  BY <1>2, <1>3, NextParts

\* Freeing what a failed reader has read keeps the invariant.
LEMMA UnwindKeeps ==
  ASSUME LoadInv, Unwind, UNCHANGED path
  PROVE  LoadInv'
<1>1. Inv(mem, list, stack) /\ Rest
  BY InvParts
<1>2. stack # << >> /\ stack \in Seq(Frame)
  BY <1>1 DEF Rest, Unwind, Inv, Typed
<1>3. Inv(Freed(mem, Last(stack).obj), list, Front(stack))
  BY <1>1, <1>2, FreeKeeps
<1>4. Inv(mem', list', stack')
  BY <1>3 DEF Unwind, Top
<1>5. failing' => stack' # << >>
  <2>1. Len(Front(stack)) = Len(stack) - 1 /\ Len(stack) \in Nat
    BY <1>2, FrontFacts, SeqFacts
  <2>2. Len(stack) > 1 => Len(Front(stack)) # 0
    BY <2>1
  <2>3. Len(<< >>) = 0
    OBVIOUS
  <2>4. stack' = Front(stack) /\ (failing' => Len(stack) > 1)
    BY DEF Unwind
  <2> QED
    BY <2>2, <2>3, <2>4
<1>6. parsing' \in Seq(STRING)
  BY <1>1, FrontType DEF Rest, Unwind
<1>7. failing' \in BOOLEAN
  BY DEF Unwind
<1>8. size' = size /\ setid' = setid /\ clb' = clb /\ path' = path
  BY DEF Unwind
<1>9. Rest'
  BY <1>1, <1>5, <1>6, <1>7, <1>8 DEF Rest
<1> QED
  BY <1>4, <1>9, NextParts

\* What AtStatement and AtBody say.
LEMMA AtFacts ==
  ASSUME LoadInv, NEW kind, AtStatement(kind)
  PROVE  /\ stack # << >> /\ ~failing
         /\ Last(stack).at <= Len(File(mem, Last(stack).obj).stmts)
         /\ File(mem, Last(stack).obj).stmts[Last(stack).at].kind = kind
         /\ Stmt = File(mem, Last(stack).obj).stmts[Last(stack).at]
         /\ Stmt.name \in STRING /\ Stmt.rev \in Nat
<1>1. Inv(mem, list, stack)
  BY InvParts
<1>2. /\ stack # << >> /\ ~failing
      /\ Last(stack).at <= Len(File(mem, Last(stack).obj).stmts)
      /\ Stmt = File(mem, Last(stack).obj).stmts[Last(stack).at] /\ Stmt.kind = kind
  BY DEF AtStatement, Stmt, Top
<1>3. Last(stack).obj \in Addr /\ mem[Last(stack).obj] # None /\ Last(stack).at \in Nat /\ Last(stack).at > 0
  BY <1>1, <1>2, TopFacts
<1>4. mem[Last(stack).obj].file \in Files
  BY <1>1, <1>3, ObjFacts DEF Inv, Typed
<1>5. /\ Len(File(mem, Last(stack).obj).stmts) \in Nat
      /\ \A i \in 1..Len(File(mem, Last(stack).obj).stmts) : File(mem, Last(stack).obj).stmts[i] \in Statement
  BY <1>4, DocFacts DEF File
<1>6. Last(stack).at \in 1..Len(File(mem, Last(stack).obj).stmts)
  BY <1>2, <1>3, <1>5
<1>7. Stmt \in Statement
  BY <1>2, <1>5, <1>6
<1> QED
  BY <1>2, <1>7 DEF Statement

\* A fresh address is one that nothing is allocated at.
LEMMA FreeFacts ==
  ASSUME LoadInv, Free # {}
  PROVE  FreeAddr \in Addr /\ mem[FreeAddr] = None
<1>1. Free \in SUBSET Nat
  BY AddrType DEF Free
<1>2. FreeAddr \in Free
  BY <1>1, MinFacts DEF FreeAddr
<1> QED
  BY <1>2 DEF Free

\* A module that ly_ctx_get_module returns is in the context and has the name asked for.
LEMMA FoundFacts ==
  ASSUME LoadInv, NEW name, NEW rev, NEW f \in Found(name, rev)
  PROVE  f \in Files /\ f \in path /\ Doc[f].name = name
<1>1. f \in path /\ Doc[f].name = name /\ path \in Paths
  BY InvParts DEF Found, Rest
<1> QED
  BY <1>1 DEF Files
\* The readers are as many, whatever one of them is at.
LEMMA StillReading ==
  ASSUME NEW s \in Seq(Frame), s # << >>, NEW i, NEW e
  PROVE  [s EXCEPT ![i] = e] # << >>
<1>1. DOMAIN [s EXCEPT ![i] = e] = DOMAIN s /\ 1 \in DOMAIN s
  <2>1. Len(s) \in Nat /\ Len(s) > 0 /\ DOMAIN s = 1..Len(s)
    BY SeqFacts
  <2>2. 1 \in 1..Len(s)
    BY <2>1
  <2> QED
    BY <2>1, <2>2
<1>2. DOMAIN << >> = {}
  OBVIOUS
<1> QED
  BY <1>1, <1>2

\* Recording an import of a module of the context keeps the invariant.
LEMMA ImportedKeeps ==
  ASSUME NEW m, NEW l, NEW s, Inv(m, l, s), s # << >>,
         Last(s).at <= Len(File(m, Last(s).obj).stmts),
         File(m, Last(s).obj).stmts[Last(s).at].kind = "import",
         NEW a \in Range(l), File(m, a).name = File(m, Last(s).obj).stmts[Last(s).at].name,
         Imported(m, s, a)
  PROVE  Inv(mem', l, stack') /\ stack' # << >> /\ failing' \in BOOLEAN
<1>1. /\ mem' = [m EXCEPT ![Last(s).obj].imp = Append(@, a)]
      /\ stack' = [s EXCEPT ![Len(s)].at = @ + 1]
      /\ failing' \in BOOLEAN
  BY DEF Imported
<1>2. Inv([m EXCEPT ![Last(s).obj].imp = Append(@, a)], l, [s EXCEPT ![Len(s)].at = @ + 1])
  BY ImportKeeps
<1>3. stack' # << >>
  <2>1. s \in Seq(Frame)
    BY TopFacts
  <2> QED
    BY <1>1, <2>1, StillReading
<1> QED
  BY <1>1, <1>2, <1>3

\* An import of a module the context has.
LEMMA ImportFoundKeeps ==
  ASSUME LoadInv, import_found, UNCHANGED path
  PROVE  LoadInv'
<1> DEFINE a == ly_ctx_get_module(mem, list, Stmt.name, Stmt.rev)
<1>1. Inv(mem, list, stack) /\ Rest
  BY InvParts
<1>2. /\ AtStatement("import") /\ a # None /\ Imported(mem, stack, a)
      /\ list' = list /\ size' = size /\ setid' = setid /\ parsing' = parsing /\ clb' = clb
  BY DEF import_found
<1>3. /\ stack # << >>
      /\ Last(stack).at <= Len(File(mem, Last(stack).obj).stmts)
      /\ File(mem, Last(stack).obj).stmts[Last(stack).at].kind = "import"
      /\ Stmt = File(mem, Last(stack).obj).stmts[Last(stack).at]
      /\ Stmt.name \in STRING /\ Stmt.rev \in Nat
  BY <1>2, AtFacts
<1>4. list \in Seq(Addr) /\ \A x \in Range(list) : File(mem, x).rev \in Nat
  <2>1. Typed(mem, list, stack) /\ Readers(mem, list, stack)
    BY <1>1 DEF Inv
  <2>2. list \in Seq(Addr) /\ Range(list) \subseteq Addr /\ \A x \in Range(list) : mem[x] # None
    BY <2>1, RangeOfSeq DEF Typed, Readers
  <2>3. \A x \in Range(list) : mem[x].file \in Files
    BY <2>1, <2>2, ObjFacts DEF Typed
  <2> QED
    BY <2>2, <2>3, DocFacts DEF File
<1>5. a \in Range(list) /\ File(mem, a).name = Stmt.name
  <2>1. SearchResult(mem, list, Stmt.name, Stmt.rev, a)
    BY <1>3, <1>4, SearchFacts
  <2> QED
    BY <1>2, <2>1 DEF SearchResult
<1> HIDE DEF a
<1>6. Inv(mem', list, stack') /\ stack' # << >> /\ failing' \in BOOLEAN
  BY <1>1, <1>2, <1>3, <1>5, ImportedKeeps
<1>7. Inv(mem', list', stack') /\ Rest'
  BY <1>1, <1>2, <1>6 DEF Rest
<1> QED
  BY <1>7, NextParts

\* A reader starts.
LEMMA ReadKeeps ==
  ASSUME LoadInv, NEW f \in Files, NEW implement \in BOOLEAN, Read(f, implement),
         stack # << >> => /\ Last(stack).at <= Len(File(mem, Last(stack).obj).stmts)
                          /\ File(mem, Last(stack).obj).stmts[Last(stack).at].name = Doc[f].name
                          /\ File(mem, Last(stack).obj).stmts[Last(stack).at].kind = "import"
  PROVE  Inv(mem', list, stack') /\ stack' # << >>
<1>1. Inv(mem, list, stack)
  BY InvParts
<1> DEFINE n == FreeAddr
<1>2. /\ Doc[f].kind = "module" /\ Free # {}
      /\ mem' = [mem EXCEPT ![n] = NewObj(f, implement)]
      /\ stack' = Append(stack, NewFrame(n, n, implement))
  BY DEF Read
<1>3. n \in Addr /\ mem[n] = None
  BY <1>2, FreeFacts
<1> HIDE DEF n
<1>4. Inv([mem EXCEPT ![n] = NewObj(f, implement)], list, Append(stack, NewFrame(n, n, implement)))
  <2>1. stack # << >> => /\ Last(stack).at <= Len(Doc[mem[Last(stack).obj].file].stmts)
                         /\ Doc[mem[Last(stack).obj].file].stmts[Last(stack).at].name = Doc[f].name
                         /\ Doc[mem[Last(stack).obj].file].stmts[Last(stack).at].kind = "import"
    BY DEF File
  <2> QED
    BY <1>1, <1>2, <1>3, <2>1, PushKeeps
<1>5. Append(stack, NewFrame(n, n, implement)) # << >>
  <2>1. stack \in Seq(Frame) /\ NewFrame(n, n, implement) \in Frame
    BY <1>1, <1>3 DEF Inv, Typed, NewFrame, Frame
  <2> QED
    BY <2>1, AppendProperties
<1> QED
  BY <1>2, <1>4, <1>5

\* An import that has to be loaded starts a reader.
LEMMA ImportLoadKeeps ==
  ASSUME LoadInv, NEW f, import_load(f), UNCHANGED path
  PROVE  LoadInv'
<1>1. Inv(mem, list, stack) /\ Rest
  BY InvParts
<1>2. /\ AtStatement("import") /\ f \in Found(Stmt.name, Stmt.rev) /\ Read(f, clb)
      /\ parsing' = Append(parsing, Stmt.name)
      /\ list' = list /\ size' = size /\ setid' = setid /\ failing' = failing /\ clb' = clb
  BY DEF import_load
<1>3. /\ stack # << >>
      /\ Last(stack).at <= Len(File(mem, Last(stack).obj).stmts)
      /\ File(mem, Last(stack).obj).stmts[Last(stack).at].kind = "import"
      /\ Stmt = File(mem, Last(stack).obj).stmts[Last(stack).at] /\ Stmt.name \in STRING
  BY <1>2, AtFacts
<1>4. f \in Files /\ Doc[f].name = Stmt.name
  BY <1>2, FoundFacts
<1>5. Inv(mem', list, stack') /\ stack' # << >>
  BY <1>1, <1>2, <1>3, <1>4, ReadKeeps DEF Rest
<1>6. parsing' \in Seq(STRING)
  BY <1>1, <1>2, <1>3, AppendProperties DEF Rest
<1>7. Inv(mem', list', stack') /\ Rest'
  BY <1>1, <1>2, <1>5, <1>6 DEF Rest
<1> QED
  BY <1>7, NextParts

\* A call of the context API starts a reader or returns.
LEMMA CallKeeps ==
  ASSUME LoadInv, Call
  PROVE  LoadInv'
<1>1. Inv(mem, list, stack) /\ Rest /\ path' = path
  BY InvParts DEF Call
<1>2. ASSUME NEW f \in Files, NEW implement \in BOOLEAN, Idle, Read(f, implement),
             UNCHANGED <<list, size, setid, parsing, failing, clb>>
      PROVE  LoadInv'
  <2>1. Inv(mem', list, stack') /\ stack' # << >>
    BY <1>2, ReadKeeps DEF Idle
  <2>2. Rest'
    BY <1>1, <1>2, <2>1 DEF Rest
  <2> QED
    BY <1>2, <2>1, <2>2, NextParts
<1>3. ASSUME NEW f \in path, lys_parse_mem(f) PROVE LoadInv'
  <2>1. f \in Files
    BY <1>1, <1>3 DEF Rest, Files
  <2> QED
    BY <1>2, <1>3, <2>1 DEF lys_parse_mem
<1>4. ASSUME NEW name, NEW rev, ly_ctx_load_module(name, rev) PROVE LoadInv'
  <2>1. PICK f \in Found(name, rev) : Read(f, clb)
    BY <1>4 DEF ly_ctx_load_module
  <2>2. f \in Files /\ clb \in BOOLEAN
    BY <1>1, FoundFacts DEF Rest
  <2> QED
    BY <1>2, <1>4, <2>1, <2>2 DEF ly_ctx_load_module
<1>5. CASE ly_ctx_set_module_clb
  <2>1. /\ mem' = mem /\ list' = list /\ stack' = stack /\ clb' \in BOOLEAN
        /\ size' = size /\ setid' = setid /\ parsing' = parsing /\ failing' = failing
    BY <1>1, <1>5 DEF ly_ctx_set_module_clb, Rest
  <2>2. Inv(mem', list', stack') /\ Rest'
    BY <1>1, <2>1 DEF Rest
  <2> QED
    BY <2>2, NextParts
<1>6. CASE ly_ctx_destroy
  <2>1. /\ stack' = << >> /\ list' = << >> /\ size' = InitSize /\ setid' = 1 /\ parsing' = parsing
        /\ failing' = failing /\ clb' = clb /\ stack = << >>
        /\ mem' = Released(mem, UNION {Family(mem, a) : a \in Range(list)})
    BY <1>6 DEF ly_ctx_destroy, Idle
  <2>2. mem' \in [Addr -> Obj \cup {None}]
    BY <1>1, <2>1 DEF Inv, Typed, Released
  <2>3. Inv(mem', list', stack')
    BY <2>1, <2>2, EmptyInv
  <2>4. 1 \in 0..(SetIdMod - 1) /\ InitSize \in Nat
    BY SizeType DEF SetIdMod
  <2>5. Rest'
    BY <1>1, <2>1, <2>4 DEF Rest
  <2> QED
    BY <2>3, <2>5, NextParts
<1> QED
  BY <1>3, <1>4, <1>5, <1>6 DEF Call
\* An include that has to be loaded starts a reader of the submodule.
LEMMA IncludeLoadKeeps ==
  ASSUME LoadInv, NEW f, include_load(f), UNCHANGED path
  PROVE  LoadInv'
<1> DEFINE n == FreeAddr
           y == Last(stack).main
<1>1. Inv(mem, list, stack) /\ Rest
  BY InvParts
<1>2. /\ AtStatement("include") /\ f \in Found(Stmt.name, Stmt.rev) /\ Doc[f].kind = "submodule" /\ Free # {}
      /\ mem' = [mem EXCEPT ![n] = NewObj(f, FALSE)]
      /\ stack' = Append(stack, NewFrame(n, y, FALSE))
      /\ parsing' = Append(parsing, Stmt.name)
      /\ list' = list /\ size' = size /\ setid' = setid /\ failing' = failing /\ clb' = clb
  BY DEF include_load, Top
<1>3. /\ stack # << >>
      /\ Last(stack).at <= Len(Doc[mem[Last(stack).obj].file].stmts)
      /\ Doc[mem[Last(stack).obj].file].stmts[Last(stack).at].kind = "include"
      /\ Stmt = Doc[mem[Last(stack).obj].file].stmts[Last(stack).at] /\ Stmt.name \in STRING
  BY <1>2, AtFacts DEF File
<1>4. f \in Files /\ Doc[f].name = Stmt.name
  BY <1>2, FoundFacts
<1>5. n \in Addr /\ mem[n] = None
  BY <1>2, FreeFacts
<1>6. y \in Addr /\ mem[y] # None /\ stack \in Seq(Frame)
  BY <1>1, <1>3, TopFacts
<1> HIDE DEF n, y
<1>7. Inv([mem EXCEPT ![n] = NewObj(f, FALSE)], list, Append(stack, NewFrame(n, y, FALSE)))
  <2>1. n # y /\ Doc[f].kind # "module" /\ Last(stack).main = y
    BY <1>2, <1>5, <1>6 DEF y
  <2>2. /\ Last(stack).at <= Len(Doc[mem[Last(stack).obj].file].stmts)
        /\ Doc[mem[Last(stack).obj].file].stmts[Last(stack).at].name = Doc[f].name
        /\ Doc[mem[Last(stack).obj].file].stmts[Last(stack).at].kind = "include"
    BY <1>3, <1>4
  <2> QED
    BY <1>1, <1>3, <1>4, <1>5, <1>6, <2>1, <2>2, PushKeeps
<1>8. stack' # << >>
  <2>1. NewFrame(n, y, FALSE) \in Frame
    BY <1>5, <1>6 DEF NewFrame, Frame
  <2> QED
    BY <1>2, <1>6, <2>1, AppendProperties
<1>9. parsing' \in Seq(STRING)
  BY <1>1, <1>2, <1>3, AppendProperties DEF Rest
<1>10. Inv(mem', list', stack') /\ Rest'
  BY <1>1, <1>2, <1>7, <1>8, <1>9 DEF Rest
<1> QED
  BY <1>10, NextParts

\* An include that is recorded puts one entry and lets the reader go on.
LEMMA IncludedFacts ==
  ASSUME NEW m, NEW s \in Seq(Frame), s # << >>, NEW e, Included(m, s, e)
  PROVE  /\ PutAt(m, mem', Last(s).obj, Last(s).aux, e) /\ GoesOn(s, stack')
         /\ stack' # << >> /\ failing' \in BOOLEAN
<1>1. /\ mem' = [m EXCEPT ![Last(s).obj].inc[Last(s).aux] = e]
      /\ stack' = [s EXCEPT ![Len(s)].at = @ + 1, ![Len(s)].aux = @ + 1]
      /\ failing' \in BOOLEAN
  BY DEF Included
<1>2. PutAt(m, mem', Last(s).obj, Last(s).aux, e) /\ GoesOn(s, stack')
  BY <1>1 DEF PutAt, GoesOn
<1>3. stack' # << >>
  <2>1. DOMAIN stack' = DOMAIN s /\ 1 \in DOMAIN s
    <3>1. Len(s) \in Nat /\ Len(s) > 0 /\ DOMAIN s = 1..Len(s)
      BY SeqFacts
    <3>2. 1 \in 1..Len(s)
      BY <3>1
    <3> QED
      BY <1>1, <3>1, <3>2
  <2>2. DOMAIN << >> = {}
    OBVIOUS
  <2> QED
    BY <2>1, <2>2
<1> QED
  BY <1>1, <1>2, <1>3

\* An include of a submodule the module already has.
LEMMA IncludeKnownKeeps ==
  ASSUME LoadInv, include_known, UNCHANGED path
  PROVE  LoadInv'
<1> DEFINE o == Last(stack).obj
           y == Last(stack).main
           i == Min(Known)
           d == mem[y].inc[i]
           e == [d EXCEPT !.ext = FALSE]
           m1 == [mem EXCEPT ![y].inc = RemoveAt(@, i)]
<1>1. Inv(mem, list, stack) /\ Rest
  BY InvParts
<1>2. /\ AtStatement("include") /\ Known # {}
      /\ Included(IF o = y /\ d.ext THEN m1 ELSE mem, stack, e)
      /\ list' = list /\ size' = size /\ setid' = setid /\ parsing' = parsing /\ clb' = clb
  BY DEF include_known, Top
<1>3. /\ stack # << >>
      /\ Last(stack).at <= Len(File(mem, o).stmts)
      /\ File(mem, o).stmts[Last(stack).at].kind = "include"
      /\ Stmt = File(mem, o).stmts[Last(stack).at]
  BY <1>2, AtFacts
<1>4. y \in Addr /\ mem[y] # None /\ stack \in Seq(Frame) /\ Belongs(list, stack, y, y)
  BY <1>1, <1>3, TopFacts
<1>5. /\ Len(mem[y].inc) \in Nat /\ DOMAIN mem[y].inc = 1..Len(mem[y].inc)
      /\ \A j \in 1..Len(mem[y].inc) : mem[y].inc[j] \in Entry
      /\ Submodules(mem, y) \subseteq Addr
      /\ \A t : t \in Submodules(mem, y) <=> t # None /\ \E j \in 1..Len(mem[y].inc) : mem[y].inc[j].sub = t
  BY <1>1, <1>4, ObjFacts DEF Inv, Typed
<1>6. i \in 1..Len(mem[y].inc) /\ d.sub # None /\ File(mem, d.sub).name = Stmt.name
  <2>1. \A j \in Known : j \in 1..Len(mem[y].inc) /\ mem[y].inc[j].sub # None /\ File(mem, mem[y].inc[j].sub).name = Stmt.name
    BY <1>5 DEF Known, Top
  <2>2. Known \in SUBSET Nat
    BY <1>5, <2>1
  <2>3. Min(Known) \in Known
    BY <1>2, <2>2, MinFacts
  <2> QED
    BY <2>1, <2>3
<1>7. d \in Entry /\ d.sub \in Submodules(mem, y)
  BY <1>5, <1>6
<1>8. e \in Entry /\ ~e.ext /\ e.sub = d.sub
  <2> HIDE DEF d
  <2> QED
    BY <1>7 DEF Entry
<1>9. ReadsInclude(mem, stack, e.sub)
  <2> HIDE DEF e, d
  <2> QED
    BY <1>3, <1>6, <1>8 DEF ReadsInclude
<1>10. Apart(mem, list, stack, e.sub)
  <2> HIDE DEF e, d
  <2>1. mem[e.sub] # None /\ \A v, z \in Addr :
          Belongs(list, stack, v, z) => e.sub # v /\ (z # y => e.sub \notin Submodules(mem, v))
    BY <1>1, <1>4, <1>7, <1>8, OwnApart
  <2>2. e.sub \in Addr
    BY <1>5, <1>7, <1>8
  <2> QED
    BY <2>1, <2>2 DEF Apart
<1>11. CASE o = y /\ d.ext
  <2>1. Included(m1, stack, e)
    BY <1>2, <1>11
  <2>2. TakenOut(mem, m1, o, i)
    BY <1>11 DEF TakenOut
  <2>3. i \in 1..Len(mem[o].inc) /\ mem[o].inc[i].ext /\ mem[o].inc[i].sub # None /\ e.sub = mem[o].inc[i].sub
    BY <1>6, <1>8, <1>11
  <2> HIDE DEF e, d, m1, i
  <2>4. /\ PutAt(m1, mem', o, Last(stack).aux, e) /\ GoesOn(stack, stack')
        /\ stack' # << >> /\ failing' \in BOOLEAN
    BY <1>3, <1>4, <2>1, IncludedFacts
  <2>5. Inv(mem', list, stack')
    BY <1>1, <1>8, <1>9, <2>2, <2>3, <2>4, MoveKeeps
  <2>6. Inv(mem', list', stack') /\ Rest'
    BY <1>1, <1>2, <2>4, <2>5 DEF Rest
  <2> QED
    BY <2>6, NextParts
<1>12. CASE ~(o = y /\ d.ext)
  <2>1. Included(mem, stack, e)
    BY <1>2, <1>12
  <2> HIDE DEF e, d, m1, i
  <2>4. /\ PutAt(mem, mem', o, Last(stack).aux, e) /\ GoesOn(stack, stack')
        /\ stack' # << >> /\ failing' \in BOOLEAN
    BY <1>3, <1>4, <2>1, IncludedFacts
  <2>5. Inv(mem', list, stack')
    BY <1>1, <1>8, <1>9, <1>10, <2>4, PutKeeps
  <2>6. Inv(mem', list', stack') /\ Rest'
    BY <1>1, <1>2, <2>4, <2>5 DEF Rest
  <2> QED
    BY <2>6, NextParts
<1> QED
  BY <1>11, <1>12

\* An include of a document that is no submodule.
LEMMA IncludeWrongKeeps ==
  ASSUME LoadInv, NEW f, include_wrong(f), UNCHANGED path
  PROVE  LoadInv'
<1> DEFINE o == Last(stack).obj
<1>1. Inv(mem, list, stack) /\ Rest
  BY InvParts
<1>2. /\ AtStatement("include") /\ failing' = TRUE
      /\ stack' = [i \in DOMAIN stack |->
                     IF stack[i].main = Top.main THEN [stack[i] EXCEPT !.unres = FALSE] ELSE stack[i]]
      /\ mem' = mem /\ list' = list /\ size' = size /\ setid' = setid /\ parsing' = parsing /\ clb' = clb
  BY DEF include_wrong
<1>3. stack # << >>
  BY <1>2, AtFacts
<1>4. /\ o \in Addr /\ mem[o] # None /\ o \notin Range(list) /\ Belongs(list, stack, o, Last(stack).main)
      /\ stack \in Seq(Frame)
  BY <1>1, <1>3, TopFacts
<1>5. Typed(mem, list, stack) /\ Imports(mem, list, stack) /\ Positions(mem, stack)
  BY <1>1 DEF Inv
<1>6. Len(stack) \in Nat /\ Len(stack) > 0 /\ DOMAIN stack = 1..Len(stack) /\ \A k \in 1..Len(stack) : stack[k] \in Frame
  BY <1>3, <1>4, SeqFacts
<1>7. ASSUME NEW k \in DOMAIN stack
      PROVE  /\ stack'[k] \in Frame /\ stack'[k].obj = stack[k].obj /\ stack'[k].main = stack[k].main
             /\ stack'[k].at = stack[k].at /\ stack'[k].aux = stack[k].aux
  <2>1. /\ [stack[k] EXCEPT !.unres = FALSE] \in Frame /\ [stack[k] EXCEPT !.unres = FALSE].obj = stack[k].obj
        /\ [stack[k] EXCEPT !.unres = FALSE].main = stack[k].main
        /\ [stack[k] EXCEPT !.unres = FALSE].at = stack[k].at /\ [stack[k] EXCEPT !.unres = FALSE].aux = stack[k].aux
    BY <1>6 DEF Frame
  <2>2. stack'[k] = IF stack[k].main = Top.main THEN [stack[k] EXCEPT !.unres = FALSE] ELSE stack[k]
    BY <1>2
  <2> QED
    BY <1>6, <2>1, <2>2
<1>8. stack' \in Seq(Frame) /\ Len(stack') = Len(stack) /\ stack' # << >>
  <2>1. DOMAIN stack' = 1..Len(stack) /\ stack' = [k \in 1..Len(stack) |-> stack'[k]]
    BY <1>2, <1>6
  <2>2. stack' \in Seq(Frame)
    BY <1>6, <1>7, <2>1, IsASeq
  <2>3. Len(stack') = Len(stack)
    BY <1>6, <2>1, <2>2
  <2> QED
    BY <1>6, <2>2, <2>3
<1>9. Advances(stack, stack', o)
  BY <1>7, <1>8 DEF Advances
<1>10. Grows(mem, mem, list, stack, o, Last(stack).main)
  <2>1. Range(mem[o].imp) \subseteq Range(list)
    BY <1>1, <1>4, <1>5, TopFacts, <1>3 DEF Imports
  <2>2. \A t \in Submodules(mem, o) : mem[t] # None /\ \A v, z \in Addr :
          Belongs(list, stack, v, z) => t # v /\ (z # Last(stack).main => t \notin Submodules(mem, v))
    BY <1>1, <1>4, OwnApart
  <2> QED
    BY <1>4, <2>1, <2>2 DEF Grows
<1>11. \A k \in DOMAIN stack : stack[k].obj = o => Position(mem, stack'[k])
  BY <1>5, <1>7 DEF Positions, Position
<1>12. mem \in [Addr -> Obj \cup {None}]
  BY <1>5 DEF Typed
<1>13. Inv(mem, list, stack')
  BY <1>1, <1>4, <1>9, <1>10, <1>11, <1>12, GrowKeeps
<1>14. Inv(mem', list', stack') /\ Rest'
  BY <1>1, <1>2, <1>8, <1>13 DEF Rest
<1> QED
  BY <1>14, NextParts
\* The reader below the innermost one waits for it.
LEMMA BelowFacts ==
  ASSUME NEW m, NEW l, NEW s, Inv(m, l, s), s # << >>, Front(s) # << >>
  PROVE  LET b == Front(s)
             stmts == File(m, Last(b).obj).stmts
             st == stmts[Last(b).at] IN
         /\ Last(b).at <= Len(stmts) /\ st.name = File(m, Last(s).obj).name
         /\ st.kind = IF Last(s).obj = Last(s).main THEN "import" ELSE "include"
         /\ Last(b) = s[Len(s) - 1] /\ Len(s) > 1
<1> DEFINE b == Front(s)
           k == Len(s) - 1
<1>1. /\ s \in Seq(Frame) /\ Len(s) \in Nat /\ Positions(m, s) /\ DOMAIN s = 1..Len(s) /\ Last(s) = s[Len(s)]
  BY SeqFacts DEF Inv, Typed
<1>2. b \in Seq(Frame) /\ Len(b) = k /\ \A j \in 1..k : b[j] = s[j]
  BY <1>1, FrontFacts
<1>3. Len(b) > 0 /\ Last(b) = b[Len(b)] /\ Len(b) \in 1..Len(b)
  BY <1>2, SeqFacts
<1>4. k \in DOMAIN s /\ k < Len(s) /\ k + 1 = Len(s) /\ Len(s) > 1
  BY <1>1, <1>2, <1>3
<1>5. Last(b) = s[k]
  BY <1>2, <1>3
<1>6. Waits(m, s, k)
  BY <1>1, <1>4 DEF Positions
<1>7. Last(s) = s[k + 1]
  BY <1>1, <1>4
<1> QED
  BY <1>4, <1>5, <1>6, <1>7 DEF Waits, File

\* A submodule that has been read is the one its reader's caller wants, and new.
LEMMA SubmoduleRead ==
  ASSUME NEW m, NEW l, NEW s, Inv(m, l, s), s # << >>, Last(s).obj # Last(s).main
  PROVE  /\ Inv(m, l, Front(s)) /\ Front(s) # << >> /\ Front(s) \in Seq(Frame)
         /\ ReadsInclude(m, Front(s), Last(s).obj) /\ Apart(m, l, Front(s), Last(s).obj)
<1> DEFINE b == Front(s)
           o == Last(s).obj
<1>1. /\ s \in Seq(Frame) /\ Len(s) \in Nat /\ Len(s) \in DOMAIN s /\ Last(s) = s[Len(s)] /\ o \in Addr /\ m[o] # None
      /\ o \notin Range(l) /\ Belongs(l, s, o, Last(s).main) /\ Last(s).main \in Addr
      /\ \A k \in DOMAIN s : s[k].obj = o => k = Len(s)
  BY TopFacts
<1>2. Typed(m, l, s) /\ Readers(m, l, s) /\ Families(m, l, s)
  BY DEF Inv
<1>3. Len(s) > 1
  BY <1>1, <1>2 DEF Readers
<1>4. /\ b \in Seq(Frame) /\ Len(b) = Len(s) - 1 /\ DOMAIN b = 1..(Len(s) - 1)
      /\ \A k \in 1..(Len(s) - 1) : b[k] = s[k] /\ k \in DOMAIN s
  <2>1. DOMAIN s = 1..Len(s)
    BY <1>1, SeqFacts
  <2> QED
    BY <1>1, <2>1, FrontFacts
<1>5. b # << >>
  <2>1. Len(b) # 0
    BY <1>1, <1>3, <1>4
  <2> QED
    BY <2>1
<1>6. Inv(m, l, b)
  BY PopKeeps
<1>7. ReadsInclude(m, b, o)
  BY <1>5, BelowFacts DEF ReadsInclude
<1>8. Apart(m, l, b, o)
  <2>1. \A n \in Nat : \A k \in 1..(n - 1) : k # n
    OBVIOUS
  <2>2. \A k \in DOMAIN b : b[k] = s[k] /\ k \in DOMAIN s /\ k # Len(s)
    BY <1>1, <1>4, <2>1
  <2> HIDE DEF b, o
  <2>3. \A v, z : Belongs(l, b, v, z) => Belongs(l, s, v, z) /\ v # o
    BY <1>1, <2>2 DEF Belongs
  <2>4. \A v, z \in Addr : Belongs(l, b, v, z) => o \notin Submodules(m, v)
    BY <1>1, <1>2, <2>3 DEF Families
  <2> QED
    BY <1>1, <2>3, <2>4 DEF Apart
<1> QED
  BY <1>4, <1>5, <1>6, <1>7, <1>8

\* A submodule that was read is put into its place and merged into its module.
LEMMA SubmoduleDoneKeeps ==
  ASSUME LoadInv, submodule_done, UNCHANGED path
  PROVE  LoadInv'
<1> DEFINE o == Last(stack).obj
           y == Last(stack).main
           newimp == Missing(mem[o].imp, Range(mem[y].imp))
           newinc == Missing(mem[o].inc, {x \in Range(mem[o].inc) : x.sub \in Submodules(mem, y)})
           more == [i \in DOMAIN newinc |-> [newinc[i] EXCEPT !.ext = TRUE]]
           cap == IF newimp = << >> THEN mem[y].cap ELSE Room(mem[y].imp, newimp)
           m == [mem EXCEPT ![y].imp = @ \o newimp,
                            ![y].cap = IF newimp = << >> THEN @ ELSE Room(mem[y].imp, newimp),
                            ![y].inc = @ \o more]
           e == [sub |-> o, ext |-> FALSE]
<1>1. Inv(mem, list, stack) /\ Rest
  BY InvParts
<1>2. /\ AtBody("submodule") /\ list' = list /\ size' = size /\ setid' = setid /\ clb' = clb
      /\ \/ failing' = TRUE /\ mem' = mem /\ stack' = stack /\ parsing' = parsing
         \/ mem' = m /\ failing' = TRUE /\ stack' = stack /\ parsing' = parsing
         \/ Included(m, Front(stack), e) /\ parsing' = Front(parsing)
  BY DEF submodule_done, Top
<1>3. stack # << >> /\ File(mem, o).kind = "submodule"
  BY <1>2 DEF AtBody, Top
<1>4. /\ o \in Addr /\ y \in Addr /\ mem[o] # None /\ mem[y] # None /\ mem[y] \in Obj
      /\ mem \in [Addr -> Obj \cup {None}] /\ o # y
  <2>1. /\ o \in Addr /\ y \in Addr /\ mem[o] # None /\ mem[y] # None
        /\ mem \in [Addr -> Obj \cup {None}] /\ (IsModule(mem, o) <=> o = y)
    BY <1>1, <1>3, TopFacts DEF Inv, Typed
  <2> QED
    BY <1>3, <2>1 DEF IsModule
<1> HIDE DEF o, y
<1>5. /\ mem[o].imp \in Seq(Addr) /\ mem[o].inc \in Seq(Entry) /\ Range(mem[o].imp) \subseteq Addr
      /\ mem[y].imp \in Seq(Addr) /\ mem[y].inc \in Seq(Entry) /\ mem[y].cap \in Nat
      /\ \A t : t \in Submodules(mem, o) <=> t # None /\ \E i \in 1..Len(mem[o].inc) : mem[o].inc[i].sub = t
  BY <1>4, ObjFacts
<1>6. newimp \in Seq(Range(mem[o].imp)) /\ newimp \in Seq(Addr)
  <2>1. mem[o].imp \in Seq(Range(mem[o].imp))
    BY <1>5, SeqOfRange
  <2>2. newimp \in Seq(Range(mem[o].imp))
    BY <2>1, MissingType
  <2> HIDE DEF newimp
  <2> QED
    BY <1>5, <2>2
<1>7. newinc \in Seq(Range(mem[o].inc))
  <2>1. mem[o].inc \in Seq(Range(mem[o].inc))
    BY <1>5, SeqOfRange
  <2> QED
    BY <2>1, MissingType
<1> HIDE DEF newimp, newinc
<1>8. /\ more \in Seq(Entry) /\ \A i \in 1..Len(more) : more[i].sub \in Submodules(mem, o) \cup {None}
  <2>1. /\ Len(newinc) \in Nat /\ DOMAIN newinc = 1..Len(newinc)
        /\ \A i \in 1..Len(newinc) : newinc[i] \in Range(mem[o].inc)
    BY <1>7, SeqFacts
  <2>2. \A x : x \in Range(mem[o].inc) <=> \E i \in 1..Len(mem[o].inc) : mem[o].inc[i] = x
    BY <1>5, SeqFacts
  <2>3. \A x \in Range(mem[o].inc) : x \in Entry /\ x.sub \in Submodules(mem, o) \cup {None}
    <3>1. \A i \in 1..Len(mem[o].inc) : mem[o].inc[i] \in Entry
      BY <1>5, SeqFacts
    <3> QED
      BY <1>5, <2>2, <3>1
  <2>4. ASSUME NEW i \in 1..Len(newinc)
        PROVE  more[i] \in Entry /\ more[i].sub = newinc[i].sub
    <3>1. newinc[i] \in Entry
      BY <2>1, <2>3
    <3>2. more[i] = [newinc[i] EXCEPT !.ext = TRUE]
      BY <2>1
    <3>3. [newinc[i] EXCEPT !.ext = TRUE] \in Entry /\ [newinc[i] EXCEPT !.ext = TRUE].sub = newinc[i].sub
      BY <3>1 DEF Entry
    <3> HIDE DEF more
    <3> QED
      BY <3>2, <3>3
  <2>5. DOMAIN more = 1..Len(newinc) /\ more = [i \in 1..Len(newinc) |-> more[i]]
    BY <2>1
  <2> HIDE DEF more
  <2>6. more \in Seq(Entry)
    BY <2>1, <2>4, <2>5, IsASeq
  <2>7. Len(more) = Len(newinc)
    BY <2>1, <2>5, <2>6
  <2> QED
    BY <2>1, <2>3, <2>4, <2>6, <2>7
<1> HIDE DEF more
<1>9. Adds(mem, m, y, newimp, more)
  <2> DEFINE p == [mem[y] EXCEPT !.imp = @ \o newimp, !.cap = cap, !.inc = @ \o more]
  <2>1. m = [mem EXCEPT ![y] = p]
    BY <1>4 DEF Obj
  <2>2. cap \in Nat
    <3>1. Len(mem[y].imp) \in Nat /\ Len(newimp) \in Nat
      BY <1>5, <1>6, SeqFacts
    <3>2. Len(mem[y].imp) + Len(newimp) \in Nat
      BY <3>1
    <3> QED
      BY <1>5, <3>2 DEF Room
  <2>3. mem[y].imp \o newimp \in Seq(Addr) /\ mem[y].inc \o more \in Seq(Entry)
    BY <1>5, <1>6, <1>8, ConcatProperties
  <2> HIDE DEF cap
  <2>4. p \in Obj /\ p.file = mem[y].file /\ p.imp = mem[y].imp \o newimp /\ p.inc = mem[y].inc \o more
    <3> DEFINE p1 == [mem[y] EXCEPT !.imp = @ \o newimp]
               p2 == [p1 EXCEPT !.cap = cap]
    <3>1. p1 \in Obj /\ p1.file = mem[y].file /\ p1.imp = mem[y].imp \o newimp /\ p1.inc = mem[y].inc
      BY <1>4, <2>3 DEF Obj
    <3>2. p = [p2 EXCEPT !.inc = @ \o more]
      BY <1>4 DEF Obj
    <3> HIDE DEF p1, p
    <3>3. p2 \in Obj /\ p2.file = p1.file /\ p2.imp = p1.imp /\ p2.inc = p1.inc
      BY <2>2, <3>1 DEF Obj
    <3> HIDE DEF p2
    <3>4. p2.inc \o more \in Seq(Entry)
      BY <2>3, <3>1, <3>3
    <3>5. p \in Obj /\ p.file = p2.file /\ p.imp = p2.imp /\ p.inc = p2.inc \o more
      BY <3>2, <3>3, <3>4 DEF Obj
    <3> QED
      BY <3>1, <3>3, <3>5
  <2> HIDE DEF p, m
  <2>5. m[y] = p /\ m \in [Addr -> Obj \cup {None}] /\ \A x \in Addr : x # y => m[x] = mem[x]
    BY <1>4, <2>1, <2>4
  <2>6. m[y] # None
    BY <2>4, <2>5, NoneType
  <2> QED
    BY <2>4, <2>5, <2>6 DEF Adds
<1> HIDE DEF m
<1>10. Inv(m, list, stack)
  <2>1. newimp \in Seq(Range(mem[Last(stack).obj].imp))
    BY <1>6 DEF o
  <2>2. \A i \in 1..Len(more) : more[i].sub \in Submodules(mem, Last(stack).obj) \cup {None}
    BY <1>8 DEF o
  <2>3. Adds(mem, m, Last(stack).main, newimp, more)
    BY <1>9 DEF y
  <2> QED
    BY <1>1, <1>3, <1>8, <2>1, <2>2, <2>3, MergeKeeps
<1>11. CASE failing' = TRUE /\ (mem' = mem \/ mem' = m) /\ stack' = stack /\ parsing' = parsing
  <2>1. Inv(mem', list', stack') /\ Rest'
    BY <1>1, <1>2, <1>3, <1>10, <1>11 DEF Rest
  <2> QED
    BY <2>1, NextParts
<1>12. CASE Included(m, Front(stack), e) /\ parsing' = Front(parsing)
  <2>1. /\ Inv(m, list, Front(stack)) /\ Front(stack) # << >> /\ Front(stack) \in Seq(Frame)
        /\ ReadsInclude(m, Front(stack), o) /\ Apart(m, list, Front(stack), o)
    BY <1>3, <1>4, <1>10, SubmoduleRead DEF o, y
  <2>2. e \in Entry /\ ~e.ext /\ e.sub = o
    BY <1>4 DEF Entry
  <2> HIDE DEF e
  <2>3. /\ PutAt(m, mem', Last(Front(stack)).obj, Last(Front(stack)).aux, e) /\ GoesOn(Front(stack), stack')
        /\ stack' # << >> /\ failing' \in BOOLEAN
    BY <1>12, <2>1, IncludedFacts
  <2>4. ReadsInclude(m, Front(stack), e.sub) /\ Apart(m, list, Front(stack), e.sub)
    BY <2>1, <2>2
  <2>5. Inv(mem', list, stack')
    BY <2>1, <2>2, <2>3, <2>4, PutKeeps
  <2>6. parsing' \in Seq(STRING)
    BY <1>1, <1>12, FrontType DEF Rest
  <2>7. Inv(mem', list', stack') /\ Rest'
    BY <1>1, <1>2, <2>3, <2>5, <2>6 DEF Rest
  <2> QED
    BY <2>7, NextParts
<1> QED
  BY <1>2, <1>11, <1>12
\* The module at a is the result of the innermost reader.
LEMMA ReturnKeeps ==
  ASSUME LoadInv, stack # << >>, Last(stack).obj = Last(stack).main,
         NEW m, NEW l, Inv(m, l, Front(stack)), NEW a \in Range(l),
         File(m, a).name = File(mem, Last(stack).obj).name,
         Front(stack) # << >> => m[Last(Front(stack)).obj].file = mem[Last(Front(stack)).obj].file,
         Return(m, a)
  PROVE  /\ Inv(mem', l, stack') /\ failing' \in BOOLEAN /\ (failing' => stack' # << >>)
         /\ parsing' \in Seq(STRING)
<1> DEFINE b == Front(stack)
<1>1. Inv(mem, list, stack) /\ Rest
  BY InvParts
<1>2. stack \in Seq(Frame) /\ Len(stack) \in Nat /\ Len(stack) > 0
  BY <1>1, SeqFacts DEF Inv, Typed
<1>3. b \in Seq(Frame) /\ Len(b) = Len(stack) - 1
  BY <1>2, FrontFacts
<1>4. CASE Len(stack) = 1
  <2>1. mem' = m /\ stack' = << >> /\ failing' = FALSE /\ parsing' = parsing
    BY <1>4 DEF Return
  <2>2. Len(b) = 0
    BY <1>3, <1>4
  <2>3. b = << >>
    BY <1>3, <2>2, EmptySeq
  <2> QED
    BY <1>1, <2>1, <2>3 DEF Rest
<1>5. CASE Len(stack) # 1
  <2>1. Imported(m, b, a) /\ parsing' = Front(parsing)
    BY <1>5 DEF Return
  <2>2. Len(b) # 0
    BY <1>2, <1>3, <1>5
  <2>3. b # << >>
    BY <2>2
  <2>4. /\ Last(b).at <= Len(File(mem, Last(b).obj).stmts)
        /\ File(mem, Last(b).obj).stmts[Last(b).at].name = File(mem, Last(stack).obj).name
        /\ File(mem, Last(b).obj).stmts[Last(b).at].kind = "import"
    BY <1>1, <2>3, BelowFacts
  <2>5. File(m, Last(b).obj) = File(mem, Last(b).obj)
    BY <2>3 DEF File
  <2> HIDE DEF b
  <2>6. Inv(mem', l, stack') /\ stack' # << >> /\ failing' \in BOOLEAN
    <3>1. Inv(m, l, b)
      BY DEF b
    <3>2. /\ Last(b).at <= Len(File(m, Last(b).obj).stmts)
          /\ File(m, Last(b).obj).stmts[Last(b).at].kind = "import"
          /\ File(m, a).name = File(m, Last(b).obj).stmts[Last(b).at].name
      BY <2>4, <2>5
    <3> QED
      BY <2>1, <2>3, <3>1, <3>2, ImportedKeeps
  <2>7. parsing' \in Seq(STRING)
    BY <1>1, <2>1, FrontType DEF Rest
  <2> QED
    BY <2>6, <2>7
<1> QED
  BY <1>4, <1>5

\* A module that was read enters the context, or is found there already.
LEMMA ModuleDoneKeeps ==
  ASSUME LoadInv, module_done, UNCHANGED path
  PROVE  LoadInv'
<1> DEFINE o == Last(stack).obj
           b == Front(stack)
           hits == {i \in DOMAIN list : Same(list[i], o) \/ Clash(list[i], o)}
           a == list[Min(hits)]
           m == Freed(mem, o)
           m2 == IF Last(stack).implement THEN Implemented(m, a) ELSE m
<1>1. Inv(mem, list, stack) /\ Rest
  BY InvParts
<1>2. /\ AtBody("module") /\ clb' = clb
      /\ size' = IF File(mem, o).err = "none" THEN Grown(list, size) ELSE size
      /\ \/ failing' = TRUE /\ mem' = mem /\ stack' = stack /\ parsing' = parsing /\ list' = list /\ setid' = setid
         \/ hits = {} /\ list' = Append(list, o) /\ setid' = (setid + 1) % SetIdMod /\ Return(mem, o)
         \/ hits # {} /\ Same(a, o) /\ list' = list /\ setid' = setid /\ Return(m2, a)
  BY DEF module_done, Top, Result
<1>3. stack # << >> /\ File(mem, o).kind = "module" /\ Last(stack).at > Len(File(mem, o).stmts)
  BY <1>2 DEF AtBody, Top
<1>4. o = Last(stack).main /\ o \in Addr
  BY <1>1, <1>3, TopFacts DEF IsModule
<1>5. list \in Seq(Addr) /\ Len(list) \in Nat /\ DOMAIN list = 1..Len(list) /\ Range(list) \subseteq Addr
  BY <1>1, SeqFacts, RangeOfSeq DEF Inv, Typed
<1>6. size' \in Nat
  <2>1. size \in Nat
    BY <1>1 DEF Rest
  <2>2. Grown(list, size) \in Nat
    <3>1. \A n \in Nat : 2 * n \in Nat
      OBVIOUS
    <3> QED
      BY <2>1, <3>1 DEF Grown
  <2> QED
    BY <1>2, <2>1, <2>2
<1>7. Inv(mem, list, b)
  BY <1>1, <1>3, PopKeeps
<1>8. b # << >> => Last(b).obj \in Addr /\ Belongs(list, b, Last(b).obj, Last(b).main) /\ Last(b).main \in Addr
  BY <1>7, TopFacts
<1>9. CASE failing' = TRUE /\ mem' = mem /\ stack' = stack /\ parsing' = parsing /\ list' = list /\ setid' = setid
  <2>1. Inv(mem', list', stack') /\ Rest'
    BY <1>1, <1>2, <1>3, <1>6, <1>9 DEF Rest
  <2> QED
    BY <2>1, NextParts
<1>10. CASE hits = {} /\ list' = Append(list, o) /\ setid' = (setid + 1) % SetIdMod /\ Return(mem, o)
  <2>1. \A i \in DOMAIN list : File(mem, list[i]).ns = File(mem, o).ns => File(mem, list[i]).name = File(mem, o).name
    BY <1>10 DEF Clash
  <2>2. Inv(mem, Append(list, o), b)
    BY <1>1, <1>3, <1>4, <2>1, ListKeeps
  <2>3. o \in Range(Append(list, o))
    BY <1>4, <1>5, AppendRange
  <2>4. /\ Inv(mem', Append(list, o), stack') /\ failing' \in BOOLEAN /\ (failing' => stack' # << >>)
        /\ parsing' \in Seq(STRING)
    BY <1>3, <1>4, <1>10, <2>2, <2>3, ReturnKeeps
  <2>5. setid' \in 0..(SetIdMod - 1)
    <3>1. setid \in Int
      <4>1. setid \in 0..(SetIdMod - 1)
        BY <1>1 DEF Rest
      <4> QED
        BY <4>1
    <3>2. setid + 1 \in Int /\ SetIdMod \in Nat \ {0}
      BY <3>1 DEF SetIdMod
    <3> QED
      BY <1>10, <3>2, RemainderType
  <2>6. Rest'
    BY <1>1, <1>2, <1>6, <2>4, <2>5 DEF Rest
  <2> QED
    BY <1>10, <2>4, <2>6, NextParts
<1>11. CASE hits # {} /\ Same(a, o) /\ list' = list /\ setid' = setid /\ Return(m2, a)
  <2>1. a \in Range(list)
    <3>1. hits \in SUBSET Nat /\ hits \subseteq DOMAIN list
      BY <1>5
    <3> HIDE DEF hits
    <3>2. Min(hits) \in hits
      BY <1>11, <3>1, MinFacts
    <3>3. Min(hits) \in DOMAIN list
      BY <3>1, <3>2
    <3> QED
      BY <3>3 DEF Range
  <2> HIDE DEF hits, a
  <2>2. /\ Inv(m, list, b) /\ \A x \in Addr : Seen(mem, list, b, x) => m[x] = mem[x]
    BY <1>1, <1>3, FreeKeeps
  <2>3. a \in Addr /\ Belongs(list, b, a, a)
    BY <1>5, <2>1 DEF Belongs
  <2>4. m[a] = mem[a]
    BY <2>2, <2>3 DEF Seen
  <2>5. b # << >> => m[Last(b).obj] = mem[Last(b).obj]
    BY <1>8, <2>2 DEF Seen
  <2> HIDE DEF m
  <2>6. Inv(m2, list, b) /\ \A x \in Addr : m2[x].file = m[x].file
    BY <2>1, <2>2, ImplementedKeeps
  <2> HIDE DEF m2
  <2>7. File(m2, a).name = File(mem, o).name
    <3>1. File(mem, a).name = File(mem, o).name
      BY <1>11 DEF Same
    <3> QED
      BY <2>3, <2>4, <2>6, <3>1 DEF File
  <2>8. b # << >> => m2[Last(b).obj].file = mem[Last(b).obj].file
    BY <1>8, <2>5, <2>6
  <2>9. /\ Inv(mem', list, stack') /\ failing' \in BOOLEAN /\ (failing' => stack' # << >>)
        /\ parsing' \in Seq(STRING)
    BY <1>3, <1>4, <1>11, <2>1, <2>6, <2>7, <2>8, ReturnKeeps
  <2>10. Rest'
    BY <1>1, <1>2, <1>6, <1>11, <2>9 DEF Rest
  <2> QED
    BY <1>11, <2>9, <2>10, NextParts
<1> QED
  BY <1>2, <1>9, <1>10, <1>11
\* Each step of the top reader keeps the invariant.
LEMMA StepKeeps ==
  ASSUME LoadInv, Step
  PROVE  LoadInv'
<1>1. path' = path
  BY DEF Step
<1>2. CASE Unwind
  BY <1>1, <1>2, UnwindKeeps
<1>3. CASE import_rejected \/ import_missing
  <2>1. Fail /\ AtStatement("import")
    BY <1>3 DEF import_rejected, import_missing
  <2> QED
    BY <1>1, <2>1, AtFacts, FailKeeps
<1>4. CASE include_circular \/ include_missing
  <2>1. Fail /\ AtStatement("include")
    BY <1>4 DEF include_circular, include_missing
  <2> QED
    BY <1>1, <2>1, AtFacts, FailKeeps
<1>5. CASE head_fails
  <2>1. Fail /\ stack # << >>
    BY <1>5 DEF head_fails, AtBody
  <2> QED
    BY <1>1, <2>1, FailKeeps
<1>6. CASE import_found
  BY <1>1, <1>6, ImportFoundKeeps
<1>7. CASE include_known
  BY <1>1, <1>7, IncludeKnownKeeps
<1>8. CASE \E f \in path : import_load(f) \/ include_load(f) \/ include_wrong(f)
  <2>1. PICK f \in path : import_load(f) \/ include_load(f) \/ include_wrong(f)
    BY <1>8
  <2> QED
    BY <1>1, <2>1, ImportLoadKeeps, IncludeLoadKeeps, IncludeWrongKeeps
<1>9. CASE submodule_done
  BY <1>1, <1>9, SubmoduleDoneKeeps
<1>10. CASE module_done
  BY <1>1, <1>10, ModuleDoneKeeps
<1> QED
  BY <1>2, <1>3, <1>4, <1>5, <1>6, <1>7, <1>8, <1>9, <1>10 DEF Step

\* So does every step of the specification.
LEMMA NextKeeps == LoadInv /\ [Next]_vars => LoadInv'
<1> SUFFICES ASSUME LoadInv, [Next]_vars PROVE LoadInv'
  OBVIOUS
<1>1. CASE Step
  BY <1>1, StepKeeps
<1>2. CASE Call
  BY <1>2, CallKeeps
<1>3. CASE UNCHANGED vars
  <2>1. Inv(mem, list, stack) /\ Rest
    BY InvParts
  <2>2. /\ mem' = mem /\ list' = list /\ size' = size /\ setid' = setid /\ parsing' = parsing
        /\ stack' = stack /\ failing' = failing /\ clb' = clb /\ path' = path
    BY <1>3 DEF vars
  <2>3. Inv(mem', list', stack') /\ Rest'
    BY <2>1, <2>2 DEF Rest
  <2> QED
    BY <2>3, NextParts
<1> QED
  BY <1>1, <1>2, <1>3 DEF Next

-----------------------------------------------------------------------------
(* The theorems                                                            *)

\* The readers are where their statements say, families of modules and
\* submodules are apart, and what is in the context is complete, whatever calls
\* are made and whichever of them fail.
THEOREM LoadInvariance == Spec => []LoadInv
  BY InitInv, NextKeeps, PTL DEF Spec

\* Closed: a module in the context (lys_read_import, lyp_ctx_add_module) never
\* refers to anything that was freed on an error path of a later call.
THEOREM ContextClosed == Spec => []Closed
<1>1. LoadInv => Closed
  <2> SUFFICES ASSUME LoadInv, NEW a \in Range(list)
               PROVE  /\ a \in Live
                      /\ Range(mem[a].imp) \subseteq Range(list)
                      /\ Submodules(mem, a) \subseteq Live
                      /\ \A s \in Range(File(mem, a).stmts) :
                           \E x \in IF s.kind = "import" THEN Range(mem[a].imp) ELSE Submodules(mem, a) :
                             File(mem, x).name = s.name
    BY DEF Closed
  <2>1. /\ Typed(mem, list, stack) /\ Readers(mem, list, stack) /\ Families(mem, list, stack)
        /\ Imports(mem, list, stack) /\ Context(mem, list)
    BY InvParts DEF Inv
  <2>2. Belongs(list, stack, a, a)
    BY DEF Belongs
  <2>3. a \in Addr /\ mem[a] # None
    BY <2>1, <2>2, BelongsFacts
  <2>4. Range(mem[a].imp) \subseteq Range(list)
    BY <2>1, <2>2, <2>3 DEF Imports
  <2>5. \A t \in Submodules(mem, a) : t \in Addr /\ mem[t] # None
    BY <2>1, <2>2, <2>3, ObjFacts DEF Families, Typed
  <2>6. \A st \in Range(File(mem, a).stmts) : Satisfied(mem, a, st)
    BY <2>1 DEF Context
  <2> QED
    BY <2>3, <2>4, <2>5, <2>6 DEF Live, Satisfied
<1> QED
  BY <1>1, LoadInvariance, PTL

\* ListOK: types, one module for each namespace (yin_read_module compares each new
\* module with all), and ly_ctx_get_module finds the newest revision.
THEOREM ContextListed == Spec => []ListOK
<1>1. LoadInv => ListOK
  <2> SUFFICES ASSUME LoadInv PROVE TypeOK /\ NsUnique /\ NewestFound
    BY DEF ListOK
  <2>1. Typed(mem, list, stack) /\ Readers(mem, list, stack) /\ Context(mem, list)
    BY InvParts DEF Inv
  <2>2. TypeOK
    BY DEF LoadInv
  <2>3. NsUnique
    BY <2>1 DEF Context, NsUnique
  <2>4. list \in Seq(Addr) /\ \A x \in Range(list) : File(mem, x).rev \in Nat
    <3>1. list \in Seq(Addr) /\ Range(list) \subseteq Addr /\ \A x \in Range(list) : mem[x] # None
      BY <2>1, RangeOfSeq DEF Typed, Readers
    <3>2. \A x \in Range(list) : mem[x].file \in Files
      BY <2>1, <3>1, ObjFacts DEF Typed
    <3> QED
      BY <3>1, <3>2, DocFacts DEF File
  <2>5. ASSUME NEW i \in DOMAIN list
        PROVE  LET a == ly_ctx_get_module(mem, list, File(mem, list[i]).name, 0) IN
               a # None /\ File(mem, a).rev >= File(mem, list[i]).rev
    <3>1. SearchResult(mem, list, File(mem, list[i]).name, 0,
                       ly_ctx_get_module(mem, list, File(mem, list[i]).name, 0))
      BY <2>4, SearchFacts
    <3> QED
      BY <3>1 DEF SearchResult
  <2> QED
    BY <2>2, <2>3, <2>5 DEF NewestFound
<1> QED
  BY <1>1, LoadInvariance, PTL
=============================================================================
