--------------------------- MODULE IdentityProofs ---------------------------
(***************************************************************************)
(* Proofs about Identity, for any modules and any number of calls: the     *)
(* graph of bases stays sound, backlinks are exact, and a module is        *)
(* refused for its bases exactly when they are unsound.                    *)
(***************************************************************************)
EXTENDS Identity, ClosureProofs, SequenceTheorems

-----------------------------------------------------------------------------
(* The inductive invariant                                                 *)

\* The module being read has a number of its own, above those in the context.
Numbers ==
  /\ \A m \in Mods : list[m] <= load
  /\ mod # None => \A m \in Mods : list[m] < load
  /\ mod = None => unres = << >>

\* The modules that own the bases of the module being read are in the context.
Imports ==
  mod # None =>
    \A n \in Names : Owner(n) = mod /\ BaseName(n) \in Names /\ Owner(BaseName(n)) # mod =>
      list[Owner(BaseName(n))] # 0

\* What is allocated: the identities of the context and those read so far.
LiveExact ==
  \A i \in Ident : i \in live <=>
    \/ list[Owner(i[2])] = i[1]
    \/ mod # None /\ i[1] = load /\ Owner(i[2]) = mod /\ Index(i[2]) <= pos

\* A base that is set is the one the statement names, in the same copy of the
\* module or in the context.
BaseNamed ==
  \A i \in Ident : base[i] # None =>
    /\ i \in live /\ base[i] \in live /\ base[i][2] = BaseName(i[2])
    /\ base[i][1] = IF Owner(base[i][2]) = Owner(i[2]) THEN i[1] ELSE list[Owner(base[i][2])]

\* The list of items that wait: each once, each for a base that is not defined
\* or not before it in the module; all other bases are set.
Pending ==
  /\ \A k \in DOMAIN unres :
       LET n == unres[k][2] IN
       /\ unres[k] \in live /\ unres[k][1] = load /\ base[unres[k]] = None
       /\ BaseName(n) # None
       /\ BaseName(n) \in Names => Owner(BaseName(n)) = Owner(n) /\ Index(n) <= Index(BaseName(n))
  /\ \A k, l \in DOMAIN unres : unres[k] = unres[l] => k = l
  /\ \A i \in live : BaseName(i[2]) # None /\ base[i] = None => \E k \in DOMAIN unres : unres[k] = i

\* Backlinks are to identities of calls so far, and from allocated ones.
BacklinksOld ==
  \A i \in Ident :
    /\ i \notin live => Range(der[i]) = {}
    /\ \A x \in Range(der[i]) : x[1] <= load /\ (mod # None /\ x[1] = load => x \in live)

\* An identity of a module in order is on the lists of all it is derived from.
BacklinksExact ==
  \A i \in live : InOrder(Owner(i[2])) =>
    \A b \in live : i \in Range(der[b]) <=> b \in Chain(i) /\ b # i

\* Modules that are in the context or were refused for a base.
Verdicts ==
  /\ \A m \in Mods : list[m] # 0 => Sound(m)
  /\ ret.why = "ok" => ret.mod \in Mods /\ list[ret.mod] # 0
  /\ ret.why = "base" => ret.mod \in Mods /\ ~Sound(ret.mod)

GraphInv ==
  TypeOK /\ Numbers /\ Imports /\ LiveExact /\ BaseNamed /\ Pending /\ BaseAcyclic /\ BaseHasBacklink
LinkInv == BacklinksOld /\ BacklinksExact

-----------------------------------------------------------------------------
(* The documents                                                           *)

\* A name has one owner and one place there.
LEMMA NameFacts ==
  ASSUME NEW n \in Names
  PROVE  /\ Owner(n) \in Mods
         /\ Index(n) \in DOMAIN Stmts[Owner(n)] /\ Index(n) \in 1..Len(Stmts[Owner(n)])
         /\ Stmts[Owner(n)][Index(n)].name = n
<1>1. \E m \in Mods : \E k \in DOMAIN Stmts[m] : Stmts[m][k].name = n
  BY DEF Names
<1>2. Owner(n) \in Mods /\ \E k \in DOMAIN Stmts[Owner(n)] : Stmts[Owner(n)][k].name = n
  BY <1>1 DEF Owner
<1>3. Index(n) \in DOMAIN Stmts[Owner(n)] /\ Stmts[Owner(n)][Index(n)].name = n
  BY <1>2 DEF Index
<1>4. DOMAIN Stmts[Owner(n)] = 1..Len(Stmts[Owner(n)])
  BY <1>2, StmtsType, LenProperties
<1> QED
  BY <1>2, <1>3, <1>4

\* The statement at a place is the one its name leads to.
LEMMA StmtFacts ==
  ASSUME NEW m \in Mods, NEW k \in 1..Len(Stmts[m])
  PROVE  LET n == Stmts[m][k].name IN
         n \in Names /\ Owner(n) = m /\ Index(n) = k /\ BaseName(n) = Stmts[m][k].base
<1> DEFINE n == Stmts[m][k].name
<1>1. k \in DOMAIN Stmts[m]
  BY StmtsType, LenProperties
<1>2. n \in Names
  BY <1>1 DEF Names
<1>3. Owner(n) = m /\ Index(n) = k
  BY <1>1, <1>2, NameFacts, StmtsType
<1> QED
  BY <1>2, <1>3 DEF BaseName

\* There are finitely many names.
LEMMA NamesFinite == IsFiniteSet(Names) /\ IsFiniteSet(Ident) /\ IsFiniteSet(Bases)
<1> DEFINE Of == [m \in Mods |-> {Stmts[m][k].name : k \in DOMAIN Stmts[m]}]
<1>1. ASSUME NEW m \in Mods PROVE IsFiniteSet(Of[m])
  <2> DEFINE f == [k \in DOMAIN Stmts[m] |-> Stmts[m][k].name]
  <2>1. DOMAIN Stmts[m] = 1..Len(Stmts[m]) /\ Len(Stmts[m]) \in Nat
    BY StmtsType, LenProperties
  <2>2. IsFiniteSet(DOMAIN Stmts[m])
    BY <2>1, FS_Interval
  <2>3. f = [k \in DOMAIN Stmts[m] |-> f[k]]
    OBVIOUS
  <2>4. Of[m] = {f[k] : k \in DOMAIN Stmts[m]}
    OBVIOUS
  <2> HIDE DEF f, Of
  <2> QED
    BY <2>2, <2>3, <2>4, ImageFinite
<1>2. Of = [m \in Mods |-> Of[m]]
  OBVIOUS
<1>3. Names = UNION {Of[m] : m \in Mods}
  BY DEF Names
<1> HIDE DEF Of
<1>4. IsFiniteSet({Of[m] : m \in Mods})
  BY <1>2, StmtsType, ImageFinite
<1>5. IsFiniteSet(Names)
  BY <1>1, <1>3, <1>4, FS_UNION
<1>6. IsFiniteSet(1..MaxLoads)
  BY LoadsType, FS_Interval
<1>7. IsFiniteSet(Ident)
  BY <1>5, <1>6, FS_Product DEF Ident
<1>8. IsFiniteSet({BaseName(n) : n \in Names})
  <2> DEFINE f == [n \in Names |-> BaseName(n)]
  <2>1. f = [n \in Names |-> f[n]]
    OBVIOUS
  <2>2. {BaseName(n) : n \in Names} = {f[n] : n \in Names}
    OBVIOUS
  <2> HIDE DEF f
  <2> QED
    BY <1>5, <2>1, <2>2, ImageFinite
<1> QED
  BY <1>5, <1>7, <1>8, FS_Union DEF Bases

\* A sequence with one more element is another one.
LEMMA AppendLonger ==
  ASSUME NEW S, NEW s \in Seq(S), NEW e \in S
  PROVE  s # Append(s, e)
<1>1. Len(s) \in Nat
  BY LenProperties
<1> DEFINE t == Append(s, e)
<1>2. Len(t) = Len(s) + 1
  BY AppendProperties
<1> HIDE DEF t
<1>3. s # t
  BY <1>1, <1>2
<1> QED
  BY <1>3 DEF t

-----------------------------------------------------------------------------
(* Chains of bases                                                         *)

\* A chain is the smallest set with the identity that is closed under base.
LEMMA ChainFacts ==
  ASSUME NEW f \in [Ident -> Ident \cup {None}], NEW i \in Ident
  PROVE  /\ i \in ChainOf(f, i) /\ ChainOf(f, i) \subseteq Ident
         /\ \A x \in ChainOf(f, i) : f[x] # None => f[x] \in ChainOf(f, i)
         /\ \A T : i \in T /\ (\A x \in T \cap Ident : f[x] # None => f[x] \in T)
                     => ChainOf(f, i) \subseteq T
<1> DEFINE succ == [x \in Ident |-> {f[x]} \ {None}]
<1>1. succ \in [Ident -> SUBSET Ident] /\ {i} \in SUBSET Ident
  OBVIOUS
<1>2. ChainOf(f, i) = Closure(Ident, {i}, succ)
  BY DEF ChainOf
<1>3. \A x \in Ident : succ[x] = {f[x]} \ {None}
  OBVIOUS
<1> HIDE DEF succ
<1>4. /\ {i} \subseteq ChainOf(f, i) /\ ChainOf(f, i) \subseteq Ident
      /\ \A x \in ChainOf(f, i) : succ[x] \subseteq ChainOf(f, i)
      /\ \A T : {i} \subseteq T /\ (\A x \in T \cap Ident : succ[x] \subseteq T)
                  => ChainOf(f, i) \subseteq T
  BY <1>1, <1>2, NamesFinite, ClosureLeast
<1>5. ASSUME NEW x \in ChainOf(f, i), f[x] # None PROVE f[x] \in ChainOf(f, i)
  BY <1>3, <1>4, <1>5
<1>6. ASSUME NEW T, i \in T, \A x \in T \cap Ident : f[x] # None => f[x] \in T
      PROVE  ChainOf(f, i) \subseteq T
  <2>1. \A x \in T \cap Ident : succ[x] \subseteq T
    BY <1>3, <1>6
  <2> QED
    BY <1>4, <1>6, <2>1
<1> QED
  BY <1>4, <1>5, <1>6

\* The names above a statement, likewise.
LEMMA AboveFacts ==
  ASSUME NEW n \in Names
  PROVE  /\ BaseName(n) \in Above(n)
         /\ \A x \in Above(n) \cap Names : BaseName(x) \in Above(n)
         /\ \A T : BaseName(n) \in T /\ (\A x \in T \cap Names : BaseName(x) \in T)
                     => Above(n) \subseteq T
<1> DEFINE succ == [x \in Bases |-> IF x \in Names THEN {BaseName(x)} ELSE {}]
<1>1. succ \in [Bases -> SUBSET Bases] /\ {BaseName(n)} \in SUBSET Bases
  BY DEF Bases
<1>2. Above(n) = Closure(Bases, {BaseName(n)}, succ)
  BY DEF Above
<1>3. \A x \in Bases : succ[x] = IF x \in Names THEN {BaseName(x)} ELSE {}
  OBVIOUS
<1> HIDE DEF succ
<1>4. /\ {BaseName(n)} \subseteq Above(n) /\ Above(n) \subseteq Bases
      /\ \A x \in Above(n) : succ[x] \subseteq Above(n)
      /\ \A T : {BaseName(n)} \subseteq T /\ (\A x \in T \cap Bases : succ[x] \subseteq T)
                  => Above(n) \subseteq T
  BY <1>1, <1>2, NamesFinite, ClosureLeast
<1>5. ASSUME NEW x \in Above(n) \cap Names PROVE BaseName(x) \in Above(n)
  BY <1>3, <1>4
<1>6. ASSUME NEW T, BaseName(n) \in T, \A x \in T \cap Names : BaseName(x) \in T
      PROVE  Above(n) \subseteq T
  <2>1. \A x \in T \cap Bases : succ[x] \subseteq T
    BY <1>3, <1>6
  <2> QED
    BY <1>4, <1>6, <2>1
<1> QED
  BY <1>4, <1>5, <1>6

\* No identity is its own base through the pointers f.
NoCycle(f) == \A j \in Ident : f[j] # None => j \notin ChainOf(f, f[j])

\* The check of resolve_base_ident_sub: a base whose chain does not have the
\* identity cannot close a cycle.
LEMMA LinkNoCycle ==
  ASSUME NEW f \in [Ident -> Ident \cup {None}], NoCycle(f),
         NEW i \in Ident, NEW b \in Ident, i \notin ChainOf(f, b)
  PROVE  NoCycle([f EXCEPT ![i] = b])
<1> DEFINE g == [f EXCEPT ![i] = b]
<1>1. g \in [Ident -> Ident \cup {None}] /\ g[i] = b /\ \A x \in Ident \ {i} : g[x] = f[x]
  OBVIOUS
<1> HIDE DEF g
<1> SUFFICES ASSUME NEW j \in Ident, g[j] # None PROVE j \notin ChainOf(g, g[j])
  BY DEF NoCycle, g
<1>2. ChainOf(g, b) \subseteq ChainOf(f, b)
  BY <1>1, ChainFacts
<1>3. CASE j = i
  BY <1>1, <1>2, <1>3
<1>4. CASE j # i
  <2> DEFINE c == f[j]
             D == ChainOf(f, c)
             B == ChainOf(f, b)
  <2>1. g[j] = c /\ c \in Ident /\ j \notin D
    BY <1>1, <1>4 DEF NoCycle
  <2>2. CASE i \notin D
    <3>1. c \in D /\ \A x \in D \cap Ident : g[x] # None => g[x] \in D
      BY <1>1, <2>1, <2>2, ChainFacts
    <3>2. ChainOf(g, c) \subseteq D
      BY <1>1, <2>1, <3>1, ChainFacts
    <3> QED
      BY <2>1, <3>2
  <2>3. CASE i \in D
    <3>1. j \notin B
      <4>1. SUFFICES ASSUME j \in B PROVE FALSE
        OBVIOUS
      <4>2. c \in B /\ \A x \in B \cap Ident : f[x] # None => f[x] \in B
        BY <2>1, <4>1, ChainFacts
      <4>3. D \subseteq B
        BY <2>1, <4>2, ChainFacts
      <4> QED
        BY <2>3, <4>3
    <3> DEFINE E == D \cup B
    <3>2. c \in E /\ \A x \in E \cap Ident : g[x] # None => g[x] \in E
      BY <1>1, <2>1, ChainFacts
    <3>3. j \notin E
      BY <2>1, <3>1
    <3> HIDE DEF E
    <3>4. ChainOf(g, c) \subseteq E
      BY <1>1, <2>1, <3>2, ChainFacts
    <3> QED
      BY <2>1, <3>3, <3>4
  <2> QED
    BY <2>2, <2>3
<1> QED
  BY <1>3, <1>4

\* Pointers that are cleared shorten chains and close no cycle.
LEMMA ClearNoCycle ==
  ASSUME NEW f \in [Ident -> Ident \cup {None}], NoCycle(f),
         NEW g \in [Ident -> Ident \cup {None}], \A x \in Ident : g[x] # None => g[x] = f[x]
  PROVE  NoCycle(g)
<1> SUFFICES ASSUME NEW j \in Ident, g[j] # None PROVE j \notin ChainOf(g, g[j])
  BY DEF NoCycle
<1>1. g[j] = f[j] /\ g[j] \in Ident /\ j \notin ChainOf(f, g[j])
  BY DEF NoCycle
<1>2. g[j] \in ChainOf(f, g[j]) /\ \A x \in ChainOf(f, g[j]) \cap Ident : g[x] # None => g[x] \in ChainOf(f, g[j])
  BY <1>1, ChainFacts
<1>3. ChainOf(g, g[j]) \subseteq ChainOf(f, g[j])
  BY <1>1, <1>2, ChainFacts
<1> QED
  BY <1>1, <1>3

-----------------------------------------------------------------------------
(* Backlinks                                                               *)

\* The identities of a module are well typed.
LEMMA IdentFacts ==
  ASSUME NEW i \in Ident
  PROVE  /\ i[1] \in Nat /\ i[1] # 0 /\ i[1] <= MaxLoads /\ i[2] \in Names /\ i = <<i[1], i[2]>>
         /\ Owner(i[2]) \in Mods /\ Index(i[2]) \in Nat
BY LoadsType, NameFacts DEF Ident

\* All ancestors of an identity but perhaps itself have a list.
LEMMA AncestorsListed ==
  ASSUME TypeOK, BaseNamed, BaseHasBacklink, NEW b \in Ident
  PROVE  /\ b \in Chain(b) /\ Chain(b) \subseteq Ident
         /\ \A a \in Chain(b) : a = b \/ der[a] # << >>
         /\ der[b] # << >> => \A a \in Chain(b) : der[a] # << >>
<1> DEFINE T == {a \in Ident : a = b \/ der[a] # << >>}
<1>1. base \in [Ident -> Ident \cup {None}]
  BY DEF TypeOK
<1>2. ASSUME NEW x \in T \cap Ident, base[x] # None PROVE base[x] \in T
  <2>1. x \in Range(der[base[x]]) /\ base[x] \in Ident
    BY <1>1, <1>2 DEF BaseNamed, BaseHasBacklink
  <2>2. der[base[x]] # << >>
    BY <2>1 DEF Range
  <2> QED
    BY <2>1, <2>2
<1>3. b \in T
  OBVIOUS
<1> HIDE DEF T
<1>4. ChainOf(base, b) \subseteq T
  BY <1>1, <1>2, <1>3, ChainFacts
<1> QED
  BY <1>1, <1>4, ChainFacts DEF Chain, T

\* The base and everything above it get one more backlink, and no list loses
\* one: the assignment to the list of the base happens only when it is empty.
LEMMA LinkedFacts ==
  ASSUME TypeOK, BaseNamed, BaseHasBacklink, NEW i \in Ident, NEW b \in Ident
  PROVE  /\ Linked(i, b) \in [Ident -> Seq(Ident)]
         /\ \A x \in Chain(b) : Range(Linked(i, b)[x]) = Range(der[x]) \cup {i}
         /\ \A x \in Ident \ Chain(b) : Linked(i, b)[x] = der[x]
<1>1. der \in [Ident -> Seq(Ident)]
  BY DEF TypeOK
<1>2. ASSUME NEW x \in Ident
      PROVE  /\ Linked(i, b)[x] \in Seq(Ident)
             /\ x \notin Chain(b) => Linked(i, b)[x] = der[x]
             /\ x \in Chain(b) => Range(Linked(i, b)[x]) = Range(der[x]) \cup {i}
  <2>1. der[x] \in Seq(Ident) /\ <<i>> \in Seq(Ident) /\ Append(der[x], i) \in Seq(Ident)
    BY <1>1
  <2>2. Range(Append(der[x], i)) = Range(der[x]) \cup {i}
    <3>1. /\ DOMAIN Append(der[x], i) = 1..(Len(der[x]) + 1) /\ DOMAIN der[x] = 1..Len(der[x])
          /\ Len(der[x]) \in Nat /\ Append(der[x], i)[Len(der[x]) + 1] = i
          /\ \A k \in 1..Len(der[x]) : Append(der[x], i)[k] = der[x][k]
      BY <2>1
    <3> QED
      BY <3>1 DEF Range
  <2>3. CASE x \notin Chain(b)
    BY <2>1, <2>3, AncestorsListed DEF Linked
  <2>4. CASE x = b /\ \E a \in Chain(b) : der[a] = << >>
    <3>1. der[b] = << >>
      BY <2>4, AncestorsListed
    <3>2. Linked(i, b)[x] = <<i>>
      BY <2>4 DEF Linked
    <3>3. Range(<<i>>) = {i} /\ Range(<< >>) = {}
      BY DEF Range
    <3> QED
      BY <2>1, <2>4, <3>1, <3>2, <3>3, AncestorsListed
  <2>5. CASE x \in Chain(b) /\ ~(x = b /\ \E a \in Chain(b) : der[a] = << >>)
    <3>1. der[x] # << >>
      BY <2>5, AncestorsListed
    <3>2. Linked(i, b)[x] = Append(der[x], i)
      BY <2>5, <3>1 DEF Linked
    <3> QED
      BY <2>1, <2>2, <2>5, <3>2
  <2> QED
    BY <2>3, <2>4, <2>5, AncestorsListed
<1>3. Linked(i, b) = [x \in Ident |-> Linked(i, b)[x]]
  BY DEF Linked
<1> HIDE DEF Linked
<1> QED
  BY <1>2, <1>3, AncestorsListed

\* Where resolve_base_ident finds a base.
LEMMA FoundFacts ==
  ASSUME GraphInv, mod # None,
         NEW i \in Ident, i[1] = load, Owner(i[2]) = mod,
         NEW b, b = Found(BaseName(i[2]))
  PROVE  /\ b # None => /\ b \in live /\ b \in Ident /\ b[2] = BaseName(i[2])
                        /\ b[1] = IF Owner(b[2]) = Owner(i[2]) THEN i[1] ELSE list[Owner(b[2])]
         /\ b = None => \/ BaseName(i[2]) \notin Names
                        \/ Owner(BaseName(i[2])) = mod /\ ~(Index(BaseName(i[2])) <= pos)
<1> DEFINE n == BaseName(i[2])
<1>1. i[1] \in 1..MaxLoads /\ i[2] \in Names /\ load \in 1..MaxLoads
  BY DEF Ident
<1>2. CASE n \notin Names
  BY <1>2 DEF Found
<1>3. CASE n \in Names /\ Owner(n) = mod
  <2>1. <<load, n>> \in Ident
    BY <1>1, <1>3 DEF Ident
  <2>2. CASE Index(n) <= pos
    <3>1. b = <<load, n>> /\ b # None
      BY <1>3, <2>1, <2>2, LoadsType DEF Found
    <3>2. b \in live
      BY <1>3, <2>1, <2>2, <3>1 DEF GraphInv, LiveExact
    <3> QED
      BY <1>3, <2>1, <3>1, <3>2
  <2>3. CASE ~(Index(n) <= pos)
    BY <1>3, <2>3 DEF Found
  <2> QED
    BY <2>2, <2>3
<1>4. CASE n \in Names /\ Owner(n) # mod
  <2>1. Owner(n) \in Mods /\ list[Owner(n)] # 0
    BY <1>1, <1>4, NameFacts DEF GraphInv, Imports
  <2>2. list[Owner(n)] \in 1..MaxLoads
    BY <2>1 DEF GraphInv, TypeOK
  <2>3. <<list[Owner(n)], n>> \in Ident
    BY <1>4, <2>2 DEF Ident
  <2>4. b = <<list[Owner(n)], n>> /\ b # None
    BY <1>4, <2>3, LoadsType DEF Found
  <2>5. b \in live
    BY <2>3, <2>4 DEF GraphInv, LiveExact
  <2> QED
    BY <1>4, <2>3, <2>4, <2>5
<1> QED
  BY <1>2, <1>3, <1>4

\* Everything a chain leads to is allocated.
LEMMA ChainLive ==
  ASSUME GraphInv, NEW b \in live
  PROVE  Chain(b) \subseteq live
<1>1. base \in [Ident -> Ident \cup {None}] /\ b \in Ident
  BY DEF GraphInv, TypeOK
<1>2. \A x \in live \cap Ident : base[x] # None => base[x] \in live
  BY DEF GraphInv, BaseNamed
<1> QED
  BY <1>1, <1>2, ChainFacts DEF Chain

\* The invariant of the base graph leaves no cycle.
LEMMA GraphNoCycle == GraphInv => NoCycle(base)
BY DEF GraphInv, BaseNamed, BaseAcyclic, NoCycle, Chain

\* Setting one more base keeps the graph sound.
LEMMA GraphLink ==
  ASSUME GraphInv, mod # None, NEW i \in Ident, i[1] = load, Owner(i[2]) = mod,
         Resolvable(i), Link(i), base[i] = None, live' = live \cup {i}, list' = list
  PROVE  /\ base' \in [Ident -> Ident \cup {None}] /\ der' \in [Ident -> Seq(Ident)]
         /\ base'[i] # None /\ \A x \in Ident \ {i} : base'[x] = base[x]
         /\ BaseNamed' /\ BaseAcyclic' /\ BaseHasBacklink'
<1> DEFINE b == Found(BaseName(i[2]))
<1>1. b # None /\ i \notin Chain(b) /\ base' = [base EXCEPT ![i] = b] /\ der' = Linked(i, b)
  BY DEF Resolvable, Circular, Link
<1>2. /\ b \in live /\ b \in Ident /\ b[2] = BaseName(i[2])
      /\ b[1] = IF Owner(b[2]) = Owner(i[2]) THEN i[1] ELSE list[Owner(b[2])]
  BY <1>1, FoundFacts
<1> HIDE DEF b
<1>3. TypeOK /\ BaseNamed /\ BaseHasBacklink /\ base \in [Ident -> Ident \cup {None}]
  BY DEF GraphInv, TypeOK
<1>4. /\ base' \in [Ident -> Ident \cup {None}] /\ base'[i] = b
      /\ \A x \in Ident \ {i} : base'[x] = base[x]
  BY <1>1, <1>2, <1>3
<1>5. /\ der' \in [Ident -> Seq(Ident)]
      /\ \A x \in Chain(b) : Range(der'[x]) = Range(der[x]) \cup {i}
      /\ \A x \in Ident \ Chain(b) : der'[x] = der[x]
  <2>1. /\ Linked(i, b) \in [Ident -> Seq(Ident)]
        /\ \A x \in Chain(b) : Range(Linked(i, b)[x]) = Range(der[x]) \cup {i}
        /\ \A x \in Ident \ Chain(b) : Linked(i, b)[x] = der[x]
    BY <1>2, <1>3, LinkedFacts
  <2> QED
    BY <1>1, <2>1
<1>6. BaseNamed'
  <2> SUFFICES ASSUME NEW j \in Ident, base'[j] # None
               PROVE  /\ j \in live' /\ base'[j] \in live' /\ base'[j][2] = BaseName(j[2])
                      /\ base'[j][1] = IF Owner(base'[j][2]) = Owner(j[2]) THEN j[1]
                                       ELSE list'[Owner(base'[j][2])]
    BY DEF BaseNamed
  <2>1. CASE j = i
    BY <1>2, <1>4, <2>1
  <2>2. CASE j # i
    BY <1>3, <1>4, <2>2 DEF BaseNamed
  <2> QED
    BY <2>1, <2>2
<1>7. BaseAcyclic'
  <2>1. NoCycle(base')
    BY <1>1, <1>2, <1>3, GraphNoCycle, LinkNoCycle DEF Chain
  <2> QED
    BY <1>3, <2>1 DEF NoCycle, BaseAcyclic, Chain, GraphInv, TypeOK
<1>8. BaseHasBacklink'
  <2> SUFFICES ASSUME NEW j \in live', base'[j] # None PROVE j \in Range(der'[base'[j]])
    BY DEF BaseHasBacklink
  <2>1. CASE j = i
    BY <1>2, <1>3, <1>4, <1>5, <2>1, AncestorsListed
  <2>2. CASE j # i
    <3>1. j \in live /\ j \in Ident /\ base'[j] = base[j] /\ base[j] \in Ident
      BY <1>3, <1>4, <2>2 DEF GraphInv, TypeOK
    <3>2. j \in Range(der[base[j]])
      BY <3>1, <1>3 DEF BaseHasBacklink
    <3> QED
      BY <1>5, <3>1, <3>2
  <2> QED
    BY <2>1, <2>2
<1> QED
  BY <1>1, <1>4, <1>5, <1>6, <1>7, <1>8

-----------------------------------------------------------------------------
(* The graph of bases, one lemma per action                                *)

\* It holds initially.
LEMMA GraphInit == Init => GraphInv
<1> SUFFICES ASSUME Init PROVE GraphInv
  OBVIOUS
<1>1. TypeOK
  BY LoadsType DEF Init, TypeOK
<1>2. Numbers /\ Imports
  BY LoadsType DEF Init, Numbers, Imports
<1>3. LiveExact
  BY IdentFacts DEF Init, LiveExact
<1>4. BaseNamed /\ Pending /\ BaseAcyclic /\ BaseHasBacklink
  BY DEF Init, BaseNamed, Pending, BaseAcyclic, BaseHasBacklink
<1> QED
  BY <1>1, <1>2, <1>3, <1>4 DEF GraphInv

\* Reading a module keeps it.
LEMMA GraphRead ==
  ASSUME GraphInv, NEW m \in Mods, ReadModule(m)
  PROVE  GraphInv'
<1> USE DEF ReadModule
<1>1. m # None /\ load \in Nat /\ load + 1 \in 0..MaxLoads /\ unres = << >> /\ Len(Stmts[m]) \in Nat
  BY LoadsType, StmtsType, LenProperties DEF GraphInv, TypeOK, Numbers
<1>2. TypeOK'
  BY <1>1 DEF GraphInv, TypeOK
<1>3. Numbers'
  <2>1. \A x \in Mods : list[x] \in Nat /\ list[x] <= load
    BY LoadsType DEF GraphInv, Numbers, TypeOK
  <2> QED
    BY <1>1, <2>1 DEF Numbers
<1>4. Imports'
  <2> SUFFICES ASSUME NEW n \in Names, Owner(n) = m, BaseName(n) \in Names, Owner(BaseName(n)) # m
               PROVE  list[Owner(BaseName(n))] # 0
    BY DEF Imports
  <2>1. Index(n) \in DOMAIN Stmts[m] /\ BaseName(n) = Stmts[m][Index(n)].base
    BY NameFacts DEF BaseName
  <2> QED
    BY <2>1
<1>5. LiveExact'
  <2> SUFFICES ASSUME NEW i \in Ident
               PROVE  i \in live <=> \/ list[Owner(i[2])] = i[1]
                                     \/ i[1] = load + 1 /\ Owner(i[2]) = m /\ Index(i[2]) <= 0
    BY <1>1 DEF LiveExact
  <2>1. ~(Index(i[2]) <= 0)
    BY IdentFacts, NameFacts
  <2>2. i \in live <=> list[Owner(i[2])] = i[1]
    BY DEF GraphInv, LiveExact
  <2> QED
    BY <2>1, <2>2
<1>6. BaseNamed' /\ BaseAcyclic' /\ BaseHasBacklink'
  BY DEF GraphInv, BaseNamed, BaseAcyclic, BaseHasBacklink, Chain
<1>7. Pending'
  BY <1>1 DEF GraphInv, Pending
<1> QED
  BY <1>2, <1>3, <1>4, <1>5, <1>6, <1>7 DEF GraphInv

\* lys_free of the module being read, whatever the reason.
LEMMA GraphFree ==
  ASSUME GraphInv, mod # None, Freed, mod' = None, unres' = << >>,
         load' = load, pos' = pos, list' = list
  PROVE  GraphInv'
<1>1. /\ base \in [Ident -> Ident \cup {None}] /\ der \in [Ident -> Seq(Ident)] /\ live \subseteq Ident
      /\ load \in 0..MaxLoads /\ mod \in Mods /\ pos \in Nat /\ list \in [Mods -> 0..MaxLoads]
  BY DEF GraphInv, TypeOK
<1>2. /\ base' \in [Ident -> Ident \cup {None}]
      /\ \A x \in Ident : base'[x] = IF x[1] = load THEN None ELSE base[x]
  BY <1>1 DEF Freed
<1>3. /\ der' \in [Ident -> Seq(Ident)]
      /\ \A x \in Ident : x[1] # load => der'[x] = der[x]
  BY <1>1 DEF Freed
<1>4. live' \subseteq Ident /\ \A x \in Ident : x \in live' <=> x \in live /\ x[1] # load
  BY <1>1 DEF Freed
<1>5. TypeOK'
  BY <1>1, <1>2, <1>3, <1>4 DEF TypeOK
<1>6. Numbers' /\ Imports'
  BY DEF GraphInv, Numbers, Imports
<1>7. \A x \in Mods : list[x] \in Nat /\ list[x] < load
  BY <1>1, LoadsType DEF GraphInv, Numbers
<1>8. LiveExact'
  <2> SUFFICES ASSUME NEW i \in Ident PROVE i \in live' <=> list[Owner(i[2])] = i[1]
    BY DEF LiveExact
  <2> QED
    BY <1>1, <1>4, <1>7, IdentFacts, LoadsType DEF GraphInv, LiveExact
<1>9. \A j \in Ident : base'[j] # None => base'[j] = base[j] /\ j[1] # load /\ base[j][1] # load
  <2> SUFFICES ASSUME NEW j \in Ident, base'[j] # None
               PROVE  base'[j] = base[j] /\ j[1] # load /\ base[j][1] # load
    OBVIOUS
  <2>1. base'[j] = base[j] /\ j[1] # load
    BY <1>2
  <2>2. base[j] \in Ident
    BY <1>1, <2>1
  <2>3. base[j][1] = IF Owner(base[j][2]) = Owner(j[2]) THEN j[1] ELSE list[Owner(base[j][2])]
    BY <2>1 DEF GraphInv, BaseNamed
  <2> QED
    BY <1>1, <1>7, <2>1, <2>2, <2>3, IdentFacts
<1>10. BaseNamed'
  <2> SUFFICES ASSUME NEW j \in Ident, base'[j] # None
               PROVE  /\ j \in live' /\ base'[j] \in live' /\ base'[j][2] = BaseName(j[2])
                      /\ base'[j][1] = IF Owner(base'[j][2]) = Owner(j[2]) THEN j[1]
                                       ELSE list'[Owner(base'[j][2])]
    BY DEF BaseNamed
  <2>1. base'[j] = base[j] /\ j[1] # load /\ base[j][1] # load
    BY <1>9
  <2>2. base[j] \in Ident
    BY <1>1, <2>1
  <2> QED
    BY <1>4, <2>1, <2>2 DEF GraphInv, BaseNamed
<1>11. Pending'
  <2> SUFFICES ASSUME NEW i \in live', BaseName(i[2]) # None PROVE base'[i] # None
    BY DEF Pending
  <2>1. i \in live /\ i \in Ident /\ i[1] # load /\ base'[i] = base[i]
    BY <1>2, <1>4
  <2>2. \A k \in DOMAIN unres : unres[k][1] = load
    BY DEF GraphInv, Pending
  <2> QED
    BY <2>1, <2>2 DEF GraphInv, Pending
<1>12. BaseAcyclic'
  <2>1. NoCycle(base')
    BY <1>1, <1>2, <1>9, GraphNoCycle, ClearNoCycle
  <2> QED
    BY <1>4, <2>1 DEF NoCycle, BaseAcyclic, Chain
<1>13. BaseHasBacklink'
  <2> SUFFICES ASSUME NEW j \in live', base'[j] # None PROVE j \in Range(der'[base'[j]])
    BY DEF BaseHasBacklink
  <2>1. j \in live /\ j \in Ident /\ base'[j] = base[j] /\ base[j][1] # load
    BY <1>4, <1>9
  <2>2. base[j] \in Ident /\ der'[base[j]] = der[base[j]]
    BY <1>1, <1>3, <2>1
  <2> QED
    BY <2>1, <2>2 DEF GraphInv, BaseHasBacklink
<1> QED
  BY <1>5, <1>6, <1>8, <1>10, <1>11, <1>12, <1>13 DEF GraphInv

\* Resolving a base keeps it.
LEMMA GraphResolve ==
  ASSUME GraphInv, resolve_unres_schema
  PROVE  GraphInv'
<1>1. CASE ~Resolvable(Head(unres))
  BY <1>1, GraphFree DEF resolve_unres_schema, Return
<1>2. CASE Resolvable(Head(unres))
  <2> DEFINE i == Head(unres)
  <2>1. /\ mod # None /\ unres # << >> /\ Link(i) /\ unres' = Tail(unres)
        /\ mod' = mod /\ live' = live /\ ret' = ret /\ load' = load /\ pos' = pos /\ list' = list
    BY <1>2 DEF resolve_unres_schema
  <2>2. unres \in Seq(live) /\ live \subseteq Ident /\ Len(unres) \in Nat \ {0}
        /\ DOMAIN unres = 1..Len(unres) /\ i = unres[1]
    BY <2>1 DEF GraphInv, TypeOK
  <2>3. /\ i \in live /\ i \in Ident /\ i[1] = load /\ base[i] = None
    BY <2>2 DEF GraphInv, Pending
  <2>4. Owner(i[2]) = mod
    <3>1. list[Owner(i[2])] < load /\ list[Owner(i[2])] \in Nat
      BY <2>1, <2>3, IdentFacts, LoadsType DEF GraphInv, Numbers, TypeOK
    <3> QED
      BY <2>3, <3>1 DEF GraphInv, LiveExact
  <2>5. live' = live \cup {i}
    BY <2>1, <2>3
  <2> HIDE DEF i
  <2>6. /\ base' \in [Ident -> Ident \cup {None}] /\ der' \in [Ident -> Seq(Ident)]
        /\ base'[i] # None /\ \A x \in Ident \ {i} : base'[x] = base[x]
        /\ BaseNamed' /\ BaseAcyclic' /\ BaseHasBacklink'
    BY <1>2, <2>1, <2>3, <2>4, <2>5, GraphLink DEF i
  <2>7. /\ Tail(unres) \in Seq(live) /\ Len(Tail(unres)) = Len(unres) - 1
        /\ DOMAIN Tail(unres) = 1..(Len(unres) - 1)
        /\ \A k \in 1..(Len(unres) - 1) : Tail(unres)[k] = unres[k + 1]
    BY <2>1, <2>2, HeadTailProperties, LenProperties
  <2>8. TypeOK'
    BY <2>1, <2>6, <2>7 DEF GraphInv, TypeOK
  <2>9. Numbers' /\ Imports' /\ LiveExact'
    BY <2>1 DEF GraphInv, Numbers, Imports, LiveExact
  <2>10. Pending'
    <3>1. ASSUME NEW k \in DOMAIN unres'
          PROVE  /\ k + 1 \in DOMAIN unres /\ k + 1 # 1 /\ unres'[k] = unres[k + 1]
                 /\ unres'[k] # i /\ base'[unres'[k]] = base[unres'[k]]
      <4>1. k + 1 \in DOMAIN unres /\ 1 \in DOMAIN unres /\ k + 1 # 1 /\ unres'[k] = unres[k + 1]
        BY <2>1, <2>2, <2>7
      <4>2. unres'[k] # i
        BY <2>2, <4>1 DEF GraphInv, Pending
      <4>3. unres'[k] \in Ident
        BY <2>2, <4>1
      <4> QED
        BY <2>6, <4>1, <4>2, <4>3
    <3>2. ASSUME NEW k \in DOMAIN unres'
          PROVE  LET n == unres'[k][2] IN
                 /\ unres'[k] \in live' /\ unres'[k][1] = load' /\ base'[unres'[k]] = None
                 /\ BaseName(n) # None
                 /\ BaseName(n) \in Names => Owner(BaseName(n)) = Owner(n) /\ Index(n) <= Index(BaseName(n))
      BY <2>1, <3>1 DEF GraphInv, Pending
    <3>3. ASSUME NEW k \in DOMAIN unres', NEW l \in DOMAIN unres', unres'[k] = unres'[l] PROVE k = l
      <4>1. k + 1 = l + 1
        BY <3>1, <3>3 DEF GraphInv, Pending
      <4> QED
        BY <2>1, <2>2, <2>7, <4>1
    <3>4. ASSUME NEW j \in live', BaseName(j[2]) # None, base'[j] = None
          PROVE  \E k \in DOMAIN unres' : unres'[k] = j
      <4>1. j # i /\ j \in live /\ j \in Ident
        BY <2>1, <2>2, <2>6, <3>4
      <4>2. base[j] = None
        BY <2>6, <3>4, <4>1
      <4>3. PICK k \in DOMAIN unres : unres[k] = j
        BY <3>4, <4>1, <4>2 DEF GraphInv, Pending
      <4>4. k # 1 /\ k - 1 \in 1..(Len(unres) - 1) /\ (k - 1) + 1 = k
        BY <2>2, <4>1, <4>3
      <4> QED
        BY <2>1, <2>7, <4>3, <4>4
    <3> QED
      BY <3>2, <3>3, <3>4 DEF Pending
  <2> QED
    BY <2>6, <2>8, <2>9, <2>10 DEF GraphInv
<1> QED
  BY <1>1, <1>2

\* What fill_yin_identity starts from: a new identity that nothing leads to.
LEMMA NewIdent ==
  ASSUME GraphInv, mod # None, pos < Len(Stmts[mod]),
         NEW i, i = <<load, Stmts[mod][pos + 1].name>>
  PROVE  /\ i \in Ident /\ i[1] = load /\ Owner(i[2]) = mod /\ Index(i[2]) = pos + 1
         /\ i \notin live /\ base[i] = None /\ \A b \in live : i \notin Chain(b)
<1>1. mod \in Mods /\ load \in 0..MaxLoads /\ pos \in Nat /\ list \in [Mods -> 0..MaxLoads]
  BY DEF GraphInv, TypeOK
<1>2. Len(Stmts[mod]) \in Nat /\ pos + 1 \in 1..Len(Stmts[mod])
  BY <1>1, StmtsType, LenProperties
<1>3. list[mod] < load
  BY <1>1 DEF GraphInv, Numbers
<1>4. load \in 1..MaxLoads
  BY <1>1, <1>3, LoadsType
<1>5. i[2] \in Names /\ Owner(i[2]) = mod /\ Index(i[2]) = pos + 1
  BY <1>1, <1>2, StmtFacts
<1>6. i \in Ident
  BY <1>4, <1>5 DEF Ident
<1>7. i \notin live
  BY <1>1, <1>3, <1>5, <1>6, LoadsType DEF GraphInv, LiveExact
<1> QED
  BY <1>5, <1>6, <1>7, ChainLive DEF GraphInv, BaseNamed

\* One more identity is read; its base, if it is known, is set.
LEMMA GraphFill ==
  ASSUME GraphInv, fill_yin_identity
  PROVE  GraphInv'
<1> DEFINE i == <<load, Stmts[mod][pos + 1].name>>
           n == i[2]
<1>1. /\ mod # None /\ pos < Len(Stmts[mod]) /\ live' = live \cup {i} /\ pos' = pos + 1
      /\ mod' = mod /\ load' = load /\ list' = list /\ ret' = ret
  BY DEF fill_yin_identity
<1>2. /\ BaseName(n) = None => base' = base /\ der' = der /\ unres' = unres
      /\ BaseName(n) # None /\ Resolvable(i) => Link(i) /\ unres' = unres
      /\ BaseName(n) # None /\ ~Resolvable(i) => base' = base /\ der' = der /\ unres' = Append(unres, i)
  BY DEF fill_yin_identity, Queued
<1>3. i[1] = load /\ i[2] = n
  OBVIOUS
<1>4. /\ i \in Ident /\ Owner(n) = mod /\ Index(n) = pos + 1
      /\ i \notin live /\ base[i] = None /\ \A b \in live : i \notin Chain(b)
  BY <1>1, NewIdent
<1> HIDE DEF i, n
<1>5. /\ mod \in Mods /\ pos \in Nat /\ live \subseteq Ident /\ unres \in Seq(live)
      /\ base \in [Ident -> Ident \cup {None}] /\ der \in [Ident -> Seq(Ident)]
      /\ DOMAIN unres = 1..Len(unres) /\ Len(unres) \in Nat
  BY <1>1, LenProperties DEF GraphInv, TypeOK
<1>6. /\ base' \in [Ident -> Ident \cup {None}] /\ der' \in [Ident -> Seq(Ident)]
      /\ \A x \in Ident \ {i} : base'[x] = base[x]
      /\ BaseNamed' /\ BaseAcyclic' /\ BaseHasBacklink'
  <2>1. CASE BaseName(n) # None /\ Resolvable(i)
    BY <1>1, <1>2, <1>3, <1>4, <2>1, GraphLink
  <2>2. CASE ~(BaseName(n) # None /\ Resolvable(i))
    <3>1. base' = base /\ der' = der
      BY <1>2, <2>2
    <3>2. BaseNamed'
      BY <1>1, <3>1 DEF GraphInv, BaseNamed
    <3>3. BaseAcyclic'
      BY <1>1, <1>4, <3>1 DEF GraphInv, BaseAcyclic, Chain
    <3>4. BaseHasBacklink'
      BY <1>1, <1>4, <3>1 DEF GraphInv, BaseHasBacklink
    <3> QED
      BY <1>5, <3>1, <3>2, <3>3, <3>4
  <2> QED
    BY <2>1, <2>2
<1>7. unres' \in Seq(live') /\ (unres' = unres \/ unres' = Append(unres, i))
  <2>1. unres \in Seq(live') /\ i \in live'
    BY <1>1, <1>5, SeqMonotonic
  <2>2. Append(unres, i) \in Seq(live')
    BY <2>1
  <2> QED
    BY <1>2, <2>1, <2>2
<1>8. TypeOK'
  <2>1. pos + 1 \in Nat /\ pos + 1 <= Len(Stmts[mod])
    BY <1>1, <1>5, StmtsType, LenProperties
  <2> QED
    BY <1>1, <1>4, <1>6, <1>7, <2>1 DEF GraphInv, TypeOK
<1>9. Numbers' /\ Imports'
  BY <1>1 DEF GraphInv, Numbers, Imports
<1>10. LiveExact'
  <2> SUFFICES ASSUME NEW j \in Ident
               PROVE  j \in live' <=>
                        \/ list[Owner(j[2])] = j[1]
                        \/ j[1] = load /\ Owner(j[2]) = mod /\ Index(j[2]) <= pos + 1
    BY <1>1 DEF LiveExact
  <2>1. j \in live <=> \/ list[Owner(j[2])] = j[1]
                       \/ j[1] = load /\ Owner(j[2]) = mod /\ Index(j[2]) <= pos
    BY <1>1 DEF GraphInv, LiveExact
  <2>2. j = i <=> j[1] = load /\ Owner(j[2]) = mod /\ Index(j[2]) = pos + 1
    BY <1>3, <1>4, IdentFacts, NameFacts
  <2>3. Index(j[2]) \in Nat
    BY IdentFacts
  <2> QED
    BY <1>1, <1>5, <2>1, <2>2, <2>3
<1>11. unres # Append(unres, i)
  <2> DEFINE S == live \cup {i}
  <2>1. unres \in Seq(S) /\ i \in S
    BY <1>5, SeqMonotonic
  <2> HIDE DEF S
  <2> QED
    BY <2>1, AppendLonger
<1>12. Pending'
  <2>1. ASSUME NEW k \in DOMAIN unres
        PROVE  unres[k] \in live /\ unres[k] \in Ident /\ unres[k] # i /\ base'[unres[k]] = base[unres[k]]
    BY <1>4, <1>5, <1>6 DEF GraphInv, Pending
  <2>2. CASE unres' = unres
    <3>1. ASSUME NEW j \in live', BaseName(j[2]) # None, base'[j] = None
          PROVE  \E k \in DOMAIN unres' : unres'[k] = j
      <4>1. CASE j = i
        <5>1. BaseName(n) # None
          BY <1>3, <3>1, <4>1
        <5>3. Resolvable(i)
          BY <1>2, <1>11, <2>2, <5>1
        <5>4. base'[i] # None
          BY <1>1, <1>2, <1>3, <1>4, <5>1, <5>3, GraphLink
        <5> QED
          BY <3>1, <4>1, <5>4
      <4>2. CASE j # i
        BY <1>1, <1>5, <1>6, <2>2, <3>1, <4>2 DEF GraphInv, Pending
      <4> QED
        BY <4>1, <4>2
    <3> QED
      BY <1>1, <2>1, <2>2, <3>1 DEF GraphInv, Pending
  <2>3. CASE unres' = Append(unres, i)
    <3>2. BaseName(n) # None /\ ~Resolvable(i) /\ base' = base
      BY <1>2, <1>11, <2>3
    <3>3. BaseName(n) \in Names => Owner(BaseName(n)) = Owner(n) /\ Index(n) <= Index(BaseName(n))
      <4> SUFFICES ASSUME BaseName(n) \in Names PROVE Owner(BaseName(n)) = Owner(n) /\ Index(n) <= Index(BaseName(n))
        OBVIOUS
      <4> DEFINE b == Found(BaseName(i[2]))
      <4>1. b = None \/ i \in Chain(b)
        BY <3>2 DEF Resolvable, Circular
      <4>2. b # None => b \in live
        BY <1>1, <1>3, <1>4, FoundFacts
      <4>3. b = None
        BY <1>4, <4>1, <4>2
      <4>4. Owner(BaseName(n)) = mod /\ ~(Index(BaseName(n)) <= pos)
        BY <1>1, <1>3, <1>4, <4>3, FoundFacts
      <4>5. Index(BaseName(n)) \in Nat
        BY NameFacts
      <4> QED
        BY <1>4, <1>5, <4>4, <4>5
    <3>4. /\ DOMAIN unres' = 1..(Len(unres) + 1) /\ unres'[Len(unres) + 1] = i
          /\ \A k \in DOMAIN unres : unres'[k] = unres[k]
      <4>1. unres \in Seq(live') /\ i \in live'
        BY <1>1, <1>5, SeqMonotonic
      <4> QED
        BY <1>5, <2>3, <4>1, AppendProperties, LenProperties
    <3>5. ASSUME NEW k \in DOMAIN unres'
          PROVE  k \in DOMAIN unres \/ k = Len(unres) + 1
      BY <1>5, <3>4
    <3>6. ASSUME NEW k \in DOMAIN unres'
          PROVE  LET q == unres'[k][2] IN
                 /\ unres'[k] \in live' /\ unres'[k][1] = load' /\ base'[unres'[k]] = None
                 /\ BaseName(q) # None
                 /\ BaseName(q) \in Names => Owner(BaseName(q)) = Owner(q) /\ Index(q) <= Index(BaseName(q))
      <4>1. CASE k \in DOMAIN unres
        BY <1>1, <3>2, <3>4, <4>1 DEF GraphInv, Pending
      <4>2. CASE k = Len(unres) + 1
        BY <1>1, <1>3, <1>4, <3>2, <3>3, <3>4, <4>2
      <4> QED
        BY <3>5, <4>1, <4>2
    <3>7. ASSUME NEW k \in DOMAIN unres', NEW l \in DOMAIN unres', unres'[k] = unres'[l] PROVE k = l
      BY <2>1, <3>4, <3>5, <3>7 DEF GraphInv, Pending
    <3>8. ASSUME NEW j \in live', BaseName(j[2]) # None, base'[j] = None
          PROVE  \E k \in DOMAIN unres' : unres'[k] = j
      <4>1. CASE j = i
        BY <1>5, <3>4, <4>1
      <4>2. CASE j # i
        <5>1. PICK k \in DOMAIN unres : unres[k] = j
          BY <1>1, <3>2, <3>8, <4>2 DEF GraphInv, Pending
        <5> QED
          BY <1>5, <3>4, <5>1
      <4> QED
        BY <4>1, <4>2
    <3> QED
      BY <3>6, <3>7, <3>8 DEF Pending
  <2> QED
    BY <1>7, <2>2, <2>3
<1> QED
  BY <1>6, <1>8, <1>9, <1>10, <1>12 DEF GraphInv

\* Adding a module to the context keeps it.
LEMMA GraphAdd ==
  ASSUME GraphInv, AddModule
  PROVE  GraphInv'
<1>1. CASE list[mod] # 0
  BY <1>1, GraphFree DEF AddModule, Return
<1>2. CASE list[mod] = 0
  <2>1. /\ mod # None /\ pos = Len(Stmts[mod]) /\ unres = << >> /\ unres' = << >> /\ mod' = None
        /\ list' = [list EXCEPT ![mod] = load]
        /\ base' = base /\ der' = der /\ live' = live /\ load' = load /\ pos' = pos
    BY <1>2 DEF AddModule, Return
  <2>2. mod \in Mods /\ load \in 0..MaxLoads /\ list \in [Mods -> 0..MaxLoads] /\ live \subseteq Ident
    BY <2>1 DEF GraphInv, TypeOK
  <2>3. list'[mod] = load /\ \A m \in Mods \ {mod} : list'[m] = list[m]
    BY <2>1, <2>2
  <2>4. TypeOK'
    BY <2>1, <2>2 DEF GraphInv, TypeOK
  <2>5. Numbers' /\ Imports'
    BY <2>1, <2>2, <2>3, LoadsType DEF GraphInv, Numbers, Imports
  <2>6. LiveExact'
    <3> SUFFICES ASSUME NEW i \in Ident PROVE i \in live <=> list'[Owner(i[2])] = i[1]
      BY <2>1 DEF LiveExact
    <3>1. i \in live <=> \/ list[Owner(i[2])] = i[1]
                         \/ i[1] = load /\ Owner(i[2]) = mod /\ Index(i[2]) <= pos
      BY <2>1 DEF GraphInv, LiveExact
    <3>2. Owner(i[2]) = mod => Index(i[2]) <= pos
      BY <2>1, IdentFacts, NameFacts
    <3> QED
      BY <1>2, <2>3, <3>1, <3>2, IdentFacts
  <2>7. BaseNamed'
    <3> SUFFICES ASSUME NEW i \in Ident, base[i] # None
                 PROVE  /\ i \in live /\ base[i] \in live /\ base[i][2] = BaseName(i[2])
                        /\ base[i][1] = IF Owner(base[i][2]) = Owner(i[2]) THEN i[1]
                                        ELSE list'[Owner(base[i][2])]
      BY <2>1 DEF BaseNamed
    <3>1. /\ i \in live /\ base[i] \in live /\ base[i][2] = BaseName(i[2]) /\ base[i] \in Ident
          /\ base[i][1] = IF Owner(base[i][2]) = Owner(i[2]) THEN i[1]
                          ELSE list[Owner(base[i][2])]
      BY <2>2 DEF GraphInv, BaseNamed
    <3>2. base[i][1] # 0 /\ Owner(base[i][2]) \in Mods
      BY <3>1, IdentFacts
    <3> QED
      BY <1>2, <2>3, <3>1, <3>2
  <2>8. Pending' /\ BaseAcyclic' /\ BaseHasBacklink'
    BY <2>1 DEF GraphInv, Pending, BaseAcyclic, BaseHasBacklink, Chain
  <2> QED
    BY <2>4, <2>5, <2>6, <2>7, <2>8 DEF GraphInv
<1> QED
  BY <1>1, <1>2

\* Every step keeps it.
LEMMA GraphStep == GraphInv /\ [Next]_vars => GraphInv'
<1> SUFFICES ASSUME GraphInv, [Next]_vars PROVE GraphInv'
  OBVIOUS
<1>1. ASSUME NEW m \in Mods, ReadModule(m) PROVE GraphInv'
  BY <1>1, GraphRead
<1>2. CASE fill_yin_identity
  BY <1>2, GraphFill
<1>3. CASE OtherError
  BY <1>3, GraphFree DEF OtherError, Return
<1>4. CASE resolve_unres_schema
  BY <1>4, GraphResolve
<1>5. CASE AddModule
  BY <1>5, GraphAdd
<1>6. CASE UNCHANGED vars
  BY <1>6 DEF vars, GraphInv, TypeOK, Numbers, Imports, LiveExact, BaseNamed, Pending,
              BaseAcyclic, BaseHasBacklink, Chain
<1> QED
  BY <1>1, <1>2, <1>3, <1>4, <1>5, <1>6 DEF Next, Done

\* The graph of bases is sound in every state, for any documents: no cycle is
\* ever closed although the check of resolve_base_ident_sub sees only the
\* pointers that are set, no list of backlinks is overwritten, and freeing a
\* module leaves no base that points into it.
THEOREM BasesSound == Spec => []BaseGraph
<1>1. GraphInv => BaseGraph
  BY DEF GraphInv, BaseGraph
<1> QED
  BY <1>1, GraphInit, GraphStep, PTL DEF Spec

-----------------------------------------------------------------------------
(* Which modules are refused                                               *)

\* When all bases of a new module are set its chains of names are sound.
LEMMA ResolvedSound ==
  ASSUME GraphInv, mod # None, pos = Len(Stmts[mod]), unres = << >>, list[mod] = 0
  PROVE  Sound(mod)
<1>1. mod \in Mods /\ live \subseteq Ident /\ base \in [Ident -> Ident \cup {None}] /\ load \in 0..MaxLoads
      /\ list \in [Mods -> 0..MaxLoads]
  BY DEF GraphInv, TypeOK
<1>2. \A x \in live : base[x] = None => BaseName(x[2]) = None
  BY DEF GraphInv, Pending
<1> SUFFICES ASSUME NEW k \in DOMAIN Stmts[mod], NEW n, n = Stmts[mod][k].name
             PROVE  n \notin Above(n) /\ Above(n) \subseteq Names \cup {None}
  BY DEF Sound
<1>3. k \in 1..Len(Stmts[mod])
  BY <1>1, StmtsType, LenProperties
<1>4. n \in Names /\ Owner(n) = mod /\ Index(n) <= pos
  BY <1>1, <1>3, StmtFacts
<1> DEFINE i == <<load, n>>
<1>5. i \in live /\ i \in Ident /\ i[1] = load /\ i[2] = n
  <2>1. 0 < load
    BY <1>1 DEF GraphInv, Numbers
  <2>2. i \in Ident
    BY <1>1, <1>4, <2>1, LoadsType DEF Ident
  <2> QED
    BY <1>4, <2>2 DEF GraphInv, LiveExact
<1> HIDE DEF i
<1>6. CASE base[i] = None
  <2>1. BaseName(n) = None
    BY <1>2, <1>5, <1>6
  <2> DEFINE T == {None}
  <2>2. BaseName(n) \in T /\ T \cap Names = {}
    BY <2>1, LoadsType
  <2> HIDE DEF T
  <2>3. Above(n) \subseteq T
    BY <1>4, <2>2, AboveFacts
  <2> QED
    BY <1>4, <2>3, LoadsType DEF T
<1>7. CASE base[i] # None
  <2> DEFINE C == Chain(base[i])
             T == {x[2] : x \in C} \cup {None}
  <2>1. base[i] \in live /\ base[i] \in Ident /\ base[i][2] = BaseName(n)
    BY <1>1, <1>5, <1>7 DEF GraphInv, BaseNamed
  <2>2. C \subseteq live /\ base[i] \in C /\ \A x \in C : base[x] # None => base[x] \in C
    BY <1>1, <2>1, ChainLive, ChainFacts DEF Chain
  <2> HIDE DEF C
  <2>3. BaseName(n) \in T
    BY <2>1, <2>2
  <2>4. ASSUME NEW y \in T \cap Names PROVE BaseName(y) \in T
    <3>1. PICK x \in C : y = x[2]
      BY LoadsType
    <3>2. CASE base[x] = None
      BY <1>2, <2>2, <3>1, <3>2
    <3>3. CASE base[x] # None
      <4>1. base[x] \in C /\ base[x][2] = BaseName(y)
        BY <1>1, <2>2, <3>1, <3>3 DEF GraphInv, BaseNamed
      <4> QED
        BY <4>1
    <3> QED
      BY <3>2, <3>3
  <2>5. T \subseteq Names \cup {None}
    BY <1>1, <2>2, IdentFacts
  <2>6. n \notin T
    <3> SUFFICES ASSUME NEW x \in C, x[2] = n PROVE FALSE
      BY <1>4, LoadsType
    <3>1. x \in Ident /\ x \in live
      BY <1>1, <2>2
    <3>2. x[1] = load
      BY <1>4, <3>1, IdentFacts DEF GraphInv, LiveExact
    <3>3. x = i
      BY <1>5, <3>1, <3>2, IdentFacts DEF i
    <3> QED
      BY <1>5, <1>7, <3>3 DEF GraphInv, BaseAcyclic, C
  <2> HIDE DEF T
  <2>7. Above(n) \subseteq T
    BY <1>4, <2>3, <2>4, AboveFacts
  <2> QED
    BY <2>5, <2>6, <2>7
<1> QED
  BY <1>6, <1>7

\* A base that cannot be set when the whole module is read is undefined or
\* makes a circle of names.
LEMMA UnresolvedUnsound ==
  ASSUME GraphInv, mod # None, pos = Len(Stmts[mod]), unres # << >>, ~Resolvable(Head(unres))
  PROVE  ~Sound(mod)
<1> DEFINE i == Head(unres)
           n == i[2]
           b == Found(BaseName(i[2]))
<1>1. /\ mod \in Mods /\ live \subseteq Ident /\ base \in [Ident -> Ident \cup {None}]
      /\ unres \in Seq(live) /\ list \in [Mods -> 0..MaxLoads]
  BY DEF GraphInv, TypeOK
<1>2. 1 \in DOMAIN unres /\ i = unres[1]
  BY <1>1
<1>3. i \in live /\ i \in Ident /\ i[1] = load /\ BaseName(n) # None
  BY <1>1, <1>2 DEF GraphInv, Pending
<1>4. n \in Names /\ Owner(n) = mod
  <2>1. list[Owner(n)] < load /\ list[Owner(n)] \in Nat
    BY <1>1, <1>3, IdentFacts, LoadsType DEF GraphInv, Numbers
  <2> QED
    BY <1>3, <2>1, IdentFacts DEF GraphInv, LiveExact
<1>5. b = None \/ i \in Chain(b)
  BY DEF Resolvable, Circular
<1>6. /\ b # None => b \in live /\ b \in Ident /\ b[2] = BaseName(n)
      /\ b = None => BaseName(n) \notin Names
  <2>1. BaseName(n) \in Names /\ Owner(BaseName(n)) = mod => Index(BaseName(n)) <= pos
    BY NameFacts
  <2> QED
    BY <1>3, <1>4, <2>1, FoundFacts
<1> HIDE DEF i, b
<1>7. Index(n) \in DOMAIN Stmts[mod] /\ Stmts[mod][Index(n)].name = n
  BY <1>4, NameFacts
<1>8. SUFFICES n \in Above(n) \/ ~(Above(n) \subseteq Names \cup {None})
  BY <1>7 DEF Sound
<1>9. CASE b = None
  BY <1>3, <1>4, <1>6, <1>9, AboveFacts
<1>10. CASE b # None
  <2> DEFINE T == {x \in Ident : x[2] \in Above(n)}
  <2>1. b \in T
    BY <1>4, <1>6, <1>10, AboveFacts
  <2>2. ASSUME NEW x \in T \cap Ident, base[x] # None PROVE base[x] \in T
    <3>1. base[x] \in Ident /\ base[x][2] = BaseName(x[2])
      BY <1>1, <2>2 DEF GraphInv, BaseNamed
    <3>2. x[2] \in Names /\ x[2] \in Above(n)
      BY IdentFacts
    <3>3. BaseName(x[2]) \in Above(n)
      BY <1>4, <3>2, AboveFacts
    <3> QED
      BY <3>1, <3>3
  <2>3. \A x \in T : x[2] \in Above(n)
    OBVIOUS
  <2> HIDE DEF T
  <2>4. ChainOf(base, b) \subseteq T
    BY <1>1, <1>6, <1>10, <2>1, <2>2, ChainFacts
  <2> QED
    BY <1>5, <1>10, <2>3, <2>4 DEF Chain
<1> QED
  BY <1>9, <1>10

\* A verdict, once right, stays right in every step.
LEMMA VerdictStep ==
  ASSUME GraphInv, Verdicts, [Next]_vars
  PROVE  Verdicts'
<1>1. mod # None => mod \in Mods
  BY DEF GraphInv, TypeOK
<1>2. ASSUME NEW m \in Mods, ReadModule(m) PROVE Verdicts'
  BY <1>2 DEF ReadModule, Verdicts
<1>3. CASE fill_yin_identity
  BY <1>3 DEF fill_yin_identity, Verdicts
<1>4. CASE OtherError
  BY <1>4 DEF OtherError, Return, Verdicts
<1>5. CASE resolve_unres_schema
  <2>1. CASE Resolvable(Head(unres))
    BY <1>5, <2>1 DEF resolve_unres_schema, Verdicts
  <2>2. CASE ~Resolvable(Head(unres))
    <3>1. mod # None /\ list' = list /\ ret' = [mod |-> mod, why |-> "base"] /\ ~Sound(mod)
      BY <1>5, <2>2, UnresolvedUnsound DEF resolve_unres_schema, Return
    <3> QED
      BY <1>1, <3>1 DEF Verdicts
  <2> QED
    BY <2>1, <2>2
<1>6. CASE AddModule
  <2>1. mod \in Mods /\ ret' = [mod |-> mod, why |-> "ok"]
    BY <1>1, <1>6 DEF AddModule, Return
  <2>2. CASE list[mod] # 0
    BY <1>6, <2>1, <2>2 DEF AddModule, Verdicts
  <2>3. CASE list[mod] = 0
    <3>1. Sound(mod) /\ list' = [list EXCEPT ![mod] = load]
      BY <1>6, <2>3, ResolvedSound DEF AddModule
    <3>2. list \in [Mods -> 0..MaxLoads] /\ load # 0
      <4>1. list[mod] < load
        BY <1>6, <2>1 DEF AddModule, GraphInv, Numbers
      <4> QED
        BY <2>3, <4>1 DEF GraphInv, TypeOK
    <3> QED
      BY <2>1, <3>1, <3>2 DEF Verdicts
  <2> QED
    BY <2>2, <2>3
<1>7. CASE UNCHANGED vars
  BY <1>7 DEF vars, Verdicts
<1> QED
  BY <1>2, <1>3, <1>4, <1>5, <1>6, <1>7 DEF Next, Done

\* Whether a module loads depends on its chains of bases and not on the order
\* of its statements, nor on what was read before: one pass over the list of
\* waiting items refuses the unsound modules and no others.
THEOREM OrderIrrelevant == Spec => []RefusedIffUnsound
<1>1. Init => Verdicts
  BY DEF Init, Verdicts
<1>2. GraphInv /\ Verdicts /\ [Next]_vars => Verdicts'
  BY VerdictStep
<1>3. Verdicts => RefusedIffUnsound
  BY DEF Verdicts, RefusedIffUnsound
<1> QED
  BY <1>1, <1>2, <1>3, GraphInit, GraphStep, PTL DEF Spec

-----------------------------------------------------------------------------
(* Exact backlinks                                                         *)

\* An identity of the context has no ancestor in the module being read.
LEMMA ChainListed ==
  ASSUME GraphInv, mod # None, NEW j \in live, j[1] # load
  PROVE  \A x \in Chain(j) : x[1] # load
<1>1. base \in [Ident -> Ident \cup {None}] /\ j \in Ident /\ load \in Nat /\ list \in [Mods -> 0..MaxLoads]
  BY LoadsType DEF GraphInv, TypeOK
<1> DEFINE T == {x \in Ident : x[1] # load}
<1>2. ASSUME NEW x \in T \cap Ident, base[x] # None PROVE base[x] \in T
  <2>1. /\ base[x] \in Ident
        /\ base[x][1] = IF Owner(base[x][2]) = Owner(x[2]) THEN x[1] ELSE list[Owner(base[x][2])]
    BY <1>1, <1>2 DEF GraphInv, BaseNamed
  <2>2. list[Owner(base[x][2])] < load /\ list[Owner(base[x][2])] \in Nat
    BY <1>1, <2>1, IdentFacts, LoadsType DEF GraphInv, Numbers
  <2> QED
    BY <1>1, <2>1, <2>2
<1>3. j \in T
  BY <1>1
<1> HIDE DEF T
<1>4. ChainOf(base, j) \subseteq T
  BY <1>1, <1>2, <1>3, ChainFacts
<1> QED
  BY <1>4 DEF Chain, T

\* An identity without a base is its own chain.
LEMMA ChainAlone ==
  ASSUME NEW f \in [Ident -> Ident \cup {None}], NEW i \in Ident, f[i] = None
  PROVE  ChainOf(f, i) = {i}
<1> DEFINE T == {i}
<1>1. i \in T /\ \A x \in T \cap Ident : f[x] # None => f[x] \in T
  OBVIOUS
<1> HIDE DEF T
<1>2. ChainOf(f, i) \subseteq T
  BY <1>1, ChainFacts
<1> QED
  BY <1>2, ChainFacts DEF T

\* What setting the base of i does to the chains.
ChainsLinked(f, g, i, b) ==
  /\ ChainOf(g, i) = {i} \cup ChainOf(f, b)
  /\ \A j \in Ident : i \notin ChainOf(f, j) => ChainOf(g, j) = ChainOf(f, j)

\* A base that does not lead to i goes before the chain of i and of no other.
LEMMA ChainLink ==
  ASSUME NEW f \in [Ident -> Ident \cup {None}], NEW i \in Ident, NEW b \in Ident,
         f[i] = None, i \notin ChainOf(f, b)
  PROVE  ChainsLinked(f, [f EXCEPT ![i] = b], i, b)
<1> DEFINE g == [f EXCEPT ![i] = b]
<1>1. g \in [Ident -> Ident \cup {None}] /\ g[i] = b /\ \A x \in Ident \ {i} : g[x] = f[x]
  OBVIOUS
<1> HIDE DEF g
<1>2. ASSUME NEW j \in Ident, i \notin ChainOf(f, j) PROVE ChainOf(g, j) = ChainOf(f, j)
  <2>1. ChainOf(f, j) \subseteq Ident /\ j \in ChainOf(f, j)
        /\ \A x \in ChainOf(f, j) : f[x] # None => f[x] \in ChainOf(f, j)
    BY ChainFacts
  <2>2. \A x \in ChainOf(f, j) \cap Ident : g[x] # None => g[x] \in ChainOf(f, j)
    BY <1>1, <1>2, <2>1
  <2>3. ChainOf(g, j) \subseteq ChainOf(f, j)
    BY <1>1, <2>1, <2>2, ChainFacts
  <2>4. \A x \in ChainOf(g, j) \cap Ident : f[x] # None => f[x] \in ChainOf(g, j)
    BY <1>1, <1>2, <2>3, ChainFacts
  <2>5. ChainOf(f, j) \subseteq ChainOf(g, j)
    BY <1>1, <2>4, ChainFacts
  <2> QED
    BY <2>3, <2>5
<1>3. ChainOf(g, i) = {i} \cup ChainOf(f, b)
  <2>1. ChainOf(g, b) = ChainOf(f, b)
    BY <1>2
  <2> DEFINE T == {i} \cup ChainOf(g, b)
  <2>2. i \in T /\ \A x \in T \cap Ident : g[x] # None => g[x] \in T
    BY <1>1, ChainFacts
  <2>3. b \in ChainOf(g, i) /\ i \in ChainOf(g, i) /\ \A x \in ChainOf(g, i) \cap Ident : g[x] # None => g[x] \in ChainOf(g, i)
    BY <1>1, ChainFacts, LoadsType
  <2>4. ChainOf(g, b) \subseteq ChainOf(g, i)
    BY <1>1, <2>3, ChainFacts
  <2> HIDE DEF T
  <2>5. ChainOf(g, i) \subseteq T
    BY <1>1, <2>2, ChainFacts
  <2> QED
    BY <2>1, <2>3, <2>4, <2>5 DEF T
<1> QED
  BY <1>2, <1>3 DEF ChainsLinked, g

\* A backlink for every ancestor and none too many, when i had no descendants.
LEMMA ExactLink ==
  ASSUME GraphInv, LinkInv, mod # None, NEW i \in Ident, i[1] = load, Owner(i[2]) = mod,
         Resolvable(i), Link(i), base[i] = None, live' = live \cup {i}, list' = list,
         load' = load, mod' = mod,
         InOrder(mod) => /\ \A x \in live' : i \notin Range(der[x])
                         /\ \A j \in Ident : base[j] # i
  PROVE  LinkInv'
<1> DEFINE b == Found(BaseName(i[2]))
<1>1. b # None /\ i \notin Chain(b) /\ base' = [base EXCEPT ![i] = b] /\ der' = Linked(i, b)
  BY DEF Resolvable, Circular, Link
<1>2. b \in live /\ b \in Ident
  BY <1>1, FoundFacts
<1> HIDE DEF b
<1>3. /\ TypeOK /\ BaseNamed /\ BaseHasBacklink /\ base \in [Ident -> Ident \cup {None}]
      /\ der \in [Ident -> Seq(Ident)] /\ live \subseteq Ident /\ load \in Nat
  BY LoadsType DEF GraphInv, TypeOK
<1>4. /\ \A x \in Chain(b) : Range(der'[x]) = Range(der[x]) \cup {i}
      /\ \A x \in Ident \ Chain(b) : der'[x] = der[x]
  <2>1. /\ Linked(i, b) \in [Ident -> Seq(Ident)]
        /\ \A x \in Chain(b) : Range(Linked(i, b)[x]) = Range(der[x]) \cup {i}
        /\ \A x \in Ident \ Chain(b) : Linked(i, b)[x] = der[x]
    BY <1>2, <1>3, LinkedFacts
  <2> QED
    BY <1>1, <2>1
<1>5. Chain(b) \subseteq live
  BY <1>2, ChainLive
<1>6. /\ ChainOf(base', i) = {i} \cup Chain(b)
      /\ \A j \in Ident : i \notin Chain(j) => ChainOf(base', j) = Chain(j)
  <2>1. i \notin ChainOf(base, b)
    BY <1>1 DEF Chain
  <2>2. ChainsLinked(base, [base EXCEPT ![i] = b], i, b)
    BY <1>2, <1>3, <2>1, ChainLink
  <2> QED
    BY <1>1, <2>2 DEF Chain, ChainsLinked
<1>7. BacklinksOld'
  <2> SUFFICES ASSUME NEW x \in Ident
               PROVE  /\ x \notin live' => Range(der'[x]) = {}
                      /\ \A y \in Range(der'[x]) : y[1] <= load /\ (y[1] = load => y \in live')
    BY DEF BacklinksOld
  <2>1. CASE x \in Chain(b)
    <3>1. x \in live' /\ Range(der'[x]) = Range(der[x]) \cup {i} /\ i \in live'
      BY <1>4, <1>5, <2>1
    <3>2. \A y \in Range(der[x]) : y[1] <= load /\ (y[1] = load => y \in live)
      BY DEF LinkInv, BacklinksOld
    <3> QED
      BY <1>3, <3>1, <3>2
  <2>2. CASE x \notin Chain(b)
    BY <1>4, <2>2 DEF LinkInv, BacklinksOld
  <2> QED
    BY <2>1, <2>2
<1>8. BacklinksExact'
  <2> SUFFICES ASSUME NEW j \in live', InOrder(Owner(j[2])), NEW c \in live'
               PROVE  j \in Range(der'[c]) <=> c \in ChainOf(base', j) /\ c # j
    BY DEF BacklinksExact, Chain
  <2>1. CASE j = i
    <3>1. InOrder(mod) /\ c \in Ident
      BY <1>3, <2>1
    <3>2. i \notin Range(der[c])
      BY <3>1
    <3> QED
      BY <1>1, <1>4, <1>6, <2>1, <3>1, <3>2
  <2>2. CASE j # i
    <3>1. j \in live /\ j \in Ident
      BY <1>3, <2>2
    <3>2. i \notin Chain(j)
      <4>1. CASE j[1] # load
        BY <3>1, <4>1, ChainListed
      <4>2. CASE j[1] = load
        <5>1. Owner(j[2]) = mod
          <6>1. list[Owner(j[2])] < load /\ list[Owner(j[2])] \in Nat
            BY <3>1, IdentFacts, LoadsType DEF GraphInv, Numbers, TypeOK
          <6> QED
            BY <3>1, <4>2, <6>1 DEF GraphInv, LiveExact
        <5>2. \A y \in Ident : base[y] # i
          BY <5>1
        <5> DEFINE T == Ident \ {i}
        <5>3. j \in T /\ \A y \in T \cap Ident : base[y] # None => base[y] \in T
          BY <1>3, <2>2, <3>1, <5>2
        <5>4. i \notin T
          OBVIOUS
        <5> HIDE DEF T
        <5>5. ChainOf(base, j) \subseteq T
          BY <1>3, <3>1, <5>3, ChainFacts
        <5> QED
          BY <5>4, <5>5 DEF Chain
      <4> QED
        BY <4>1, <4>2
    <3>3. ChainOf(base', j) = Chain(j)
      BY <1>6, <3>1, <3>2
    <3>4. CASE c \in live
      <4>1. j \in Range(der[c]) <=> c \in Chain(j) /\ c # j
        BY <3>1, <3>4 DEF LinkInv, BacklinksExact
      <4> QED
        BY <1>3, <1>4, <2>2, <3>3, <3>4, <4>1
    <3>5. CASE c \notin live
      <4>1. c = i /\ Range(der[i]) = {} /\ der'[i] = der[i]
        BY <1>1, <1>4, <3>5 DEF LinkInv, BacklinksOld
      <4> QED
        BY <3>2, <3>3, <4>1
    <3> QED
      BY <3>4, <3>5
  <2> QED
    BY <2>1, <2>2
<1> QED
  BY <1>7, <1>8 DEF LinkInv

\* Every backlink names an identity.
LEMMA BacklinkFacts ==
  ASSUME TypeOK, NEW x \in Ident
  PROVE  \A y \in Range(der[x]) : y \in Ident /\ y[1] \in Nat
<1>1. der[x] \in Seq(Ident)
  BY DEF TypeOK
<1>2. \A y \in Range(der[x]) : y \in Ident
  BY <1>1 DEF Range
<1> QED
  BY <1>2, IdentFacts, LoadsType

\* Reading a module keeps the links of the derived arrays.
LEMMA LinkRead ==
  ASSUME GraphInv, LinkInv, NEW m \in Mods, ReadModule(m)
  PROVE  LinkInv'
<1>1. /\ load \in Nat /\ load' = load + 1 /\ mod' = m /\ mod = None
      /\ base' = base /\ der' = der /\ live' = live
  BY LoadsType DEF ReadModule, GraphInv, TypeOK
<1>2. BacklinksOld'
  <2> SUFFICES ASSUME NEW x \in Ident
               PROVE  /\ x \notin live => Range(der[x]) = {}
                      /\ \A y \in Range(der[x]) : y[1] <= load + 1 /\ y[1] # load + 1
    BY <1>1 DEF BacklinksOld
  <2>1. \A y \in Range(der[x]) : y[1] \in Nat /\ y[1] <= load
    BY BacklinkFacts DEF GraphInv, LinkInv, BacklinksOld
  <2>2. x \notin live => Range(der[x]) = {}
    BY DEF LinkInv, BacklinksOld
  <2>3. \A n \in Nat : n <= load => n <= load + 1 /\ n # load + 1
    BY <1>1
  <2> QED
    BY <2>1, <2>2, <2>3
<1>3. BacklinksExact'
  BY <1>1 DEF LinkInv, BacklinksExact, Chain
<1> QED
  BY <1>2, <1>3 DEF LinkInv

\* Filling a derived array keeps them.
LEMMA LinkFill ==
  ASSUME GraphInv, LinkInv, fill_yin_identity
  PROVE  LinkInv'
<1> DEFINE i == <<load, Stmts[mod][pos + 1].name>>
<1>1. /\ mod # None /\ pos < Len(Stmts[mod]) /\ live' = live \cup {i}
      /\ mod' = mod /\ load' = load /\ list' = list
      /\ \/ Resolvable(i) /\ Link(i)
         \/ base' = base /\ der' = der
  BY DEF fill_yin_identity
<1>2. /\ i \in Ident /\ i[1] = load /\ Owner(i[2]) = mod
      /\ i \notin live /\ base[i] = None /\ \A b \in live : i \notin Chain(b)
  BY <1>1, NewIdent
<1> HIDE DEF i
<1>3. /\ base \in [Ident -> Ident \cup {None}] /\ live \subseteq Ident
  BY DEF GraphInv, TypeOK
<1>4. \A x \in Ident : i \notin Range(der[x])
  BY <1>1, <1>2 DEF LinkInv, BacklinksOld
<1>5. \A j \in Ident : base[j] # i
  BY <1>2, LoadsType DEF GraphInv, BaseNamed
<1>6. CASE Resolvable(i) /\ Link(i)
  BY <1>1, <1>2, <1>3, <1>4, <1>5, <1>6, ExactLink
<1>7. CASE base' = base /\ der' = der
  <2>1. BacklinksOld'
    BY <1>1, <1>7 DEF LinkInv, BacklinksOld
  <2>2. BacklinksExact'
    <3> SUFFICES ASSUME NEW j \in live', InOrder(Owner(j[2])), NEW c \in live'
                 PROVE  j \in Range(der[c]) <=> c \in Chain(j) /\ c # j
      BY <1>7 DEF BacklinksExact, Chain
    <3>1. CASE j = i
      BY <1>1, <1>2, <1>3, <1>4, <3>1, ChainAlone DEF Chain
    <3>2. CASE j # i /\ c = i
      BY <1>1, <1>2, <3>2 DEF LinkInv, BacklinksOld
    <3>3. CASE j # i /\ c # i
      BY <1>1, <3>3 DEF LinkInv, BacklinksExact
    <3> QED
      BY <3>1, <3>2, <3>3
  <2> QED
    BY <2>1, <2>2 DEF LinkInv
<1> QED
  BY <1>1, <1>6, <1>7

\* Nothing in the context is derived from the module that is freed.
LEMMA LinkFree ==
  ASSUME GraphInv, LinkInv, mod # None, Freed, mod' = None, load' = load
  PROVE  LinkInv'
<1>1. /\ base \in [Ident -> Ident \cup {None}] /\ der \in [Ident -> Seq(Ident)] /\ live \subseteq Ident
  BY DEF GraphInv, TypeOK
<1>2. /\ base' \in [Ident -> Ident \cup {None}]
      /\ \A x \in Ident : base'[x] = IF x[1] = load THEN None ELSE base[x]
      /\ \A x \in Ident : der'[x] = IF x[1] = load THEN << >> ELSE der[x]
      /\ live' = {x \in live : x[1] # load}
  BY <1>1 DEF Freed
<1>3. Range(<< >>) = {}
  BY DEF Range
<1>4. BacklinksOld'
  <2> SUFFICES ASSUME NEW x \in Ident
               PROVE  /\ x \notin live' => Range(der'[x]) = {}
                      /\ \A y \in Range(der'[x]) : y[1] <= load
    BY DEF BacklinksOld
  <2> QED
    BY <1>2, <1>3 DEF LinkInv, BacklinksOld
<1>5. ASSUME NEW j \in live, j[1] # load PROVE ChainOf(base', j) = Chain(j)
  <2> DEFINE C == ChainOf(base, j)
             D == ChainOf(base', j)
  <2>1. \A x \in C : x[1] # load
    BY <1>5, ChainListed DEF Chain
  <2>2. j \in C /\ C \subseteq Ident /\ \A x \in C : base[x] # None => base[x] \in C
    BY <1>1, ChainFacts
  <2>3. j \in D /\ \A x \in D : base'[x] # None => base'[x] \in D
    BY <1>1, <1>2, ChainFacts
  <2>4. \A T : j \in T /\ (\A x \in T \cap Ident : base[x] # None => base[x] \in T) => C \subseteq T
    BY <1>1, ChainFacts
  <2>5. \A T : j \in T /\ (\A x \in T \cap Ident : base'[x] # None => base'[x] \in T) => D \subseteq T
    BY <1>1, <1>2, ChainFacts
  <2> HIDE DEF C, D
  <2>6. D \subseteq C
    BY <1>2, <2>1, <2>2, <2>5
  <2>7. C \subseteq D
    <3>1. \A x \in D \cap Ident : base[x] # None => base[x] \in D
      BY <1>2, <2>1, <2>3, <2>6
    <3> QED
      BY <2>3, <2>4, <3>1
  <2> QED
    BY <2>6, <2>7 DEF C, D, Chain
<1>6. BacklinksExact'
  <2> SUFFICES ASSUME NEW j \in live', InOrder(Owner(j[2])), NEW c \in live'
               PROVE  j \in Range(der'[c]) <=> c \in ChainOf(base', j) /\ c # j
    BY DEF BacklinksExact, Chain
  <2>1. j \in live /\ c \in live /\ j[1] # load /\ c[1] # load /\ c \in Ident
    BY <1>1, <1>2
  <2>2. der'[c] = der[c] /\ ChainOf(base', j) = Chain(j)
    BY <1>2, <1>5, <2>1
  <2> QED
    BY <2>1, <2>2 DEF LinkInv, BacklinksExact
<1> QED
  BY <1>4, <1>6 DEF LinkInv

\* A base that waited: in a module in order nothing was derived from it yet.
LEMMA LinkResolve ==
  ASSUME GraphInv, LinkInv, resolve_unres_schema, Resolvable(Head(unres))
  PROVE  LinkInv'
<1> DEFINE i == Head(unres)
<1>1. /\ mod # None /\ unres # << >> /\ Resolvable(i) /\ Link(i)
      /\ mod' = mod /\ live' = live /\ load' = load /\ list' = list
  BY DEF resolve_unres_schema
<1>2. unres \in Seq(live) /\ live \subseteq Ident /\ 1 \in DOMAIN unres /\ i = unres[1]
      /\ base \in [Ident -> Ident \cup {None}]
  BY <1>1 DEF GraphInv, TypeOK
<1>3. /\ i \in live /\ i \in Ident /\ i[1] = load /\ base[i] = None
      /\ BaseName(i[2]) \in Names =>
           Owner(BaseName(i[2])) = Owner(i[2]) /\ Index(i[2]) <= Index(BaseName(i[2]))
  BY <1>2 DEF GraphInv, Pending
<1>4. \A m \in Mods : list[m] < load /\ list[m] \in Nat
  BY <1>1, LoadsType DEF GraphInv, Numbers, TypeOK
<1>5. Owner(i[2]) = mod
  BY <1>3, <1>4, IdentFacts DEF GraphInv, LiveExact
<1>6. BaseName(i[2]) \in Names
  <2> DEFINE b == Found(BaseName(i[2]))
  <2>1. b # None
    BY <1>1 DEF Resolvable
  <2>2. b \in Ident /\ b[2] = BaseName(i[2])
    BY <1>1, <1>3, <1>5, <2>1, FoundFacts
  <2> HIDE DEF b
  <2> QED
    BY <2>2, IdentFacts
<1>7. live' = live \cup {i}
  BY <1>1, <1>3
<1> HIDE DEF i
<1>8. ASSUME InOrder(mod), NEW x \in live PROVE i \notin Range(der[x])
  BY <1>2, <1>3, <1>5, <1>8, ChainAlone DEF LinkInv, BacklinksExact, Chain
<1>9. ASSUME InOrder(mod), NEW j \in Ident, base[j] = i PROVE FALSE
  <2>1. i # None
    BY <1>3, LoadsType
  <2>2. /\ i[2] = BaseName(j[2])
        /\ i[1] = IF Owner(i[2]) = Owner(j[2]) THEN j[1] ELSE list[Owner(i[2])]
    BY <1>9, <2>1 DEF GraphInv, BaseNamed
  <2>3. Owner(j[2]) = mod /\ j[2] \in Names /\ i[2] \in Names
    BY <1>3, <1>4, <1>5, <2>2, IdentFacts
  <2>4. Index(BaseName(i[2])) < Index(i[2])
    BY <1>3, <1>5, <1>6, <1>9, <2>2, <2>3 DEF InOrder
  <2>5. Index(BaseName(i[2])) \in Nat /\ Index(i[2]) \in Nat
    BY <1>6, <2>3, NameFacts
  <2> QED
    BY <1>3, <1>6, <2>4, <2>5
<1> QED
  BY <1>1, <1>3, <1>5, <1>7, <1>8, <1>9, ExactLink

\* Every step keeps them.
LEMMA LinkStep == GraphInv /\ LinkInv /\ [Next]_vars => LinkInv'
<1> SUFFICES ASSUME GraphInv, LinkInv, [Next]_vars PROVE LinkInv'
  OBVIOUS
<1>1. ASSUME NEW m \in Mods, ReadModule(m) PROVE LinkInv'
  BY <1>1, LinkRead
<1>2. CASE fill_yin_identity
  BY <1>2, LinkFill
<1>3. CASE OtherError
  BY <1>3, LinkFree DEF OtherError, Return
<1>4. CASE resolve_unres_schema
  <2>1. CASE Resolvable(Head(unres))
    BY <1>4, <2>1, LinkResolve
  <2>2. CASE ~Resolvable(Head(unres))
    BY <1>4, <2>2, LinkFree DEF resolve_unres_schema, Return
  <2> QED
    BY <2>1, <2>2
<1>5. CASE AddModule
  <2>1. CASE list[mod] # 0
    BY <1>5, <2>1, LinkFree DEF AddModule, Return
  <2>2. CASE list[mod] = 0
    <3>1. mod' = None /\ base' = base /\ der' = der /\ live' = live /\ load' = load
      BY <1>5, <2>2 DEF AddModule, Return
    <3>2. BacklinksOld'
      BY <3>1 DEF LinkInv, BacklinksOld
    <3>3. BacklinksExact'
      BY <3>1 DEF LinkInv, BacklinksExact, Chain
    <3> QED
      BY <3>2, <3>3 DEF LinkInv
  <2> QED
    BY <2>1, <2>2
<1>6. CASE UNCHANGED vars
  BY <1>6 DEF vars, LinkInv, BacklinksOld, BacklinksExact, Chain
<1> QED
  BY <1>1, <1>2, <1>3, <1>4, <1>5, <1>6 DEF Next, Done

\* resolve_identref accepts exactly the base and what is derived from it, when
\* no sound module has an identity before its own base and after one derived
\* from it: resolve_base_ident_sub gives an identity the backlinks of the chain
\* that its base has at that time.
THEOREM IdentrefsExact ==
  ASSUME Ordered
  PROVE  Spec => []IdentrefExact
<1>1. Init => LinkInv /\ Verdicts
  <2> SUFFICES ASSUME Init PROVE LinkInv /\ Verdicts
    OBVIOUS
  <2>1. Range(<< >>) = {}
    BY DEF Range
  <2> QED
    BY <2>1 DEF Init, LinkInv, BacklinksOld, BacklinksExact, Verdicts
<1>2. GraphInv /\ LinkInv /\ Verdicts => IdentrefExact
  <2> SUFFICES ASSUME GraphInv, LinkInv, Verdicts, NEW b \in Loaded, NEW i \in Loaded
               PROVE  resolve_identref(b, i) <=> b \in Chain(i)
    BY DEF IdentrefExact
  <2>1. /\ b \in live /\ i \in live /\ i \in Ident /\ b \in Ident /\ list[Owner(i[2])] = i[1]
        /\ base \in [Ident -> Ident \cup {None}]
    BY DEF Loaded, GraphInv, TypeOK
  <2>2. Owner(i[2]) \in Mods /\ i[1] # 0
    BY <2>1, IdentFacts
  <2>3. InOrder(Owner(i[2]))
    BY <2>1, <2>2 DEF Verdicts, Ordered
  <2>4. i \in Range(der[b]) <=> b \in Chain(i) /\ b # i
    BY <2>1, <2>3 DEF LinkInv, BacklinksExact
  <2>5. i \in Chain(i)
    BY <2>1, ChainFacts DEF Chain
  <2>6. i \in Range(der[b]) <=> \E k \in DOMAIN der[b] : der[b][k] = i
    BY DEF Range
  <2> QED
    BY <2>4, <2>5, <2>6 DEF resolve_identref
<1> QED
  BY <1>1, <1>2, GraphInit, GraphStep, VerdictStep, LinkStep, PTL DEF Spec
=============================================================================
