----------------------------- MODULE UsesProofs -----------------------------
(***************************************************************************)
(* Proofs about Uses, for any documents whose groupings have fewer nodes   *)
(* than a counter can tell: no grouping is copied before it is complete,   *)
(* and a document is refused exactly when its references are unsound.      *)
(***************************************************************************)
EXTENDS Uses, ClosureProofs, SequenceTheorems

-----------------------------------------------------------------------------
(* The inductive invariant                                                 *)

Roots == Grps \cup {Data}
Elem == STRING \cup {Data} \cup Nat
Rest == Seq(Elem) \ {<< >>}
IsPath(p) ==
  p \in Seq(Elem) /\ Len(p) >= 2 /\ p[1] \in Roots /\ \A k \in 2..Len(p) : p[k] \in Nat
NodeRec == [kind : {"leaf", "uses"}, arg : STRING, res : BOOLEAN]

\* Where the reader is.
ReadInv ==
  /\ schema \in Schemas /\ at \in 0..DataAt /\ pos \in 0..Len(Section(at))
  /\ grps = {Root(k) : k \in (1..at) \ {DataAt}}
  /\ status \in {"parse", "resolve", "ok", "error", "lost"}
  /\ status \in {"resolve", "ok", "error"} => at = DataAt /\ pos = Len(schema.data)

\* What has been read of the document.
IsRead(k, j) == k < at \/ (k = at /\ j <= pos)
Stands(p, k, j) == p = <<Root(k), j>> /\ k \in 1..DataAt /\ j \in DOMAIN Section(k) /\ IsRead(k, j)

\* The nodes are those read, which are as the document says, and nodes below.
TreeInv ==
  /\ IsFiniteSet(DOMAIN tree) /\ tree \in [DOMAIN tree -> NodeRec]
  /\ \A p \in DOMAIN tree :
       /\ IsPath(p) /\ <<p[1], p[2]>> \in DOMAIN tree
       /\ \E k \in 1..DataAt : \E j \in DOMAIN Section(k) :
            tree[p].kind = Section(k)[j].kind /\ tree[p].arg = Section(k)[j].arg
       /\ Len(p) = 2 => \E k \in 1..DataAt : \E j \in DOMAIN Section(k) : Stands(p, k, j)
  /\ \A k \in 1..DataAt : \A j \in DOMAIN Section(k) :
       IsRead(k, j) => /\ <<Root(k), j>> \in DOMAIN tree
                       /\ tree[<<Root(k), j>>].kind = Section(k)[j].kind
                       /\ tree[<<Root(k), j>>].arg = Section(k)[j].arg

\* All of a grouping has been read and all of its uses are resolved.
Complete(g) ==
  /\ \E k \in 1..(at - 1) : Root(k) = g
  /\ \A q \in DOMAIN tree : q[1] = g /\ tree[q].kind = "uses" => tree[q].res

IsUses(k) == unres[k].kind = "uses" /\ ~unres[k].done
Waits(k) == unres[k].kind # "typedef" /\ ~unres[k].done
HasRead(j) == at > 0 \/ j <= pos

\* The calls that are still to be made, all for nodes of one root.
TodoInv ==
  /\ todo \in Seq([op : {"try", "end"}, path : DOMAIN tree, first : BOOLEAN])
  /\ \A k \in DOMAIN todo :
       LET c == todo[k] IN
       /\ ~tree[c.path].res /\ (c.op = "end" => tree[c.path].kind = "uses")
       /\ c.op = "try" => c.first
       /\ c.op = "try" /\ tree[c.path].kind = "uses" /\ Len(c.path) > 2 => Complete(tree[c.path].arg)
       /\ status = "parse" => c.first /\ at > 0 /\ c.path[1] = Root(at)
       /\ status = "resolve" /\ k = Len(todo) => ~c.first
       /\ ~c.first => k = Len(todo) /\ i \in DOMAIN unres /\ IsUses(i) /\ unres[i].item = c.path
  /\ \A k, l \in DOMAIN todo : todo[k].path[1] = todo[l].path[1]
  /\ \A k, l \in DOMAIN todo : todo[k].path = todo[l].path => k = l
  /\ status \in {"ok", "error"} => todo = << >>

\* The list of unresolved items.
Items == [kind : {"typedef", "type", "uses"}, item : Range(schema.tpdfs) \cup DOMAIN tree, done : BOOLEAN]
UnresInv ==
  /\ unres \in Seq(Items)
  /\ \A k \in DOMAIN unres :
       LET u == unres[k] IN
       /\ u.kind = "typedef" => /\ \E j \in DOMAIN schema.tpdfs : u.item = schema.tpdfs[j] /\ HasRead(j)
                                /\ u.done <=> u.item.name \in base
       /\ u.kind = "type" => u.item \in DOMAIN tree /\ tree[u.item].kind = "leaf" /\ (u.done <=> tree[u.item].res)
       /\ u.kind = "uses" => /\ u.item \in DOMAIN tree /\ tree[u.item].kind = "uses" /\ Len(u.item) = 2
                             /\ u.done <=> tree[u.item].res
       /\ Waits(k) => \A l \in DOMAIN todo : todo[l].path = u.item => k = i /\ ~todo[l].first
  /\ \A k, l \in DOMAIN unres : Waits(k) /\ Waits(l) /\ unres[k].item = unres[l].item => k = l
  /\ \A k, l \in DOMAIN unres :
       unres[k].kind = "typedef" /\ unres[l].kind = "typedef" /\ unres[k].item = unres[l].item => k = l

\* Whatever is not resolved will be tried.
Covered ==
  \A p \in DOMAIN tree : ~tree[p].res =>
    \/ \E k \in DOMAIN todo : todo[k].path = p
    \/ \E k \in DOMAIN unres : unres[k].kind # "typedef" /\ ~unres[k].done /\ unres[k].item = p

\* A uses that has its copies: resolved, or with calls for them still to be made.
Copied(p) == tree[p].res \/ \E k \in DOMAIN todo : todo[k].op = "end" /\ todo[k].path = p
Same(p) ==
  \A s \in Rest :
    /\ p \o s \in DOMAIN tree <=> <<tree[p].arg>> \o s \in DOMAIN tree
    /\ p \o s \in DOMAIN tree => /\ tree[p \o s].kind = tree[<<tree[p].arg>> \o s].kind
                                 /\ tree[p \o s].arg = tree[<<tree[p].arg>> \o s].arg
NotBelow(p) == \A s \in Rest : p \o s \notin DOMAIN tree
CopyInv ==
  \A p \in DOMAIN tree : tree[p].kind = "uses" =>
    IF Copied(p) THEN /\ Complete(tree[p].arg) /\ Same(p)
                      /\ p[1] \notin {tree[p].arg} \cup Reach(UsesEdges, tree[p].arg)
                 ELSE NotBelow(p)

\* The counters are exact.
NacmInv ==
  /\ nacm \in [Grps -> 0..(NacmMod - 1)]
  /\ \A g \in Grps : nacm[g] = Cardinality(Waiting(g))

\* The types that are known: those of typedefs that do not lead to themselves.
TypeInv ==
  /\ \A t \in base : \E j \in DOMAIN schema.tpdfs : schema.tpdfs[j].name = t /\ HasRead(j)
  /\ \A t \in base : t \notin Reach(TypeEdges, t) /\ Reach(TypeEdges, t) \subseteq base \cup Builtin
  /\ \A k \in DOMAIN schema.tpdfs : HasRead(k) =>
       \/ schema.tpdfs[k].name \in base
       \/ \E l \in DOMAIN unres :
            unres[l].kind = "typedef" /\ ~unres[l].done /\ unres[l].item = schema.tpdfs[k]
  /\ \A p \in DOMAIN tree : tree[p].kind = "leaf" /\ tree[p].res => tree[p].arg \in base \cup Builtin

\* An item that cannot be resolved now.
Blocked(u) ==
  IF u.kind = "uses" THEN ~Copyable(u.item)
  ELSE ~TypeKnown(IF u.kind = "typedef" THEN u.item.type ELSE tree[u.item].arg)

\* What the counters of a pass say of the items it has tried: with busy = 1
\* the item i is being resolved.
CountInv ==
  LET busy == IF todo = << >> THEN 0 ELSE 1
      tried == {k \in DOMAIN unres : k < i} IN
  /\ i \in Nat /\ unres_count \in Nat /\ res_count \in 0..unres_count
  /\ status = "resolve" =>
       /\ i > 0 /\ res_count + busy <= unres_count
       /\ res_count + busy = unres_count => \A k \in tried : unres[k].done
       /\ res_count + busy < unres_count => \E k \in tried : ~unres[k].done
       /\ res_count = 0 /\ todo = << >> => \A k \in tried : unres[k].done \/ Blocked(unres[k])
  /\ status = "ok" => \A k \in DOMAIN unres : unres[k].done
  /\ status = "error" => /\ \A k \in DOMAIN unres : unres[k].done \/ Blocked(unres[k])
                         /\ \E k \in DOMAIN unres : ~unres[k].done

-----------------------------------------------------------------------------
(* Paths                                                                   *)

\* The rest of a sequence behind a prefix.
LEMMA PrefixRest ==
  ASSUME NEW S, NEW p \in Seq(S), NEW q \in Seq(S), Len(p) <= Len(q),
         \A k \in 1..Len(p) : q[k] = p[k],
         NEW u, u = SubSeq(q, Len(p) + 1, Len(q))
  PROVE  u \in Seq(S) /\ Len(u) = Len(q) - Len(p) /\ q = p \o u
<1>1. Len(p) \in Nat /\ Len(q) \in Nat /\ \A k \in 1..Len(q) : q[k] \in S
  BY LenProperties, ElementOfSeq
<1>2. \A k \in (Len(p) + 1)..Len(q) : q[k] \in S
  BY <1>1
<1>3. /\ u \in Seq(S) /\ Len(u) = Len(q) - Len(p)
      /\ \A k \in 1..(Len(q) - (Len(p) + 1) + 1) : u[k] = q[Len(p) + 1 + k - 1]
  BY <1>1, <1>2, SubSeqProperties
<1> DEFINE c == p \o u
<1>4. /\ c \in Seq(S) /\ Len(c) = Len(p) + Len(u)
      /\ \A k \in 1..(Len(p) + Len(u)) : c[k] = IF k <= Len(p) THEN p[k] ELSE u[k - Len(p)]
  BY <1>3, ConcatProperties
<1> HIDE DEF c
<1>5. \A k \in 1..Len(q) : q[k] = c[k]
  BY <1>1, <1>3, <1>4
<1>6. q = c
  BY <1>1, <1>3, <1>4, <1>5, SeqEqual
<1> QED
  BY <1>3, <1>6 DEF c

\* Concatenation as an operator of its own, which keeps it opaque in the proofs.
Join(p, s) == p \o s

\* Of two prefixes of a sequence one is a prefix of the other.
LEMMA Overlap ==
  ASSUME NEW S, NEW p \in Seq(S), NEW s \in Seq(S), NEW q \in Seq(S), NEW t \in Seq(S),
         Join(p, s) = Join(q, t)
  PROVE  \E u \in Seq(S) : (q = Join(p, u) /\ s = Join(u, t)) \/ (p = Join(q, u) /\ t = Join(u, s))
<1> USE DEF Join
<1>1. Len(p) \in Nat /\ Len(q) \in Nat
  BY LenProperties
<1>2. /\ \A k \in 1..(Len(p) + Len(s)) : (p \o s)[k] = IF k <= Len(p) THEN p[k] ELSE s[k - Len(p)]
      /\ \A k \in 1..(Len(q) + Len(t)) : (q \o t)[k] = IF k <= Len(q) THEN q[k] ELSE t[k - Len(q)]
      /\ Len(p) + Len(s) = Len(q) + Len(t) /\ Len(s) \in Nat /\ Len(t) \in Nat
  BY ConcatProperties, LenProperties
<1>3. ASSUME NEW k \in 1..Len(p), k <= Len(q) PROVE q[k] = p[k]
  <2>1. k \in 1..(Len(p) + Len(s)) /\ k \in 1..(Len(q) + Len(t)) /\ k <= Len(p)
    BY <1>1, <1>2, <1>3
  <2>2. (p \o s)[k] = p[k] /\ (q \o t)[k] = q[k]
    BY <1>2, <1>3, <2>1
  <2> QED
    BY <2>2
<1>4. CASE Len(p) <= Len(q)
  <2> DEFINE u == SubSeq(q, Len(p) + 1, Len(q))
  <2>1. \A k \in 1..Len(p) : q[k] = p[k]
    BY <1>1, <1>3, <1>4
  <2>2. u \in Seq(S) /\ q = p \o u
    BY <1>4, <2>1, PrefixRest
  <2> HIDE DEF u
  <2>3. p \o s = p \o (u \o t) /\ u \o t \in Seq(S)
    <3>1. u \o t \in Seq(S)
      BY <2>2, ConcatProperties
    <3>2. (p \o u) \o t = p \o (u \o t)
      BY <2>2, ConcatAssociative, SMTT(30)
    <3> QED
      BY <2>2, <3>1, <3>2
  <2>4. s = u \o t
    BY <2>3, ConcatSimplifications
  <2> QED
    BY <2>2, <2>4
<1>5. CASE Len(q) <= Len(p)
  <2> DEFINE u == SubSeq(p, Len(q) + 1, Len(p))
  <2>1. \A k \in 1..Len(q) : p[k] = q[k]
    BY <1>1, <1>3, <1>5
  <2>2. u \in Seq(S) /\ p = q \o u
    BY <1>5, <2>1, PrefixRest
  <2> HIDE DEF u
  <2>3. (q \o u) \o s = q \o (u \o s) /\ u \o s \in Seq(S)
    <3>1. u \o s \in Seq(S)
      BY <2>2, ConcatProperties
    <3>2. (q \o u) \o s = q \o (u \o s)
      BY <2>2, ConcatAssociative, SMTT(30)
    <3> QED
      BY <3>1, <3>2
  <2>4. t = u \o s
    BY <2>2, <2>3, ConcatSimplifications
  <2> QED
    BY <2>2, <2>4
<1>6. Len(p) <= Len(q) \/ Len(q) <= Len(p)
  BY <1>1
<1> QED
  BY <1>4, <1>5, <1>6

\* What a path and a path below it have in common.
LEMMA RestFacts ==
  ASSUME NEW p \in Seq(Elem), NEW s \in Rest
  PROVE  /\ p \o s \in Seq(Elem) /\ p \o s # p /\ Len(p \o s) = Len(p) + Len(s)
         /\ Len(s) \in Nat \ {0} /\ Len(p) \in Nat
         /\ SubSeq(p \o s, Len(p) + 1, Len(p \o s)) = s
         /\ p # << >> => (p \o s)[1] = p[1]
         /\ Len(p) >= 2 => (p \o s)[2] = p[2]
         /\ \A t \in Rest : p \o s = p \o t => s = t
         /\ \A t \in Rest : s \o t \in Rest /\ (p \o s) \o t = p \o (s \o t)
<1>1. s \in Seq(Elem) /\ s # << >> /\ Len(s) \in Nat \ {0} /\ Len(p) \in Nat
  BY EmptySeq, LenProperties DEF Rest
<1>2. /\ p \o s \in Seq(Elem) /\ Len(p \o s) = Len(p) + Len(s)
      /\ \A k \in 1..(Len(p) + Len(s)) : (p \o s)[k] = IF k <= Len(p) THEN p[k] ELSE s[k - Len(p)]
  BY <1>1, ConcatProperties
<1>3. SubSeq(p \o s, Len(p) + 1, Len(p \o s)) = s
  <2> DEFINE q == p \o s
             u == SubSeq(q, Len(p) + 1, Len(q))
  <2>1. q \in Seq(Elem) /\ Len(p) <= Len(q) /\ \A k \in 1..Len(p) : q[k] = p[k]
    BY <1>1, <1>2
  <2>2. u \in Seq(Elem) /\ q = p \o u
    BY <2>1, PrefixRest
  <2> HIDE DEF u
  <2>3. p \o s = p \o u
    BY <2>2
  <2>4. s = u
    BY <1>1, <2>2, <2>3, ConcatSimplifications
  <2> QED
    BY <2>4 DEF u
<1>4. p # << >> => Len(p) # 0
  BY EmptySeq
<1>5. p # << >> => (p \o s)[1] = p[1]
  BY <1>1, <1>2, <1>4
<1>6. Len(p) >= 2 => (p \o s)[2] = p[2]
  BY <1>1, <1>2
<1>7. p \o s # p
  BY <1>1, <1>2
<1>8. \A t \in Rest : p \o s = p \o t => s = t
  BY <1>1, ConcatSimplifications DEF Rest
<1>9. ASSUME NEW t \in Rest PROVE s \o t \in Rest /\ (p \o s) \o t = p \o (s \o t)
  BY <1>1, ConcatAssociative, ConcatProperties, ConcatEqualIffEmpty DEF Rest
<1> QED
  BY <1>1, <1>2, <1>3, <1>5, <1>6, <1>7, <1>8, <1>9

\* Paths behind paths.
LEMMA RestAssoc ==
  ASSUME NEW p \in Seq(Elem), NEW s \in Rest, NEW t \in Rest
  PROVE  s \o t \in Rest /\ (p \o s) \o t = p \o (s \o t)
<1>1. s \in Seq(Elem) /\ s # << >> /\ t \in Seq(Elem)
  BY DEF Rest
<1> QED
  BY <1>1, ConcatAssociative, ConcatProperties, ConcatEqualIffEmpty DEF Rest

\* A path below two paths: they are the same, or one is below the other.
LEMMA BelowBoth ==
  ASSUME NEW p \in Seq(Elem), NEW s \in Rest, NEW q \in Seq(Elem), NEW t \in Rest,
         Join(p, s) = Join(q, t)
  PROVE  p = q \/ (\E u \in Rest : q = Join(p, u)) \/ \E u \in Rest : p = Join(q, u)
<1>1. s \in Seq(Elem) /\ t \in Seq(Elem)
  BY DEF Rest
<1>2. PICK u \in Seq(Elem) : (q = Join(p, u) /\ s = Join(u, t)) \/ (p = Join(q, u) /\ t = Join(u, s))
  BY <1>1, Overlap
<1>3. CASE u = << >>
  BY <1>2, <1>3, ConcatEmptySeq DEF Join
<1>4. CASE u \in Rest
  BY <1>2, <1>4
<1> QED
  BY <1>2, <1>3, <1>4 DEF Rest

-----------------------------------------------------------------------------
(* The order of the document                                               *)

\* Before is a strict total order on the paths of one root.
LEMMA BeforeOrder ==
  /\ \A a : IsPath(a) => ~Before(a, a)
  /\ \A a, b, c : IsPath(a) /\ IsPath(b) /\ IsPath(c) /\ Before(a, b) /\ Before(b, c) => Before(a, c)
  /\ \A a, b : IsPath(a) /\ IsPath(b) /\ a[1] = b[1] /\ a # b => Before(a, b) \/ Before(b, a)
<1>1. ASSUME NEW a, IsPath(a), Before(a, a) PROVE FALSE
  <2>1. PICK n \in 2..Len(a) : n > Len(a) \/ a[n] < a[n]
    BY <1>1 DEF Before
  <2>2. Len(a) \in Nat /\ a[n] \in Nat
    BY <1>1, <2>1, LenProperties DEF IsPath
  <2> QED
    BY <2>1, <2>2
<1>2. ASSUME NEW a, NEW b, NEW c, IsPath(a), IsPath(b), IsPath(c), Before(a, b), Before(b, c)
      PROVE  Before(a, c)
  <2>1. /\ Len(a) \in Nat /\ Len(b) \in Nat /\ Len(c) \in Nat
        /\ \A k \in 2..Len(a) : a[k] \in Nat
        /\ \A k \in 2..Len(b) : b[k] \in Nat
        /\ \A k \in 2..Len(c) : c[k] \in Nat
    BY <1>2, LenProperties DEF IsPath
  <2>2. PICK n \in 2..Len(b) : /\ n > Len(a) \/ a[n] < b[n]
                               /\ \A k \in 2..(n - 1) : k <= Len(a) /\ a[k] = b[k]
    BY <1>2 DEF Before
  <2>3. PICK m \in 2..Len(c) : /\ m > Len(b) \/ b[m] < c[m]
                               /\ \A k \in 2..(m - 1) : k <= Len(b) /\ b[k] = c[k]
    BY <1>2 DEF Before
  <2>4. CASE n <= m
    <3>1. n \in 2..Len(c) /\ \A k \in 2..(n - 1) : k \in 2..(m - 1)
      BY <2>1, <2>2, <2>3, <2>4
    <3>2. \A k \in 2..(n - 1) : k <= Len(a) /\ a[k] = c[k]
      BY <2>2, <2>3, <3>1
    <3>3. n > Len(a) \/ a[n] < c[n]
      <4>1. CASE n < m
        <5>1. n \in 2..(m - 1)
          BY <2>2, <2>3, <4>1
        <5> QED
          BY <2>2, <2>3, <5>1
      <4>2. CASE n = m
        <5>1. n <= Len(a) => a[n] \in Nat /\ b[n] \in Nat /\ c[n] \in Nat /\ a[n] < b[n] /\ b[n] < c[n]
          BY <2>1, <2>2, <2>3, <3>1, <4>2
        <5> QED
          BY <2>1, <2>2, <5>1
      <4> QED
        BY <2>1, <2>2, <2>3, <2>4, <4>1, <4>2
    <3> QED
      BY <3>1, <3>2, <3>3 DEF Before
  <2>5. CASE m < n
    <3>1. m \in 2..(n - 1) /\ \A k \in 2..(m - 1) : k \in 2..(n - 1)
      BY <2>1, <2>2, <2>3, <2>5
    <3>2. \A k \in 2..(m - 1) : k <= Len(a) /\ a[k] = c[k]
      BY <2>2, <2>3, <3>1
    <3>3. a[m] < c[m]
      <4>1. a[m] = b[m] /\ m <= Len(b)
        BY <2>1, <2>2, <2>3, <2>5, <3>1
      <4> QED
        BY <2>1, <2>3, <4>1
    <3> QED
      BY <2>3, <3>2, <3>3 DEF Before
  <2> QED
    BY <2>1, <2>2, <2>3, <2>4, <2>5
<1>3. ASSUME NEW a, NEW b, IsPath(a), IsPath(b), a[1] = b[1], a # b
      PROVE  Before(a, b) \/ Before(b, a)
  <2>1. /\ a \in Seq(Elem) /\ b \in Seq(Elem) /\ Len(a) \in Nat /\ Len(b) \in Nat
        /\ Len(a) >= 2 /\ Len(b) >= 2
        /\ \A k \in 2..Len(a) : a[k] \in Nat
        /\ \A k \in 2..Len(b) : b[k] \in Nat
    BY <1>3, LenProperties DEF IsPath
  <2> DEFINE Same2(k) == k <= Len(a) /\ k <= Len(b) /\ a[k] = b[k]
             S == {k \in Nat : k >= 1 /\ (k <= Len(a) \/ k <= Len(b)) /\ ~Same2(k)}
  <2>2. S # {}
    <3> SUFFICES ASSUME S = {} PROVE FALSE
      OBVIOUS
    <3>0. \A k \in Nat : k >= 1 /\ (k <= Len(a) \/ k <= Len(b)) => Same2(k)
      OBVIOUS
    <3>1. \A k \in 1..Len(a) : Same2(k)
      <4> HIDE DEF Same2
      <4> QED
        BY <2>1, <3>0
    <3>2. \A k \in 1..Len(b) : Same2(k)
      <4> HIDE DEF Same2
      <4> QED
        BY <2>1, <3>0
    <3>3. Len(a) = Len(b)
      BY <2>1, <3>1, <3>2
    <3>4. a = b
      BY <2>1, <3>1, <3>3, SeqEqual
    <3> QED
      BY <1>3, <3>4
  <2>3. PICK m \in S : \A n \in S : m <= n
    BY <2>2, LeastNumber
  <2>4. m \in Nat /\ m >= 2 /\ \A k \in 2..(m - 1) : Same2(k)
    <3>1. m \in Nat /\ m >= 1 /\ m # 1 /\ (m <= Len(a) \/ m <= Len(b))
      BY <1>3, <2>1, <2>3
    <3>2. ASSUME NEW k \in 2..(m - 1) PROVE Same2(k)
      BY <2>1, <2>3, <3>1
    <3> QED
      BY <3>1, <3>2
  <2>5. CASE m > Len(a) \/ (m <= Len(b) /\ a[m] < b[m])
    <3>1. m \in 2..Len(b)
      BY <2>1, <2>3, <2>4, <2>5
    <3> QED
      BY <2>4, <2>5, <3>1 DEF Before
  <2>6. CASE m > Len(b) \/ (m <= Len(a) /\ b[m] < a[m])
    <3>1. m \in 2..Len(a)
      BY <2>1, <2>3, <2>4, <2>6
    <3> QED
      BY <2>4, <2>6, <3>1 DEF Before
  <2>7. m <= Len(a) /\ m <= Len(b) => a[m] \in Nat /\ b[m] \in Nat /\ a[m] # b[m]
    BY <2>1, <2>3, <2>4
  <2> QED
    BY <2>1, <2>4, <2>5, <2>6, <2>7
<1> QED
  BY <1>1, <1>2, <1>3

\* InOrder lists the paths of a set, each once.
LEMMA InOrderFacts ==
  ASSUME NEW S, IsFiniteSet(S), \A c \in S : IsPath(c), \A c, e \in S : c[1] = e[1],
         NEW t, t = InOrder(S)
  PROVE  /\ t \in Seq(S) /\ Len(t) = Cardinality(S) /\ \A c \in S : \E k \in DOMAIN t : t[k] = c
         /\ \A k, l \in DOMAIN t : t[k] = t[l] => k = l
<1> DEFINE N == Cardinality(S)
           Down(c) == {e \in S : Before(e, c)}
           f == [c \in S |-> Cardinality(Down(c))]
           I == 0..(N - 1)
<1>1. N \in Nat
  BY FS_CardinalityType
<1>2. \A c \in S : IsFiniteSet(Down(c)) /\ Cardinality(Down(c)) \in Nat
  BY FS_Subset, FS_CardinalityType
<1>3. ASSUME NEW c \in S PROVE Cardinality(Down(c)) \in I
  <2>1. Down(c) \subseteq S /\ c \notin Down(c)
    BY BeforeOrder
  <2>2. Cardinality(Down(c)) <= N /\ Cardinality(Down(c)) # N
    <3> DEFINE D == Down(c)
    <3>1. D \in SUBSET S /\ D # S
      BY <2>1
    <3> HIDE DEF D
    <3>2. Cardinality(D) <= N /\ (N = Cardinality(D) => S = D)
      BY <3>1, FS_Subset
    <3> QED
      BY <3>1, <3>2 DEF D
  <2> QED
    BY <1>1, <1>2, <2>2
<1>4. ASSUME NEW c \in S, NEW e \in S, Before(c, e) PROVE Cardinality(Down(c)) < Cardinality(Down(e))
  <2> DEFINE C == Down(c)
             E == Down(e)
  <2>1. C \in SUBSET E /\ c \in E /\ c \notin C
    BY <1>4, BeforeOrder
  <2>2. IsFiniteSet(E) /\ Cardinality(C) \in Nat /\ Cardinality(E) \in Nat
    BY <1>2
  <2> HIDE DEF C, E
  <2>3. Cardinality(C) <= Cardinality(E) /\ (Cardinality(E) = Cardinality(C) => E = C)
    BY <2>1, <2>2, FS_Subset
  <2>4. Cardinality(C) < Cardinality(E)
    BY <2>1, <2>2, <2>3
  <2> QED
    BY <2>4 DEF C, E
<1>5. ASSUME NEW c \in S, NEW e \in S, Cardinality(Down(c)) = Cardinality(Down(e)) PROVE c = e
  <2> SUFFICES ASSUME c # e PROVE FALSE
    OBVIOUS
  <2>1. Before(c, e) \/ Before(e, c)
    BY BeforeOrder
  <2> QED
    BY <1>2, <1>4, <1>5, <2>1
<1>6. f \in Injection(S, I)
  <2>1. f \in [S -> I]
    BY <1>3
  <2>2. \A c, e \in S : f[c] = f[e] => c = e
    BY <1>5
  <2> HIDE DEF f
  <2> QED
    BY <2>1, <2>2 DEF Injection, IsInjective
<1>7. IsFiniteSet(I) /\ Cardinality(I) = N
  BY <1>1, FS_Interval
<1>8. f \in Surjection(S, I)
  <2> HIDE DEF f, I, N
  <2>1. Cardinality(S) = Cardinality(I)
    BY <1>7 DEF N
  <2> QED
    BY <1>6, <1>7, <2>1, FS_Injection
<1>9. \A n \in I : \E c \in S : Rank(S, c) = n
  BY <1>8 DEF Surjection, Rank
<1>10. t = [k \in 1..N |-> CHOOSE c \in S : Rank(S, c) = k - 1]
  BY DEF InOrder
<1>11. \A k \in 1..N : t[k] \in S /\ Rank(S, t[k]) = k - 1
  <2> SUFFICES ASSUME NEW k \in 1..N PROVE t[k] \in S /\ Rank(S, t[k]) = k - 1
    OBVIOUS
  <2>1. k - 1 \in I
    BY <1>1
  <2> QED
    BY <1>9, <1>10, <2>1
<1>12. t \in Seq(S) /\ Len(t) = N /\ DOMAIN t = 1..N
  <2>1. t \in [1..N -> S]
    BY <1>10, <1>11
  <2> HIDE DEF N
  <2> QED
    BY <1>1, <2>1, SeqDef
<1>13. ASSUME NEW c \in S PROVE \E k \in DOMAIN t : t[k] = c
  <2>1. f[c] \in I /\ f[c] = Rank(S, c) /\ f[c] + 1 \in 1..N /\ (f[c] + 1) - 1 = f[c]
    BY <1>1, <1>3 DEF Rank
  <2>2. t[f[c] + 1] \in S /\ Rank(S, t[f[c] + 1]) = Rank(S, c)
    BY <1>11, <2>1
  <2>3. t[f[c] + 1] = c
    BY <1>5, <2>2 DEF Rank
  <2> QED
    BY <1>12, <2>1, <2>3
<1>14. ASSUME NEW k \in DOMAIN t, NEW l \in DOMAIN t, t[k] = t[l] PROVE k = l
  BY <1>1, <1>11, <1>12, <1>14
<1> QED
  BY <1>12, <1>13, <1>14
-----------------------------------------------------------------------------
(* The document                                                            *)

\* The sections and their names.
LEMMA SchemaFacts ==
  ASSUME schema \in Schemas
  PROVE  /\ Len(schema.grps) \in Nat /\ DataAt = Len(schema.grps) + 1 /\ DataAt \in Nat \ {0}
         /\ DOMAIN schema.grps = 1..Len(schema.grps)
         /\ Section(0) = schema.tpdfs /\ Len(schema.tpdfs) \in Nat /\ DOMAIN schema.tpdfs = 1..Len(schema.tpdfs)
         /\ Section(DataAt) = schema.data
         /\ Root(DataAt) = Data /\ Data \notin Grps /\ Roots \subseteq Elem
         /\ \A k \in 1..DataAt : /\ Section(k) \in Seq(NodeStmt) /\ Len(Section(k)) \in Nat
                                 /\ DOMAIN Section(k) = 1..Len(Section(k)) /\ Root(k) \in Roots
         /\ \A k, l \in 1..DataAt : Root(k) = Root(l) => k = l
         /\ \A k \in 1..Len(schema.grps) : Root(k) \in Grps /\ Root(k) = schema.grps[k].name /\ k \in 1..DataAt
                                           /\ Section(k) = schema.grps[k].body
         /\ \A g \in Grps : \E k \in 1..Len(schema.grps) : Root(k) = g
<1> DEFINE n == Len(schema.grps)
<1>1. /\ schema.grps \in Seq([name : STRING, body : Seq(NodeStmt)]) /\ schema.data \in Seq(NodeStmt)
      /\ schema.tpdfs \in Seq([name : STRING, type : STRING]) /\ OnceNamed(schema.grps)
      /\ \A k \in DOMAIN schema.grps : schema.grps[k].name # Data
  BY SchemasType
<1>2. /\ n \in Nat /\ DOMAIN schema.grps = 1..n /\ Len(schema.tpdfs) \in Nat
      /\ DOMAIN schema.tpdfs = 1..Len(schema.tpdfs)
      /\ \A k \in 1..n : schema.grps[k] \in [name : STRING, body : Seq(NodeStmt)]
  BY <1>1, LenProperties
<1>3. DataAt = n + 1 /\ DataAt \in Nat \ {0} /\ \A k \in 1..DataAt : k # DataAt => k \in 1..n
  BY <1>2 DEF DataAt
<1>4. \A k \in 1..n : /\ Root(k) = schema.grps[k].name /\ Section(k) = schema.grps[k].body
                      /\ Root(k) \in Grps /\ Root(k) # Data /\ Root(k) \in STRING /\ k \in 1..DataAt
  <2> SUFFICES ASSUME NEW k \in 1..n
               PROVE  /\ Root(k) = schema.grps[k].name /\ Section(k) = schema.grps[k].body
                      /\ Root(k) \in Grps /\ Root(k) # Data /\ Root(k) \in STRING /\ k \in 1..DataAt
    OBVIOUS
  <2>1. k \in 1..DataAt /\ k # DataAt /\ k # 0 /\ k \in DOMAIN schema.grps
    BY <1>2, <1>3
  <2>2. Root(k) = schema.grps[k].name /\ Section(k) = schema.grps[k].body
    BY <2>1 DEF Root, Section
  <2>3. schema.grps[k].name \in Grps
    BY <2>1 DEF Grps
  <2>4. schema.grps[k].name \in STRING
    BY <1>2
  <2>5. schema.grps[k].name # Data
    BY <1>1, <2>1
  <2> QED
    BY <2>1, <2>2, <2>3, <2>4, <2>5
<1>5. Section(DataAt) = schema.data /\ Root(DataAt) = Data /\ Section(0) = schema.tpdfs
  BY <1>3 DEF Root, Section
<1>6. ASSUME NEW g \in Grps PROVE \E k \in 1..n : Root(k) = g
  BY <1>2, <1>4 DEF Grps
<1>7. Data \notin Grps /\ Roots \subseteq Elem
  <2>1. \A g \in Grps : g \in STRING /\ g # Data
    BY <1>4, <1>6
  <2> QED
    BY <2>1 DEF Roots, Elem
<1>8. ASSUME NEW k \in 1..DataAt
      PROVE  Section(k) \in Seq(NodeStmt) /\ Root(k) \in Roots
  BY <1>1, <1>2, <1>3, <1>4, <1>5 DEF Roots
<1>9. \A k \in 1..DataAt : Len(Section(k)) \in Nat /\ DOMAIN Section(k) = 1..Len(Section(k))
  BY <1>8, LenProperties
<1>10. ASSUME NEW k \in 1..DataAt, NEW l \in 1..DataAt, Root(k) = Root(l) PROVE k = l
  <2>1. k # DataAt => k \in 1..n /\ Root(k) # Data /\ Root(k) = schema.grps[k].name
    BY <1>3, <1>4
  <2>2. l # DataAt => l \in 1..n /\ Root(l) # Data /\ Root(l) = schema.grps[l].name
    BY <1>3, <1>4
  <2>3. \A j, m \in 1..n : schema.grps[j].name = schema.grps[m].name => j = m
    BY <1>1, <1>2 DEF OnceNamed
  <2> QED
    BY <1>5, <1>10, <2>1, <2>2, <2>3
<1> QED
  BY <1>2, <1>3, <1>4, <1>5, <1>6, <1>7, <1>8, <1>9, <1>10

\* Below in terms of what comes behind the path.
LEMMA BelowFacts ==
  ASSUME NEW p \in Seq(Elem), \A q \in DOMAIN tree : q \in Seq(Elem)
  PROVE  /\ \A q \in DOMAIN tree : q \in Below(p) <=> \E s \in Rest : q = p \o s
         /\ \A s \in Rest : p \o s \in DOMAIN tree => p \o s \in Below(p)
         /\ Below(p) = {} <=> NotBelow(p)
<1>1. ASSUME NEW q \in DOMAIN tree, q \in Below(p) PROVE \E s \in Rest : q = p \o s
  <2>1. Len(q) > Len(p) /\ SubSeq(q, 1, Len(p)) = p /\ q \in Seq(Elem)
    BY <1>1 DEF Below
  <2>2. Len(p) \in Nat /\ Len(q) \in Nat /\ \A k \in 1..Len(q) : q[k] \in Elem
    BY <2>1, LenProperties, ElementOfSeq
  <2>3. \A k \in 1..Len(p) : q[k] \in Elem
    BY <2>1, <2>2
  <2>4. \A k \in 1..(Len(p) - 1 + 1) : SubSeq(q, 1, Len(p))[k] = q[1 + k - 1]
    BY <2>2, <2>3, SubSeqProperties
  <2>5. \A k \in 1..Len(p) : q[k] = p[k]
    BY <2>1, <2>2, <2>4
  <2> DEFINE s == SubSeq(q, Len(p) + 1, Len(q))
  <2>6. s \in Seq(Elem) /\ Len(s) = Len(q) - Len(p) /\ q = p \o s
    BY <2>1, <2>2, <2>5, PrefixRest
  <2> HIDE DEF s
  <2>7. s # << >>
    BY <2>1, <2>2, <2>6, EmptySeq
  <2> QED
    BY <2>6, <2>7 DEF Rest
<1>2. ASSUME NEW s \in Rest, p \o s \in DOMAIN tree PROVE p \o s \in Below(p)
  <2> DEFINE q == p \o s
  <2>1. q \in Seq(Elem) /\ Len(q) = Len(p) + Len(s) /\ Len(s) \in Nat \ {0} /\ Len(p) \in Nat
    BY RestFacts
  <2>2. s \in Seq(Elem)
    BY DEF Rest
  <2>3. \A k \in 1..(Len(p) + Len(s)) : q[k] = IF k <= Len(p) THEN p[k] ELSE s[k - Len(p)]
    BY <2>2, ConcatProperties
  <2>4. \A k \in 1..Len(p) : q[k] = p[k] /\ p[k] \in Elem
    BY <2>1, <2>3, ElementOfSeq
  <2> DEFINE r == SubSeq(q, 1, Len(p))
  <2> HIDE DEF q
  <2>5. r \in Seq(Elem) /\ Len(r) = Len(p) /\ \A k \in 1..Len(p) : r[k] = q[k]
    <3>1. /\ r \in Seq(Elem) /\ Len(r) = IF 1 <= Len(p) THEN Len(p) - 1 + 1 ELSE 0
          /\ \A k \in 1..(Len(p) - 1 + 1) : r[k] = q[1 + k - 1]
      BY <2>1, <2>4, SubSeqProperties
    <3> HIDE DEF r
    <3> QED
      BY <2>1, <3>1
  <2> HIDE DEF r
  <2>6. r = p
    <3>1. Len(r) = Len(p) /\ \A k \in 1..Len(r) : r[k] = p[k]
      BY <2>4, <2>5
    <3> QED
      BY <2>5, <3>1, SeqEqual
  <2>7. q \in DOMAIN tree
    BY <1>2 DEF q
  <2>8. Len(q) > Len(p)
    BY <2>1
  <2>9. q \in Below(p)
    BY <2>6, <2>7, <2>8 DEF Below, r
  <2> QED
    BY <2>9 DEF q
<1>3. \A q \in DOMAIN tree : q \in Below(p) <=> \E s \in Rest : q = p \o s
  BY <1>1, <1>2
<1>4. Below(p) \subseteq DOMAIN tree
  BY DEF Below
<1> QED
  BY <1>2, <1>3, <1>4 DEF NotBelow

\* The copies of a grouping in terms of what comes behind its name.
LEMMA CopiesFacts ==
  ASSUME NEW p \in Seq(Elem), \A q \in DOMAIN tree : q \in Seq(Elem),
         NEW g \in Elem, g = tree[p].arg
  PROVE  /\ \A s \in Rest : p \o s \in Copies(p) <=> <<g>> \o s \in DOMAIN tree
         /\ \A c \in Copies(p) : \E s \in Rest : c = p \o s /\ <<g>> \o s \in DOMAIN tree
         /\ \A s \in Rest : Origin(p, p \o s) = <<g>> \o s
<1>1. <<g>> \in Seq(Elem) /\ Len(<<g>>) = 1
  OBVIOUS
<1>2. ASSUME NEW s \in Rest PROVE Tail(<<g>> \o s) = s
  <2> DEFINE q == <<g>> \o s
  <2>1. q \in Seq(Elem) /\ q # << >> /\ SubSeq(q, 2, Len(q)) = s
    BY <1>1, RestFacts, EmptySeq
  <2> HIDE DEF q
  <2>2. Tail(q) = s
    BY <2>1, TailIsSubSeq
  <2> QED
    BY <2>2 DEF q
<1>3. ASSUME NEW c \in Copies(p) PROVE \E s \in Rest : c = p \o s /\ <<g>> \o s \in DOMAIN tree
  <2>1. PICK q \in Below(<<g>>) : c = p \o Tail(q)
    BY DEF Copies
  <2>2. q \in DOMAIN tree
    BY DEF Below
  <2>3. PICK s \in Rest : q = <<g>> \o s
    BY <1>1, <2>2, BelowFacts
  <2> QED
    BY <1>2, <2>1, <2>2, <2>3
<1>4. ASSUME NEW s \in Rest, <<g>> \o s \in DOMAIN tree PROVE p \o s \in Copies(p)
  <2>1. <<g>> \o s \in Below(<<g>>)
    BY <1>1, <1>4, BelowFacts
  <2> QED
    BY <1>2, <2>1 DEF Copies
<1>5. ASSUME NEW s \in Rest, p \o s \in Copies(p) PROVE <<g>> \o s \in DOMAIN tree
  <2>1. PICK u \in Rest : p \o s = p \o u /\ <<g>> \o u \in DOMAIN tree
    BY <1>3, <1>5
  <2>2. \A t \in Rest : p \o s = p \o t => s = t
    BY RestFacts
  <2>3. s = u
    BY <2>1, <2>2
  <2> QED
    BY <2>1, <2>3
<1>6. ASSUME NEW s \in Rest PROVE Origin(p, p \o s) = <<g>> \o s
  <2>1. SubSeq(p \o s, Len(p) + 1, Len(p \o s)) = s
    BY RestFacts
  <2> QED
    BY <2>1 DEF Origin
<1> QED
  BY <1>3, <1>4, <1>5, <1>6
-----------------------------------------------------------------------------
(* References                                                              *)

\* Reach is the least set that has the targets of n and, with every element, its
\* targets.
LEMMA ReachFacts ==
  ASSUME NEW E, IsFiniteSet(E), NEW n
  PROVE  /\ IsFiniteSet(Ends(E)) /\ Reach(E, n) \subseteq Ends(E)
         /\ Targets(E, n) \subseteq Reach(E, n)
         /\ \A x \in Reach(E, n) : Targets(E, x) \subseteq Reach(E, n)
         /\ \A T : Targets(E, n) \subseteq T /\ (\A x \in T : Targets(E, x) \subseteq T) => Reach(E, n) \subseteq T
<1> DEFINE S == Ends(E)
           start == Targets(E, n)
           succ == [x \in S |-> Targets(E, x)]
           f == [e \in E |-> e[1]]
           h == [e \in E |-> e[2]]
<1>1. IsFiniteSet(S)
  <2>1. IsFiniteSet({f[e] : e \in E}) /\ IsFiniteSet({h[e] : e \in E})
    <3>1. f = [e \in E |-> f[e]] /\ h = [e \in E |-> h[e]]
      OBVIOUS
    <3> HIDE DEF f, h
    <3> QED
      BY <3>1, ImageFinite
  <2>2. S = {f[e] : e \in E} \cup {h[e] : e \in E}
    BY DEF Ends
  <2> HIDE DEF f, h, S
  <2> QED
    BY <2>1, <2>2, FS_Union
<1>2. \A x : Targets(E, x) \in SUBSET S
  BY DEF Targets, Ends
<1>3. start \in SUBSET S /\ succ \in [S -> SUBSET S] /\ \A x \in S : succ[x] = Targets(E, x)
  BY <1>2
<1>4. Reach(E, n) = Closure(S, start, succ)
  BY DEF Reach
<1> HIDE DEF S, start, succ
<1>5. LET C == Closure(S, start, succ) IN
      /\ start \subseteq C /\ C \subseteq S
      /\ \A x \in C : succ[x] \subseteq C
      /\ \A T : start \subseteq T /\ (\A x \in T \cap S : succ[x] \subseteq T) => C \subseteq T
  BY <1>1, <1>3, ClosureLeast
<1>6. /\ start \subseteq Reach(E, n) /\ Reach(E, n) \subseteq S
      /\ \A x \in Reach(E, n) : succ[x] \subseteq Reach(E, n)
      /\ \A T : start \subseteq T /\ (\A x \in T \cap S : succ[x] \subseteq T) => Reach(E, n) \subseteq T
  BY <1>4, <1>5
<1>7. \A x \in Reach(E, n) : Targets(E, x) \subseteq Reach(E, n)
  BY <1>3, <1>6
<1>8. ASSUME NEW T, start \subseteq T, \A x \in T : Targets(E, x) \subseteq T PROVE Reach(E, n) \subseteq T
  BY <1>3, <1>6, <1>8
<1>9. S = Ends(E) /\ start = Targets(E, n)
  BY DEF S, start
<1> HIDE DEF Reach, Targets, Ends
<1> QED
  BY <1>1, <1>6, <1>7, <1>8, <1>9

\* The edges of a document are finitely many, and what they are.
LEMMA EdgeFacts ==
  ASSUME schema \in Schemas
  PROVE  /\ IsFiniteSet(UsesEdges) /\ IsFiniteSet(TypeEdges)
         /\ \A k \in 1..Len(schema.grps) : \A a : a \in Targets(UsesEdges, Root(k)) <=>
              \E j \in DOMAIN Section(k) : Section(k)[j].kind = "uses" /\ Section(k)[j].arg = a
         /\ \A n : n \notin Grps => Targets(UsesEdges, n) = {}
         /\ \A k \in DOMAIN schema.tpdfs : Targets(TypeEdges, schema.tpdfs[k].name) = {schema.tpdfs[k].type}
         /\ \A n : n \notin Tpdfs => Targets(TypeEdges, n) = {}
<1> DEFINE G == DOMAIN schema.grps
           N(k) == Nodes("uses", schema.grps[k].body)
           P == [k \in G |-> {schema.grps[k].name} \X N(k)]
           T == DOMAIN schema.tpdfs
           f == [k \in T |-> <<schema.tpdfs[k].name, schema.tpdfs[k].type>>]
<1>1. /\ OnceNamed(schema.grps) /\ OnceNamed(schema.tpdfs) /\ schema.grps \in Seq([name : STRING, body : Seq(NodeStmt)])
  BY SchemasType
<1>2. IsFiniteSet(G) /\ IsFiniteSet(T)
  <2>1. /\ G = 1..Len(schema.grps) /\ Len(schema.grps) \in Nat
        /\ T = 1..Len(schema.tpdfs) /\ Len(schema.tpdfs) \in Nat
    BY SchemaFacts
  <2> HIDE DEF G, T
  <2>2. \A n \in Nat : IsFiniteSet(1..n)
    BY FS_Interval
  <2> QED
    BY <2>1, <2>2
<1>3. ASSUME NEW k \in G PROVE IsFiniteSet(P[k])
  <2> DEFINE b == schema.grps[k].body
             S == {j \in DOMAIN b : b[j].kind = "uses"}
             h == [j \in S |-> b[j].arg]
  <2>1. b \in Seq(NodeStmt)
    <3>1. Section(k) = b /\ Section(k) \in Seq(NodeStmt)
      BY SchemaFacts
    <3> QED
      BY <3>1
  <2>2. Len(b) \in Nat /\ DOMAIN b = 1..Len(b)
    BY <2>1, LenProperties
  <2>3. IsFiniteSet(S)
    <3>1. IsFiniteSet(DOMAIN b) /\ S \in SUBSET DOMAIN b
      BY <2>2, FS_Interval
    <3> QED
      BY <3>1, FS_Subset
  <2>4. h = [j \in S |-> h[j]] /\ N(k) = {h[j] : j \in S}
    BY DEF Nodes
  <2> HIDE DEF h, S, N
  <2>5. IsFiniteSet(N(k))
    BY <2>3, <2>4, ImageFinite
  <2> QED
    BY <2>5, FS_Singleton, FS_Product
<1>4. IsFiniteSet(UsesEdges)
  <2>1. P = [k \in G |-> P[k]] /\ UsesEdges = UNION {P[k] : k \in G}
    BY DEF UsesEdges
  <2> HIDE DEF P, G
  <2>2. IsFiniteSet({P[k] : k \in G})
    BY <1>2, <2>1, ImageFinite
  <2> QED
    BY <1>3, <2>1, <2>2, FS_UNION
<1>5. IsFiniteSet(TypeEdges)
  <2>1. f = [k \in T |-> f[k]] /\ TypeEdges = {f[k] : k \in T}
    BY DEF TypeEdges
  <2> HIDE DEF f, T
  <2> QED
    BY <1>2, <2>1, ImageFinite
<1>6. \A a, b : <<a, b>> \in UsesEdges <=> \E k \in G : a = schema.grps[k].name /\ b \in N(k)
  BY DEF UsesEdges
<1>7. \A E, n : Targets(E, n) = {e[2] : e \in {e \in E : e[1] = n}}
  BY DEF Targets
<1>8. \A e \in UsesEdges : e = <<e[1], e[2]>>
  BY DEF UsesEdges
<1>9. \A n, a : a \in Targets(UsesEdges, n) <=> <<n, a>> \in UsesEdges
  <2> HIDE DEF N
  <2> QED
    BY <1>7, <1>8
<1>10. ASSUME NEW k \in 1..Len(schema.grps), NEW a
       PROVE  a \in Targets(UsesEdges, Root(k)) <=>
                \E j \in DOMAIN Section(k) : Section(k)[j].kind = "uses" /\ Section(k)[j].arg = a
  <2>1. k \in G /\ Root(k) = schema.grps[k].name /\ Section(k) = schema.grps[k].body
    BY SchemaFacts
  <2>2. a \in Targets(UsesEdges, Root(k)) <=> a \in N(k)
    <3> HIDE DEF N
    <3>1. \A l \in G : schema.grps[l].name = schema.grps[k].name => l = k
      BY <1>1, <2>1 DEF OnceNamed
    <3> QED
      BY <1>6, <1>9, <2>1, <3>1
  <2>3. a \in N(k) <=> \E j \in DOMAIN Section(k) : Section(k)[j].kind = "uses" /\ Section(k)[j].arg = a
    BY <2>1 DEF Nodes
  <2> QED
    BY <2>2, <2>3
<1>11. \A n : n \notin Grps => Targets(UsesEdges, n) = {}
  <2> HIDE DEF N
  <2> QED
    BY <1>6, <1>9 DEF Grps
<1>12. \A n, a : a \in Targets(TypeEdges, n) <=> \E k \in T : schema.tpdfs[k].name = n /\ schema.tpdfs[k].type = a
  <2>1. \A e \in TypeEdges : e = <<e[1], e[2]>>
    BY DEF TypeEdges
  <2>2. \A n, a : a \in Targets(TypeEdges, n) <=> <<n, a>> \in TypeEdges
    BY <1>7, <2>1
  <2>3. \A n, a : <<n, a>> \in TypeEdges <=> \E k \in T : schema.tpdfs[k].name = n /\ schema.tpdfs[k].type = a
    BY DEF TypeEdges
  <2> HIDE DEF T
  <2> QED
    BY <2>2, <2>3
<1>13. ASSUME NEW k \in T PROVE Targets(TypeEdges, schema.tpdfs[k].name) = {schema.tpdfs[k].type}
  BY <1>1, <1>12 DEF OnceNamed
<1>14. \A n : n \notin Tpdfs => Targets(TypeEdges, n) = {}
  BY <1>12 DEF Tpdfs
<1> QED
  BY <1>4, <1>5, <1>10, <1>11, <1>13, <1>14
-----------------------------------------------------------------------------
(* When a grouping may be copied                                           *)

\* Complete groupings are groupings that were read.
LEMMA CompleteRead ==
  ASSUME ReadInv, NEW g, Complete(g)
  PROVE  \E k \in 1..Len(schema.grps) : k < at /\ Root(k) = g /\ g \in Grps /\ g \in grps
<1>1. PICK k \in 1..(at - 1) : Root(k) = g
  BY DEF Complete
<1>2. schema \in Schemas /\ at \in 0..DataAt /\ grps = {Root(l) : l \in (1..at) \ {DataAt}}
  BY DEF ReadInv
<1>3. DataAt = Len(schema.grps) + 1 /\ Len(schema.grps) \in Nat
  BY <1>2, SchemaFacts
<1>4. k \in 1..Len(schema.grps) /\ k < at /\ k \in (1..at) \ {DataAt}
  BY <1>2, <1>3
<1>5. Root(k) \in Grps
  BY <1>2, <1>4, SchemaFacts
<1> QED
  BY <1>1, <1>2, <1>4, <1>5

\* What a complete grouping refers to is complete.
LEMMA ReachComplete ==
  ASSUME ReadInv, TreeInv, CopyInv, NEW g, Complete(g)
  PROVE  \A h \in Reach(UsesEdges, g) : Complete(h)
<1> DEFINE T == {h \in Grps : Complete(h)}
<1>1. schema \in Schemas
  BY DEF ReadInv
<1>2. ASSUME NEW h \in T, NEW a \in Targets(UsesEdges, h) PROVE a \in T
  <2>1. PICK k \in 1..Len(schema.grps) : k < at /\ Root(k) = h
    BY CompleteRead
  <2>2. PICK j \in DOMAIN Section(k) : Section(k)[j].kind = "uses" /\ Section(k)[j].arg = a
    BY <1>1, <1>2, <2>1, EdgeFacts
  <2>3. k \in 1..DataAt /\ IsRead(k, j)
    BY <1>1, <2>1, SchemaFacts DEF IsRead
  <2> DEFINE p == <<Root(k), j>>
  <2>4. p \in DOMAIN tree /\ tree[p].kind = "uses" /\ tree[p].arg = a
    BY <2>2, <2>3 DEF TreeInv
  <2>5. p[1] = h
    BY <2>1
  <2> HIDE DEF p
  <2>6. Copied(p)
    BY <2>4, <2>5 DEF Complete, Copied
  <2>7. Complete(a)
    BY <2>4, <2>6 DEF CopyInv
  <2> QED
    BY <2>7, CompleteRead
<1>3. g \in T
  BY CompleteRead
<1> HIDE DEF T
<1>4. Targets(UsesEdges, g) \subseteq T /\ \A h \in T : Targets(UsesEdges, h) \subseteq T
  BY <1>2, <1>3
<1>5. IsFiniteSet(UsesEdges)
  BY <1>1, EdgeFacts
<1>6. Reach(UsesEdges, g) \subseteq T
  BY <1>4, <1>5, ReachFacts
<1> QED
  BY <1>6 DEF T

\* The items that wait for a grouping are finitely many uses of its own.
LEMMA WaitingFacts ==
  ASSUME UnresInv, NEW g
  PROVE  /\ IsFiniteSet(Waiting(g)) /\ Cardinality(Waiting(g)) \in Nat
         /\ \A k \in Waiting(g) : /\ k \in DOMAIN unres /\ IsUses(k) /\ unres[k].item \in DOMAIN tree
                                  /\ tree[unres[k].item].kind = "uses" /\ ~tree[unres[k].item].res
                                  /\ unres[k].item[1] = g /\ Len(unres[k].item) = 2
<1>1. unres \in Seq(Items)
  BY DEF UnresInv
<1>2. DOMAIN unres = 1..Len(unres) /\ Len(unres) \in Nat
  BY <1>1, LenProperties
<1>3. IsFiniteSet(DOMAIN unres)
  BY <1>2, FS_Interval
<1>4. Waiting(g) \in SUBSET DOMAIN unres
  BY DEF Waiting
<1>5. IsFiniteSet(Waiting(g)) /\ Cardinality(Waiting(g)) \in Nat
  BY <1>3, <1>4, FS_Subset, FS_CardinalityType
<1>6. ASSUME NEW k \in Waiting(g)
      PROVE  /\ k \in DOMAIN unres /\ IsUses(k) /\ unres[k].item \in DOMAIN tree
             /\ tree[unres[k].item].kind = "uses" /\ ~tree[unres[k].item].res
             /\ unres[k].item[1] = g /\ Len(unres[k].item) = 2
  BY DEF Waiting, IsUses, UnresInv
<1> QED
  BY <1>5, <1>6

\* A complete grouping can be copied.
LEMMA CompleteCopyable ==
  ASSUME ReadInv, UnresInv, NacmInv, NEW g, Complete(g)
  PROVE  g \in grps /\ nacm[g] = 0
<1>1. g \in grps /\ g \in Grps
  BY CompleteRead
<1>2. Waiting(g) = {}
  <2> SUFFICES ASSUME NEW k \in Waiting(g) PROVE FALSE
    OBVIOUS
  <2>1. /\ unres[k].item \in DOMAIN tree /\ tree[unres[k].item].kind = "uses"
        /\ ~tree[unres[k].item].res /\ unres[k].item[1] = g
    BY WaitingFacts
  <2> QED
    BY <2>1 DEF Complete
<1>3. nacm[g] = Cardinality(Waiting(g))
  BY <1>1 DEF NacmInv
<1> QED
  BY <1>1, <1>2, <1>3, FS_EmptySet

\* A grouping that can be copied is complete.
LEMMA CopyableComplete ==
  ASSUME ReadInv, TodoInv, UnresInv, Covered, NacmInv,
         NEW p \in DOMAIN tree, Copyable(p), p[1] # tree[p].arg,
         \/ status = "resolve" /\ todo = << >>
         \/ Calling /\ Head(todo).path = p
  PROVE  Complete(tree[p].arg)
<1> DEFINE g == tree[p].arg
<1>1. /\ schema \in Schemas /\ at \in 0..DataAt /\ grps = {Root(l) : l \in (1..at) \ {DataAt}}
      /\ status \in {"resolve", "ok", "error"} => at = DataAt
  BY DEF ReadInv
<1>2. DataAt = Len(schema.grps) + 1 /\ Len(schema.grps) \in Nat
  BY <1>1, SchemaFacts
<1>3. g \in grps /\ nacm[g] = 0
  BY DEF Copyable
<1>4. PICK k \in (1..at) \ {DataAt} : Root(k) = g
  BY <1>1, <1>3
<1>5. k \in 1..Len(schema.grps)
  BY <1>1, <1>2
<1>6. g \in Grps
  BY <1>1, <1>4, <1>5, SchemaFacts
<1>7. Waiting(g) = {}
  <2>1. nacm[g] = Cardinality(Waiting(g)) /\ IsFiniteSet(Waiting(g))
    BY <1>6, WaitingFacts DEF NacmInv
  <2> QED
    BY <1>3, <2>1, FS_EmptySet
<1>8. ASSUME NEW l \in DOMAIN todo PROVE todo[l].path[1] # g
  <2>1. Calling /\ Head(todo).path = p
    BY <1>8
  <2>2. todo # << >> /\ todo \in Seq([op : {"try", "end"}, path : DOMAIN tree, first : BOOLEAN])
    BY <2>1 DEF Calling, TodoInv
  <2>3. 1 \in DOMAIN todo /\ todo[1].path = p
    BY <2>1, <2>2
  <2>4. todo[l].path[1] = todo[1].path[1]
    BY <1>8, <2>3 DEF TodoInv
  <2> QED
    BY <2>3, <2>4
<1>9. k < at
  <2>1. CASE status = "resolve"
    BY <1>1, <1>2, <1>5, <2>1
  <2>2. CASE status # "resolve"
    <3>1. Calling /\ Head(todo).path = p /\ status = "parse"
      BY <2>2 DEF Calling
    <3>2. todo # << >> /\ todo \in Seq([op : {"try", "end"}, path : DOMAIN tree, first : BOOLEAN])
      BY <3>1 DEF Calling, TodoInv
    <3>3. 1 \in DOMAIN todo
      BY <3>2
    <3>4. todo[1].path[1] = Root(at)
      BY <3>1, <3>3 DEF TodoInv
    <3>5. Root(k) # Root(at)
      BY <1>4, <1>8, <3>3, <3>4
    <3> QED
      BY <1>1, <1>2, <1>5, <3>5
  <2> QED
    BY <2>1, <2>2
<1>10. ASSUME NEW q \in DOMAIN tree, q[1] = g, tree[q].kind = "uses", ~tree[q].res PROVE FALSE
  <2>1. ~ \E l \in DOMAIN todo : todo[l].path = q
    BY <1>8, <1>10
  <2>2. PICK l \in DOMAIN unres : unres[l].kind # "typedef" /\ ~unres[l].done /\ unres[l].item = q
    BY <1>10, <2>1 DEF Covered
  <2>3. unres[l].kind \in {"typedef", "type", "uses"}
    <3>1. unres[l] \in Items
      BY ElementOfSeq, LenProperties DEF UnresInv
    <3> QED
      BY <3>1 DEF Items
  <2>4. unres[l].kind = "type" => tree[q].kind = "leaf"
    BY <2>2 DEF UnresInv
  <2>5. l \in Waiting(g)
    BY <1>10, <2>2, <2>3, <2>4 DEF Waiting
  <2> QED
    BY <1>7, <2>5
<1>11. \E l \in 1..(at - 1) : Root(l) = g
  BY <1>1, <1>2, <1>4, <1>5, <1>9
<1> QED
  BY <1>10, <1>11 DEF Complete

\* A sequence over a set is one over every larger set.
LEMMA SeqWider ==
  ASSUME NEW A, NEW B, A \subseteq B, NEW s \in Seq(A)
  PROVE  s \in Seq(B)
<1>1. Len(s) \in Nat /\ DOMAIN s = 1..Len(s) /\ s \in [1..Len(s) -> A]
  BY LenProperties
<1>2. s \in [1..Len(s) -> B]
  BY <1>1
<1> QED
  BY <1>1, <1>2, SeqDef

\* Groupings stay complete while only others get nodes.
LEMMA CompleteKept ==
  ASSUME ReadInv, schema' = schema, at' \in Nat, at' >= at,
         \A q \in DOMAIN tree' :
           \/ q \in DOMAIN tree /\ tree'[q].kind = tree[q].kind /\ (tree[q].res => tree'[q].res)
           \/ ~Complete(q[1])
  PROVE  \A g : Complete(g) => Complete(g)'
<1> SUFFICES ASSUME NEW g, Complete(g) PROVE Complete(g)'
  OBVIOUS
<1>1. at \in Nat
  <2>1. at \in 0..DataAt /\ DataAt \in Nat
    BY SchemaFacts DEF ReadInv
  <2> QED
    BY <2>1
<1>2. PICK k \in 1..(at - 1) : Root(k) = g
  BY DEF Complete
<1>3. k \in 1..(at' - 1) /\ Root(k)' = g
  <2>1. k \in 1..(at' - 1)
    <3>1. \A a, b \in Nat : \A l \in 1..(a - 1) : b >= a => l \in 1..(b - 1)
      OBVIOUS
    <3> QED
      BY <1>1, <3>1
  <2>2. Root(k)' = Root(k)
    BY DEF Root, DataAt
  <2> QED
    BY <1>2, <2>1, <2>2
<1>4. ASSUME NEW q \in DOMAIN tree', q[1] = g, tree'[q].kind = "uses" PROVE tree'[q].res
  BY <1>4 DEF Complete
<1> QED
  BY <1>3, <1>4 DEF Complete

-----------------------------------------------------------------------------
(* The copying of a grouping                                               *)

\* resolve_uses is called for p, as a first try or for the item i of the list.
Enters(p, first) ==
  /\ p \in DOMAIN tree /\ tree[p].kind = "uses" /\ Copyable(p) /\ p[1] # tree[p].arg
  /\ \/ /\ first = TRUE /\ Calling /\ Head(todo).path = p /\ Head(todo).op = "try"
     \/ /\ first = FALSE /\ status = "resolve" /\ todo = << >>
        /\ i \in DOMAIN unres /\ IsUses(i) /\ unres[i].item = p

\* All of the above without the counters of a pass.
CopyInvs ==
  ReadInv /\ TreeInv /\ TodoInv /\ UnresInv /\ Covered /\ CopyInv /\ NacmInv /\ TypeInv

\* The first call to make.
LEMMA HeadFacts ==
  ASSUME TodoInv, todo # << >>
  PROVE  /\ Len(todo) \in Nat \ {0} /\ DOMAIN todo = 1..Len(todo) /\ 1 \in DOMAIN todo /\ Head(todo) = todo[1]
         /\ Head(todo) \in [op : {"try", "end"}, path : DOMAIN tree, first : BOOLEAN]
         /\ Tail(todo) \in Seq([op : {"try", "end"}, path : DOMAIN tree, first : BOOLEAN])
         /\ Len(Tail(todo)) = Len(todo) - 1 /\ DOMAIN Tail(todo) = 1..(Len(todo) - 1)
         /\ \A k \in 1..(Len(todo) - 1) : k + 1 \in DOMAIN todo /\ Tail(todo)[k] = todo[k + 1]
<1>1. todo \in Seq([op : {"try", "end"}, path : DOMAIN tree, first : BOOLEAN])
  BY DEF TodoInv
<1> DEFINE S == [op : {"try", "end"}, path : DOMAIN tree, first : BOOLEAN]
<1>2. todo \in Seq(S)
  BY <1>1
<1> HIDE DEF S
<1>3. /\ Len(todo) \in Nat \ {0} /\ DOMAIN todo = 1..Len(todo) /\ Head(todo) = todo[1] /\ Head(todo) \in S
      /\ Tail(todo) \in Seq(S) /\ Len(Tail(todo)) = Len(todo) - 1
      /\ \A k \in 1..(Len(todo) - 1) : Tail(todo)[k] = todo[k + 1]
  BY <1>2
<1>4. DOMAIN Tail(todo) = 1..(Len(todo) - 1)
  BY <1>3, LenProperties
<1>5. 1 \in DOMAIN todo /\ \A k \in 1..(Len(todo) - 1) : k + 1 \in DOMAIN todo
  BY <1>3
<1> QED
  BY <1>3, <1>4, <1>5 DEF S

\* What is known of the uses and of the grouping it copies.
LEMMA EnterFacts ==
  ASSUME CopyInvs, NEW p, NEW first, Enters(p, first)
  PROVE  /\ schema \in Schemas /\ p \in Seq(Elem) /\ IsPath(p) /\ first \in BOOLEAN
         /\ \A q \in DOMAIN tree : q \in Seq(Elem) /\ IsPath(q) /\ tree[q] \in NodeRec
         /\ tree[p].arg \in Grps /\ tree[p].arg \in Elem /\ p[1] # tree[p].arg
         /\ ~tree[p].res /\ ~Copied(p) /\ NotBelow(p)
         /\ Complete(tree[p].arg) /\ ~Complete(p[1]) /\ status \in {"parse", "resolve"}
<1>1. /\ ReadInv /\ TreeInv /\ TodoInv /\ UnresInv /\ Covered /\ CopyInv /\ NacmInv /\ schema \in Schemas
  BY DEF CopyInvs, ReadInv
<1>2. p \in DOMAIN tree /\ tree[p].kind = "uses" /\ Copyable(p) /\ p[1] # tree[p].arg /\ first \in BOOLEAN
  BY DEF Enters
<1>3. \A q \in DOMAIN tree : q \in Seq(Elem) /\ IsPath(q) /\ tree[q] \in NodeRec
  BY <1>1 DEF TreeInv, IsPath
<1>4. \/ Calling /\ Head(todo).path = p /\ Head(todo).op = "try"
      \/ status = "resolve" /\ todo = << >> /\ i \in DOMAIN unres /\ IsUses(i) /\ unres[i].item = p
  BY DEF Enters
<1>5. Complete(tree[p].arg)
  BY <1>1, <1>2, <1>4, CopyableComplete
<1>6. ~tree[p].res /\ ~Copied(p)
  <2>1. CASE todo # << >>
    <3>1. 1 \in DOMAIN todo /\ todo[1].path = p /\ todo[1].op = "try"
      BY <1>1, <1>4, <2>1, HeadFacts
    <3>2. ~tree[p].res
      BY <1>1, <3>1 DEF TodoInv
    <3>3. \A k \in DOMAIN todo : todo[k].path = p => k = 1
      BY <1>1, <3>1 DEF TodoInv
    <3> QED
      BY <3>1, <3>2, <3>3 DEF Copied
  <2>2. CASE todo = << >>
    <3>1. i \in DOMAIN unres /\ IsUses(i) /\ unres[i].item = p
      BY <1>4, <2>2 DEF Calling
    <3>2. ~tree[p].res
      BY <1>1, <3>1 DEF UnresInv, IsUses
    <3>3. DOMAIN todo = {}
      BY <2>2
    <3> QED
      BY <3>2, <3>3 DEF Copied
  <2> QED
    BY <2>1, <2>2
<1>7. NotBelow(p)
  BY <1>1, <1>2, <1>6 DEF CopyInv
<1>8. ~Complete(p[1])
  BY <1>2, <1>6 DEF Complete
<1>9. tree[p].arg \in Grps
  BY <1>1, <1>5, CompleteRead
<1>10. tree[p].arg \in Elem
  BY <1>1, <1>9, SchemaFacts DEF Roots
<1>11. status \in {"parse", "resolve"}
  BY <1>4 DEF Calling
<1> QED
  BY <1>1, <1>2, <1>3, <1>5, <1>6, <1>7, <1>8, <1>9, <1>10, <1>11

\* The nodes after the copying: the old ones as they were, and below p what is
\* below the grouping.
TreeCopied(p, g) ==
  /\ DOMAIN tree' = DOMAIN tree \cup Copies(p) /\ IsFiniteSet(DOMAIN tree')
  /\ \A q \in DOMAIN tree : q \notin Copies(p) /\ tree'[q] = tree[q]
  /\ \A c \in Copies(p) : \E s \in Rest : c = p \o s /\ <<g>> \o s \in DOMAIN tree
  /\ \A s \in Rest : p \o s \in DOMAIN tree' <=> <<g>> \o s \in DOMAIN tree
  /\ \A s \in Rest : <<g>> \o s \in DOMAIN tree =>
       /\ p \o s \in Copies(p) /\ tree'[p \o s] \in NodeRec
       /\ tree'[p \o s].kind = tree[<<g>> \o s].kind /\ tree'[p \o s].arg = tree[<<g>> \o s].arg
       /\ tree[<<g>> \o s].kind = "leaf" => tree'[p \o s].res = tree[<<g>> \o s].res
       /\ tree[<<g>> \o s].kind = "uses" => (tree'[p \o s].res <=> ~NotBelow(<<g>> \o s))
  /\ \A c \in Copies(p) : tree'[c].res <=> ~Unfinished(Origin(p, c))

\* That is what resolve_uses does.
LEMMA CopyTree ==
  ASSUME CopyInvs, NEW p, NEW first, Enters(p, first), resolve_uses(p, first), NEW g, g = tree[p].arg
  PROVE  TreeCopied(p, g)
<1> DEFINE C == Copies(p)
           again == {c \in C : Unfinished(Origin(p, c))}
<1>1. /\ schema \in Schemas /\ p \in Seq(Elem) /\ IsPath(p)
      /\ \A q \in DOMAIN tree : q \in Seq(Elem) /\ IsPath(q) /\ tree[q] \in NodeRec
      /\ tree[p].arg \in Elem /\ p[1] # tree[p].arg /\ NotBelow(p) /\ Complete(g)
  BY EnterFacts
<1>2. /\ \A s \in Rest : p \o s \in C <=> <<g>> \o s \in DOMAIN tree
      /\ \A c \in C : \E s \in Rest : c = p \o s /\ <<g>> \o s \in DOMAIN tree
      /\ \A s \in Rest : Origin(p, p \o s) = <<g>> \o s
  <2>1. g \in Elem /\ \A q \in DOMAIN tree : q \in Seq(Elem)
    BY <1>1
  <2> HIDE DEF C
  <2>2. /\ \A s \in Rest : p \o s \in Copies(p) <=> <<g>> \o s \in DOMAIN tree
        /\ \A c \in Copies(p) : \E s \in Rest : c = p \o s /\ <<g>> \o s \in DOMAIN tree
        /\ \A s \in Rest : Origin(p, p \o s) = <<g>> \o s
    BY <1>1, <2>1, CopiesFacts
  <2> QED
    BY <2>2 DEF C
<1>3. tree' = [c \in DOMAIN tree \cup C |->
                IF c \in C THEN [tree[Origin(p, c)] EXCEPT !.res = @ /\ c \notin again] ELSE tree[c]]
  BY <1>1 DEF resolve_uses
<1> HIDE DEF C, again
<1>4. DOMAIN tree' = DOMAIN tree \cup C
  BY <1>3
<1>5. IsFiniteSet(DOMAIN tree')
  <2> DEFINE B == Below(<<g>>)
             f == [q \in B |-> p \o Tail(q)]
  <2>1. IsFiniteSet(DOMAIN tree)
    BY DEF CopyInvs, TreeInv
  <2>2. B \in SUBSET DOMAIN tree
    BY DEF Below
  <2>3. f = [q \in B |-> f[q]] /\ C = {f[q] : q \in B}
    BY DEF C, Copies
  <2> HIDE DEF f, B
  <2>4. IsFiniteSet(B)
    BY <2>1, <2>2, FS_Subset
  <2>5. IsFiniteSet(C)
    BY <2>3, <2>4, ImageFinite
  <2> QED
    BY <1>4, <2>1, <2>5, FS_Union
<1>6. ASSUME NEW q \in DOMAIN tree PROVE q \notin C /\ tree'[q] = tree[q]
  <2>1. q \notin C
    BY <1>1, <1>2 DEF NotBelow
  <2> QED
    BY <1>3, <2>1
<1>7. ASSUME NEW s \in Rest PROVE p \o s \in DOMAIN tree' <=> <<g>> \o s \in DOMAIN tree
  BY <1>1, <1>2, <1>4 DEF NotBelow
<1>8. ASSUME NEW s \in Rest, <<g>> \o s \in DOMAIN tree
      PROVE  /\ p \o s \in C /\ tree'[p \o s] \in NodeRec
             /\ tree'[p \o s].kind = tree[<<g>> \o s].kind /\ tree'[p \o s].arg = tree[<<g>> \o s].arg
             /\ tree[<<g>> \o s].kind = "leaf" => tree'[p \o s].res = tree[<<g>> \o s].res
             /\ tree[<<g>> \o s].kind = "uses" => (tree'[p \o s].res <=> ~NotBelow(<<g>> \o s))
             /\ tree'[p \o s].res <=> ~Unfinished(<<g>> \o s)
  <2> DEFINE o == <<g>> \o s
             c == p \o s
  <2>1. c \in C /\ Origin(p, c) = o /\ o \in DOMAIN tree /\ tree[o] \in NodeRec /\ o \in Seq(Elem)
    BY <1>1, <1>2, <1>8
  <2>2. o[1] = g
    <3>1. <<g>> \in Seq(Elem) /\ <<g>> # << >> /\ <<g>>[1] = g
      BY <1>1
    <3> QED
      BY <3>1, RestFacts
  <2> HIDE DEF o, c
  <2>3. tree'[c] = [tree[o] EXCEPT !.res = @ /\ c \notin again]
    BY <1>3, <2>1
  <2>4. c \in again <=> Unfinished(o)
    BY <2>1 DEF again
  <2>5. /\ tree'[c] \in NodeRec /\ tree'[c].kind = tree[o].kind /\ tree'[c].arg = tree[o].arg
        /\ tree'[c].res = (tree[o].res /\ c \notin again)
    BY <2>1, <2>3 DEF NodeRec
  <2>6. tree[o].kind = "uses" => tree[o].res
    BY <1>1, <2>1, <2>2 DEF Complete
  <2>7. Below(o) = {} <=> NotBelow(o)
    BY <1>1, <2>1, BelowFacts
  <2>8. tree[o].kind = "leaf" \/ tree[o].kind = "uses"
    BY <2>1 DEF NodeRec
  <2>9. tree[o].res \in BOOLEAN
    BY <2>1 DEF NodeRec
  <2>10. tree[o].kind = "leaf" => tree'[c].res = tree[o].res /\ (tree'[c].res <=> ~Unfinished(o))
    BY <2>4, <2>5, <2>9 DEF Unfinished
  <2>11. tree[o].kind = "uses" => (tree'[c].res <=> ~NotBelow(o)) /\ (tree'[c].res <=> ~Unfinished(o))
    BY <2>4, <2>5, <2>6, <2>7 DEF Unfinished
  <2>12. /\ c \in C /\ tree'[c] \in NodeRec /\ tree'[c].kind = tree[o].kind /\ tree'[c].arg = tree[o].arg
         /\ tree[o].kind = "leaf" => tree'[c].res = tree[o].res
         /\ tree[o].kind = "uses" => (tree'[c].res <=> ~NotBelow(o))
         /\ tree'[c].res <=> ~Unfinished(o)
    BY <2>1, <2>5, <2>8, <2>10, <2>11
  <2> QED
    BY <2>12 DEF o, c
<1>9. ASSUME NEW c \in C PROVE tree'[c].res <=> ~Unfinished(Origin(p, c))
  <2>1. PICK s \in Rest : c = p \o s /\ <<g>> \o s \in DOMAIN tree /\ Origin(p, c) = <<g>> \o s
    BY <1>2
  <2>2. tree'[p \o s].res <=> ~Unfinished(<<g>> \o s)
    BY <1>8, <2>1
  <2> QED
    BY <2>1, <2>2
<1> QED
  BY <1>2, <1>4, <1>5, <1>6, <1>7, <1>8, <1>9 DEF C, TreeCopied

\* The copies are nodes below p.
LEMMA CopyPaths ==
  ASSUME CopyInvs, NEW p, NEW first, Enters(p, first), NEW c \in Copies(p)
  PROVE  IsPath(c) /\ c[1] = p[1] /\ c[2] = p[2] /\ Len(c) > 2
<1> DEFINE g == tree[p].arg
<1>a. /\ p \in Seq(Elem) /\ IsPath(p) /\ g \in Elem /\ \A q \in DOMAIN tree : q \in Seq(Elem) /\ IsPath(q)
  BY EnterFacts
<1>b. \E s \in Rest : c = p \o s /\ <<g>> \o s \in DOMAIN tree
  <2>1. p \in Seq(Elem) /\ g = tree[p].arg /\ g \in Elem /\ \A q \in DOMAIN tree : q \in Seq(Elem)
    BY <1>a
  <2>2. ASSUME NEW h \in Elem, h = tree[p].arg
        PROVE  /\ \A s \in Rest : p \o s \in Copies(p) <=> <<h>> \o s \in DOMAIN tree
               /\ \A d \in Copies(p) : \E s \in Rest : d = p \o s /\ <<h>> \o s \in DOMAIN tree
               /\ \A s \in Rest : Origin(p, p \o s) = <<h>> \o s
    <3> HIDE DEF g
    <3> QED
      BY <2>1, <2>2, CopiesFacts
  <2> QED
    BY <2>1, <2>2
<1>1. PICK s \in Rest : c = p \o s /\ <<g>> \o s \in DOMAIN tree
  BY <1>b
<1> DEFINE o == <<g>> \o s
<1>2. Len(p) \in Nat /\ Len(p) >= 2 /\ p[1] \in Roots /\ \A k \in 2..Len(p) : p[k] \in Nat
  BY <1>a, LenProperties DEF IsPath
<1>3. p # << >>
  BY <1>2, EmptySeq
<1>4. /\ c \in Seq(Elem) /\ Len(c) = Len(p) + Len(s) /\ Len(s) \in Nat \ {0} /\ c[1] = p[1] /\ c[2] = p[2]
  BY <1>a, <1>1, <1>2, <1>3, RestFacts
<1>5. o \in Seq(Elem) /\ Len(o) \in Nat /\ Len(o) >= 2 /\ \A k \in 2..Len(o) : o[k] \in Nat
  BY <1>a, <1>1, LenProperties DEF IsPath
<1>6. s \in Seq(Elem) /\ <<g>> \in Seq(Elem) /\ Len(<<g>>) = 1
  BY <1>a DEF Rest
<1>7. /\ Len(o) = 1 + Len(s)
      /\ \A k \in 1..(1 + Len(s)) : o[k] = IF k <= 1 THEN <<g>>[k] ELSE s[k - 1]
  BY <1>6, ConcatProperties
<1>8. \A k \in 1..(Len(p) + Len(s)) : c[k] = IF k <= Len(p) THEN p[k] ELSE s[k - Len(p)]
  BY <1>a, <1>1, <1>6, ConcatProperties
<1> HIDE DEF o
<1>9. ASSUME NEW k \in 1..Len(s) PROVE s[k] \in Nat
  <2>1. k + 1 \in 2..Len(o) /\ k + 1 \in 1..(1 + Len(s)) /\ ~(k + 1 <= 1) /\ (k + 1) - 1 = k
    BY <1>4, <1>7
  <2>2. o[k + 1] = s[k]
    BY <1>7, <2>1
  <2> QED
    BY <1>5, <2>1, <2>2
<1>10. ASSUME NEW k \in 2..Len(c) PROVE c[k] \in Nat
  <2>1. k \in 1..(Len(p) + Len(s)) /\ (k <= Len(p) => k \in 2..Len(p))
        /\ (~(k <= Len(p)) => k - Len(p) \in 1..Len(s))
    BY <1>2, <1>4
  <2> QED
    BY <1>2, <1>8, <1>9, <2>1
<1>11. Len(c) > 2 /\ Len(c) >= 2
  BY <1>2, <1>4
<1> QED
  BY <1>2, <1>4, <1>10, <1>11 DEF IsPath

\* A sequence, an element and a sequence in a row.
LEMMA ConcatThree ==
  ASSUME NEW S, NEW a \in Seq(S), NEW e \in S, NEW b \in Seq(S), NEW t, t = a \o <<e>> \o b
  PROVE  /\ t \in Seq(S) /\ Len(t) = Len(a) + 1 + Len(b) /\ Len(a) \in Nat /\ Len(b) \in Nat
         /\ \A k \in 1..Len(a) : t[k] = a[k]
         /\ t[Len(a) + 1] = e
         /\ \A k \in 1..Len(b) : t[Len(a) + 1 + k] = b[k]
<1>1. <<e>> \in Seq(S) /\ Len(<<e>>) = 1 /\ <<e>>[1] = e
  OBVIOUS
<1> DEFINE c == a \o <<e>>
<1>2. /\ c \in Seq(S) /\ Len(c) = Len(a) + Len(<<e>>) /\ Len(a) \in Nat /\ Len(b) \in Nat
      /\ \A k \in 1..(Len(a) + Len(<<e>>)) : c[k] = IF k <= Len(a) THEN a[k] ELSE <<e>>[k - Len(a)]
  BY <1>1, ConcatProperties, LenProperties
<1> HIDE DEF c
<1>3. Len(c) = Len(a) + 1 /\ (\A k \in 1..Len(a) : c[k] = a[k]) /\ c[Len(a) + 1] = e
  <2>1. Len(c) = Len(a) + 1 /\ \A k \in 1..(Len(a) + 1) : c[k] = IF k <= Len(a) THEN a[k] ELSE <<e>>[k - Len(a)]
    BY <1>1, <1>2
  <2>2. Len(a) + 1 \in 1..(Len(a) + 1) /\ ~(Len(a) + 1 <= Len(a)) /\ (Len(a) + 1) - Len(a) = 1
    BY <1>2
  <2>3. c[Len(a) + 1] = <<e>>[1]
    BY <2>1, <2>2
  <2>4. \A k \in 1..Len(a) : c[k] = a[k]
    BY <1>2, <2>1
  <2> QED
    BY <1>1, <2>1, <2>3, <2>4
<1>4. t = c \o b
  BY DEF c
<1>5. /\ t \in Seq(S) /\ Len(t) = Len(c) + Len(b)
      /\ \A k \in 1..(Len(c) + Len(b)) : t[k] = IF k <= Len(c) THEN c[k] ELSE b[k - Len(c)]
  BY <1>2, <1>4, ConcatProperties
<1>6. \A k \in 1..(Len(a) + 1) : t[k] = c[k]
  BY <1>2, <1>3, <1>5
<1>7. \A k \in 1..Len(b) : t[Len(a) + 1 + k] = b[k]
  <2> SUFFICES ASSUME NEW k \in 1..Len(b) PROVE t[Len(a) + 1 + k] = b[k]
    OBVIOUS
  <2>1. Len(a) + 1 + k \in 1..(Len(c) + Len(b)) /\ ~(Len(a) + 1 + k <= Len(c)) /\ (Len(a) + 1 + k) - Len(c) = k
    BY <1>2, <1>3
  <2> QED
    BY <1>5, <2>1
<1>8. Len(a) + 1 \in 1..(Len(a) + 1) /\ \A k \in 1..Len(a) : k \in 1..(Len(a) + 1)
  BY <1>2
<1> QED
  BY <1>2, <1>3, <1>5, <1>6, <1>7, <1>8

\* The calls that are to be made after the copying: n for the copies that are not
\* resolved, the one that ends resolve_uses, and the m that were to be made.
IsTodo(t, n, m, p, first) ==
  /\ n \in Nat /\ m \in Nat /\ m = (IF todo = << >> THEN 0 ELSE Len(todo) - 1)
  /\ t \in Seq([op : {"try", "end"}, path : DOMAIN tree', first : BOOLEAN])
  /\ DOMAIN t = 1..(n + 1 + m) /\ Len(t) = n + 1 + m
  /\ \A k \in 1..n : /\ t[k].op = "try" /\ t[k].first
                     /\ t[k].path \in Copies(p) /\ ~tree'[t[k].path].res
  /\ \A c \in Copies(p) : ~tree'[c].res => \E k \in 1..n : t[k].path = c
  /\ \A k, l \in 1..n : t[k].path = t[l].path => k = l
  /\ t[n + 1].op = "end" /\ t[n + 1].path = p /\ t[n + 1].first = first
  /\ \A k \in 1..m : k + 1 \in DOMAIN todo /\ t[n + 1 + k] = todo[k + 1]

\* The calls after resolve_uses.
LEMMA CopyTodo ==
  ASSUME CopyInvs, NEW p, NEW first, Enters(p, first), resolve_uses(p, first)
  PROVE  \E n, m \in Nat : IsTodo(todo', n, m, p, first)
<1> DEFINE g == tree[p].arg
           C == Copies(p)
           again == {c \in C : Unfinished(Origin(p, c))}
           tries == InOrder(again)
           S == [op : {"try", "end"}, path : DOMAIN tree', first : BOOLEAN]
           a == [k \in DOMAIN tries |-> Call("try", tries[k], TRUE)]
           e == Call("end", p, first)
           b == IF todo = << >> THEN << >> ELSE Tail(todo)
           n == Cardinality(again)
           m == IF todo = << >> THEN 0 ELSE Len(todo) - 1
<1>1. /\ p \in Seq(Elem) /\ IsPath(p) /\ p[1] # g /\ first \in BOOLEAN
      /\ \A q \in DOMAIN tree : q \in Seq(Elem) /\ IsPath(q)
      /\ g \in Elem /\ p \in DOMAIN tree /\ TodoInv
  BY EnterFacts DEF Enters, CopyInvs
<1>2. todo' = a \o <<e>> \o b
  BY <1>1 DEF resolve_uses
<1>3. /\ DOMAIN tree' = DOMAIN tree \cup C /\ IsFiniteSet(DOMAIN tree')
      /\ \A c \in C : \E s \in Rest : c = p \o s /\ <<g>> \o s \in DOMAIN tree
      /\ \A c \in C : tree'[c].res <=> ~Unfinished(Origin(p, c))
  BY CopyTree DEF TreeCopied
<1>4. again = {c \in C : ~tree'[c].res}
  BY <1>3
<1>5. IsFiniteSet(again)
  <2>1. again \in SUBSET DOMAIN tree'
    BY <1>3
  <2> HIDE DEF again
  <2> QED
    BY <1>3, <2>1, FS_Subset
<1>6. ASSUME NEW c \in C PROVE IsPath(c) /\ c[1] = p[1]
  BY CopyPaths
<1>7. /\ tries \in Seq(again) /\ Len(tries) = n /\ (\A c \in again : \E k \in DOMAIN tries : tries[k] = c)
      /\ \A k, l \in DOMAIN tries : tries[k] = tries[l] => k = l
  <2>1. (\A c \in again : IsPath(c)) /\ \A c, d \in again : c[1] = d[1]
    BY <1>6
  <2> HIDE DEF again
  <2> QED
    BY <1>5, <2>1, InOrderFacts
<1>8. n \in Nat /\ DOMAIN tries = 1..n
  BY <1>5, <1>7, LenProperties, FS_CardinalityType
<1>9. /\ a \in Seq(S) /\ Len(a) = n /\ \A k \in 1..n : a[k] = Call("try", tries[k], TRUE)
  <2>1. \A k \in 1..n : tries[k] \in again
    BY <1>7, <1>8, ElementOfSeq
  <2>2. \A k \in 1..n : Call("try", tries[k], TRUE) \in S
    <3> HIDE DEF tries, n
    <3> QED
      BY <1>3, <2>1 DEF Call
  <2>3. a \in [1..n -> S]
    BY <1>8, <2>2
  <2> HIDE DEF n, S, tries
  <2>4. a \in Seq(S) /\ DOMAIN a = 1..n
    BY <1>8, <2>3, SeqDef
  <2>5. Len(a) = n
    BY <1>8, <2>4, LenProperties
  <2> QED
    BY <1>8, <2>4, <2>5
<1>10. e \in S
  BY <1>1, <1>3 DEF Call
<1>11. b \in Seq(S) /\ Len(b) = m /\ m \in Nat /\ \A k \in 1..m : k + 1 \in DOMAIN todo /\ b[k] = todo[k + 1]
  <2>1. CASE todo = << >>
    <3>1. b = << >> /\ m = 0
      BY <2>1
    <3> HIDE DEF S, b, m
    <3> QED
      BY <3>1
  <2>2. CASE todo # << >>
    <3> DEFINE R == [op : {"try", "end"}, path : DOMAIN tree, first : BOOLEAN]
    <3>1. /\ Tail(todo) \in Seq(R) /\ Len(Tail(todo)) = Len(todo) - 1 /\ Len(todo) \in Nat \ {0}
          /\ \A k \in 1..(Len(todo) - 1) : k + 1 \in DOMAIN todo /\ Tail(todo)[k] = todo[k + 1]
      BY <1>1, <2>2, HeadFacts
    <3>2. R \subseteq S
      BY <1>3
    <3>3. b = Tail(todo) /\ m = Len(todo) - 1
      BY <2>2
    <3> HIDE DEF S, R, b, m
    <3>4. b \in Seq(S)
      BY <3>1, <3>2, <3>3, SeqWider
    <3> QED
      BY <3>1, <3>3, <3>4
  <2> QED
    BY <2>1, <2>2
<1> HIDE DEF S, a, e, b, n, m, tries, again, C
<1>12. /\ todo' \in Seq(S) /\ Len(todo') = Len(a) + 1 + Len(b)
       /\ \A k \in 1..Len(a) : todo'[k] = a[k]
       /\ todo'[Len(a) + 1] = e
       /\ \A k \in 1..Len(b) : todo'[Len(a) + 1 + k] = b[k]
  <2>1. a \in Seq(S) /\ b \in Seq(S)
    BY <1>9, <1>11
  <2> QED
    BY <1>2, <1>10, <2>1, ConcatThree
<1>13. /\ todo' \in Seq(S) /\ Len(todo') = n + 1 + m
       /\ \A k \in 1..n : todo'[k] = Call("try", tries[k], TRUE)
       /\ todo'[n + 1] = e
       /\ \A k \in 1..m : k + 1 \in DOMAIN todo /\ todo'[n + 1 + k] = todo[k + 1]
  BY <1>9, <1>11, <1>12
<1>14. DOMAIN todo' = 1..(n + 1 + m)
  BY <1>13, LenProperties
<1>15. \A k \in 1..n : todo'[k].op = "try" /\ todo'[k].path = tries[k] /\ todo'[k].first = TRUE
  <2> SUFFICES ASSUME NEW k \in 1..n
               PROVE  todo'[k].op = "try" /\ todo'[k].path = tries[k] /\ todo'[k].first = TRUE
    OBVIOUS
  <2>1. todo'[k] = [op |-> "try", path |-> tries[k], first |-> TRUE]
    BY <1>13 DEF Call
  <2> QED
    BY <2>1
<1>16. \A k \in 1..n : todo'[k].path \in C /\ ~tree'[todo'[k].path].res
  <2>1. \A k \in 1..n : tries[k] \in again
    BY <1>7, <1>8, ElementOfSeq
  <2> QED
    BY <1>4, <1>15, <2>1
<1>17. ASSUME NEW c \in C, ~tree'[c].res PROVE \E k \in 1..n : todo'[k].path = c
  <2>1. c \in again
    BY <1>4, <1>17
  <2> QED
    BY <1>7, <1>8, <1>15, <2>1
<1>18. \A k, l \in 1..n : todo'[k].path = todo'[l].path => k = l
  BY <1>7, <1>8, <1>15
<1>19. todo'[n + 1].op = "end" /\ todo'[n + 1].path = p /\ todo'[n + 1].first = first
  BY <1>13 DEF e, Call
<1>20. IsTodo(todo', n, m, p, first)
  BY <1>8, <1>11, <1>13, <1>14, <1>15, <1>16, <1>17, <1>18, <1>19 DEF IsTodo, S, m, C
<1> QED
  BY <1>8, <1>11, <1>20

\* One call of resolve_uses that copies, and what its callers leave alone.
CopyStep(p, first) ==
  /\ Enters(p, first) /\ resolve_uses(p, first)
  /\ UNCHANGED <<schema, at, pos, base, grps, nacm, unres, i>>

\* Which uses have their copies after the step: those that had them, p, and the
\* copies that are resolved at once.
LEMMA CopyCopied ==
  ASSUME CopyInvs, NEW p, NEW first, CopyStep(p, first)
  PROVE  /\ \A q \in DOMAIN tree : q # p => (Copied(q)' <=> Copied(q))
         /\ Copied(p)'
         /\ \A c \in Copies(p) : Copied(c)' <=> tree'[c].res
<1>1. Enters(p, first) /\ resolve_uses(p, first) /\ TodoInv /\ p \in DOMAIN tree
  BY DEF CopyStep, CopyInvs, Enters
<1>2. PICK n, m \in Nat : IsTodo(todo', n, m, p, first)
  BY <1>1, CopyTodo
<1>3. /\ DOMAIN todo' = 1..(n + 1 + m) /\ \A k \in 1..n : todo'[k].op = "try"
      /\ todo'[n + 1].op = "end" /\ todo'[n + 1].path = p
      /\ \A k \in 1..m : k + 1 \in DOMAIN todo /\ todo'[n + 1 + k] = todo[k + 1]
      /\ m = (IF todo = << >> THEN 0 ELSE Len(todo) - 1)
  BY <1>2 DEF IsTodo
<1>4. \A q \in DOMAIN tree : q \notin Copies(p) /\ tree'[q] = tree[q]
  BY <1>1, CopyTree DEF TreeCopied
<1>5. n + 1 \in DOMAIN todo'
  <2>1. n + 1 \in 1..(n + 1 + m)
    OBVIOUS
  <2> QED
    BY <1>3, <2>1
<1>6. \A k \in DOMAIN todo' : k \in 1..n \/ k = n + 1 \/ \E l \in 1..m : k = n + 1 + l
  <2> SUFFICES ASSUME NEW k \in 1..(n + 1 + m), ~(k \in 1..n), k # n + 1 PROVE \E l \in 1..m : k = n + 1 + l
    BY <1>3
  <2>1. k - (n + 1) \in 1..m /\ k = n + 1 + (k - (n + 1))
    OBVIOUS
  <2> QED
    BY <2>1
<1>7. ASSUME NEW q, q # p
      PROVE  (\E k \in DOMAIN todo' : todo'[k].op = "end" /\ todo'[k].path = q)
               <=> \E k \in DOMAIN todo : todo[k].op = "end" /\ todo[k].path = q
  <2>1. ASSUME NEW k \in DOMAIN todo', todo'[k].op = "end", todo'[k].path = q
        PROVE  \E l \in DOMAIN todo : todo[l].op = "end" /\ todo[l].path = q
    <3>1. PICK l \in 1..m : k = n + 1 + l
      BY <1>3, <1>6, <1>7, <2>1
    <3> QED
      BY <1>3, <2>1, <3>1
  <2>2. ASSUME NEW k \in DOMAIN todo, todo[k].op = "end", todo[k].path = q
        PROVE  \E l \in DOMAIN todo' : todo'[l].op = "end" /\ todo'[l].path = q
    <3>1. todo # << >>
      BY <2>2
    <3>2. /\ Len(todo) \in Nat \ {0} /\ DOMAIN todo = 1..Len(todo) /\ Head(todo) = todo[1] /\ Head(todo).op = "try"
      BY <1>1, <3>1, HeadFacts DEF Enters
    <3>3. k # 1
      BY <2>2, <3>2
    <3>4. k - 1 \in 1..m /\ (k - 1) + 1 = k /\ n + 1 + (k - 1) \in 1..(n + 1 + m)
      BY <1>3, <3>1, <3>2, <3>3
    <3> QED
      BY <1>3, <2>2, <3>4
  <2> QED
    BY <2>1, <2>2
<1>8. \A q \in DOMAIN tree : q # p => (Copied(q)' <=> Copied(q))
  BY <1>4, <1>7 DEF Copied
<1>9. Copied(p)'
  BY <1>3, <1>5 DEF Copied
<1>10. ASSUME NEW c \in Copies(p) PROVE Copied(c)' <=> tree'[c].res
  <2>1. c \notin DOMAIN tree /\ c # p
    BY <1>1, <1>4
  <2>2. ~ \E k \in DOMAIN todo : todo[k].op = "end" /\ todo[k].path = c
    <3> SUFFICES ASSUME NEW k \in DOMAIN todo PROVE todo[k].path \in DOMAIN tree
      BY <2>1
    <3> DEFINE S == [op : {"try", "end"}, path : DOMAIN tree, first : BOOLEAN]
    <3>1. todo \in Seq(S)
      BY <1>1 DEF TodoInv
    <3>2. todo[k] \in S
      <4> HIDE DEF S
      <4> QED
        BY <3>1
    <3> QED
      BY <3>2
  <2> QED
    BY <1>7, <2>1, <2>2 DEF Copied
<1> QED
  BY <1>8, <1>9, <1>10

\* Nodes of complete groupings are not touched, and the groupings stay complete.
LEMMA CopyOutside ==
  ASSUME CopyInvs, NEW p, NEW first, CopyStep(p, first)
  PROVE  /\ \A a : Complete(a) => Complete(a)' /\ a \in Elem /\ a # p[1]
         /\ \A q \in DOMAIN tree' : Complete(q[1]) => q \in DOMAIN tree
         /\ \A a : Complete(a) =>
              \A s \in Rest : /\ <<a>> \o s \in DOMAIN tree' <=> <<a>> \o s \in DOMAIN tree
                              /\ <<a>> \o s \in DOMAIN tree => /\ tree'[<<a>> \o s] = tree[<<a>> \o s]
                                                              /\ (<<a>> \o s)[1] = a
<1>1. /\ Enters(p, first) /\ resolve_uses(p, first) /\ ReadInv /\ schema' = schema /\ at' = at
  BY DEF CopyStep, CopyInvs
<1>2. ~Complete(p[1]) /\ schema \in Schemas
  BY <1>1, EnterFacts
<1>3. /\ DOMAIN tree' = DOMAIN tree \cup Copies(p)
      /\ \A q \in DOMAIN tree : q \notin Copies(p) /\ tree'[q] = tree[q]
  BY <1>1, CopyTree DEF TreeCopied
<1>4. \A c \in Copies(p) : c[1] = p[1]
  BY <1>1, CopyPaths
<1>5. \A q \in DOMAIN tree' : Complete(q[1]) => q \in DOMAIN tree
  BY <1>2, <1>3, <1>4
<1>6. \A a : Complete(a) => Complete(a)'
  <2>1. at' \in Nat /\ at' >= at
    <3>1. at \in 0..DataAt /\ DataAt \in Nat
      BY <1>1, SchemaFacts DEF ReadInv
    <3>2. \A x \in Nat : \A y \in 0..x : y \in Nat /\ y >= y
      OBVIOUS
    <3> QED
      BY <1>1, <3>1, <3>2
  <2>2. \A q \in DOMAIN tree' :
          \/ q \in DOMAIN tree /\ tree'[q].kind = tree[q].kind /\ (tree[q].res => tree'[q].res)
          \/ ~Complete(q[1])
    BY <1>3, <1>5
  <2> QED
    BY <1>1, <2>1, <2>2, CompleteKept
<1>7. ASSUME NEW a, Complete(a) PROVE a \in Elem /\ a # p[1]
  <2>1. a \in Grps
    BY <1>1, <1>7, CompleteRead
  <2> QED
    BY <1>2, <1>7, <2>1, SchemaFacts DEF Roots
<1>8. ASSUME NEW a, Complete(a), NEW s \in Rest
      PROVE  /\ <<a>> \o s \in DOMAIN tree' <=> <<a>> \o s \in DOMAIN tree
             /\ <<a>> \o s \in DOMAIN tree => /\ tree'[<<a>> \o s] = tree[<<a>> \o s]
                                              /\ (<<a>> \o s)[1] = a
  <2>1. <<a>> \in Seq(Elem) /\ <<a>> # << >> /\ <<a>>[1] = a
    BY <1>7, <1>8
  <2>2. (<<a>> \o s)[1] = a
    BY <2>1, RestFacts
  <2> QED
    BY <1>3, <1>5, <1>8, <2>2
<1> QED
  BY <1>5, <1>6, <1>7, <1>8

\* Every uses still has the nodes of its grouping below it, or none.
LEMMA CopyKeepsCopy ==
  ASSUME CopyInvs, NEW p, NEW first, CopyStep(p, first)
  PROVE  CopyInv'
<1> DEFINE g == tree[p].arg
           Acyclic(q, a) == q[1] \notin {a} \cup Reach(UsesEdges, a)
<1>1. /\ Enters(p, first) /\ resolve_uses(p, first) /\ ReadInv /\ TreeInv /\ CopyInv
      /\ schema' = schema /\ p \in DOMAIN tree /\ tree[p].kind = "uses"
  BY DEF CopyStep, CopyInvs, Enters
<1>2. /\ p \in Seq(Elem) /\ \A q \in DOMAIN tree : q \in Seq(Elem) /\ IsPath(q)
      /\ g \in Elem /\ NotBelow(p) /\ ~Copied(p) /\ Complete(g) /\ ~Complete(p[1]) /\ p[1] # g
  BY <1>1, EnterFacts
<1>3. /\ DOMAIN tree' = DOMAIN tree \cup Copies(p)
      /\ \A q \in DOMAIN tree : q \notin Copies(p) /\ tree'[q] = tree[q]
      /\ \A c \in Copies(p) : \E s \in Rest : c = p \o s /\ <<g>> \o s \in DOMAIN tree
      /\ \A s \in Rest : p \o s \in DOMAIN tree' <=> <<g>> \o s \in DOMAIN tree
      /\ \A s \in Rest : <<g>> \o s \in DOMAIN tree =>
           /\ p \o s \in Copies(p)
           /\ tree'[p \o s].kind = tree[<<g>> \o s].kind /\ tree'[p \o s].arg = tree[<<g>> \o s].arg
           /\ tree[<<g>> \o s].kind = "uses" => (tree'[p \o s].res <=> ~NotBelow(<<g>> \o s))
  <2>1. TreeCopied(p, g)
    BY <1>1, CopyTree
  <2> HIDE DEF g
  <2> QED
    BY <2>1 DEF TreeCopied
<1>4. /\ \A q \in DOMAIN tree : q # p => (Copied(q)' <=> Copied(q))
      /\ Copied(p)'
      /\ \A c \in Copies(p) : Copied(c)' <=> tree'[c].res
  BY CopyCopied
<1>5. /\ \A a : Complete(a) => Complete(a)' /\ a \in Elem /\ a # p[1]
      /\ \A a : Complete(a) =>
           \A s \in Rest : /\ <<a>> \o s \in DOMAIN tree' <=> <<a>> \o s \in DOMAIN tree
                           /\ <<a>> \o s \in DOMAIN tree => /\ tree'[<<a>> \o s] = tree[<<a>> \o s]
                                                           /\ (<<a>> \o s)[1] = a
  BY CopyOutside
<1>6. ASSUME NEW a, Complete(a) PROVE Acyclic(p, a)
  <2>1. \A h \in Reach(UsesEdges, a) : Complete(h)
    BY <1>1, <1>6, ReachComplete
  <2> QED
    BY <1>2, <1>6, <2>1
<1>7. UsesEdges' = UsesEdges
  BY <1>1 DEF UsesEdges
<1> HIDE DEF g, Acyclic
<1>8. ASSUME NEW q \in DOMAIN tree, q # p, tree[q].kind = "uses", NEW t \in Rest,
             q \o t \in DOMAIN tree'
      PROVE  q \o t \in DOMAIN tree
  <2> SUFFICES ASSUME q \o t \in Copies(p) PROVE FALSE
    BY <1>3, <1>8
  <2>1. PICK s \in Rest : q \o t = p \o s /\ <<g>> \o s \in DOMAIN tree
    BY <1>3
  <2>2. q \in Seq(Elem)
    BY <1>2
  <2>3. ~ \E u \in Rest : q = p \o u
    BY <1>2 DEF NotBelow
  <2>4. \E u \in Rest : p = q \o u
    <3>1. Join(p, s) = Join(q, t) /\ p \in Seq(Elem)
      BY <1>2, <2>1 DEF Join
    <3>2. p = q \/ (\E u \in Rest : q = Join(p, u)) \/ \E u \in Rest : p = Join(q, u)
      BY <2>2, <3>1, BelowBoth
    <3> QED
      BY <1>8, <2>3, <3>2 DEF Join
  <2>6. PICK u \in Rest : p = q \o u
    BY <2>4
  <2>7. Copied(q)
    <3> SUFFICES ASSUME ~Copied(q) PROVE FALSE
      OBVIOUS
    <3>1. NotBelow(q)
      BY <1>1, <1>8 DEF CopyInv
    <3> QED
      BY <1>1, <2>6, <3>1 DEF NotBelow
  <2> DEFINE a == tree[q].arg
             o == <<a>> \o u
  <2>8. Complete(a) /\ Same(q)
    BY <1>1, <1>8, <2>7 DEF CopyInv
  <2>9. o \in DOMAIN tree /\ tree[o].kind = "uses" /\ tree[o].arg = g
    BY <1>1, <2>6, <2>8 DEF Same, g
  <2>10. <<a>> \in Seq(Elem) /\ o[1] = a
    <3>1. a \in Elem
      BY <1>5, <2>8
    <3> QED
      BY <1>5, <2>8, <2>9, <3>1
  <2>11. Copied(o)
    BY <2>8, <2>9, <2>10 DEF Complete, Copied
  <2>12. o \o s \in DOMAIN tree
    <3>1. Same(o)
      BY <1>1, <2>9, <2>11 DEF CopyInv
    <3> HIDE DEF o
    <3> QED
      BY <2>1, <2>9, <3>1 DEF Same
  <2>13. u \o s \in Rest /\ o \o s = <<a>> \o (u \o s) /\ p \o s = q \o (u \o s)
    <3>1. u \o s \in Rest /\ (q \o u) \o s = q \o (u \o s)
      BY <2>2, RestAssoc
    <3>2. (<<a>> \o u) \o s = <<a>> \o (u \o s)
      BY <2>10, RestAssoc
    <3> QED
      BY <2>6, <3>1, <3>2
  <2>14. q \o (u \o s) \in DOMAIN tree
    BY <2>8, <2>12, <2>13 DEF Same
  <2> QED
    BY <1>2, <2>13, <2>14 DEF NotBelow
<1>9. ASSUME NEW q \in DOMAIN tree, q # p, tree[q].kind = "uses", Copied(q),
             NEW a, a = tree'[q].arg
      PROVE  Complete(a)' /\ Same(q)' /\ Acyclic(q, a)
  <2>1. Complete(a) /\ Same(q) /\ Acyclic(q, a) /\ tree'[q] = tree[q] /\ tree[q].arg = a
    BY <1>1, <1>3, <1>9 DEF CopyInv, Acyclic
  <2>2. ASSUME NEW s \in Rest
        PROVE  /\ q \o s \in DOMAIN tree' <=> <<a>> \o s \in DOMAIN tree'
               /\ q \o s \in DOMAIN tree' => /\ tree'[q \o s].kind = tree'[<<a>> \o s].kind
                                             /\ tree'[q \o s].arg = tree'[<<a>> \o s].arg
    <3>1. q \o s \in DOMAIN tree' <=> q \o s \in DOMAIN tree
      BY <1>3, <1>8, <1>9
    <3>2. /\ q \o s \in DOMAIN tree <=> <<a>> \o s \in DOMAIN tree
          /\ q \o s \in DOMAIN tree => /\ tree[q \o s].kind = tree[<<a>> \o s].kind
                                       /\ tree[q \o s].arg = tree[<<a>> \o s].arg
      BY <2>1 DEF Same
    <3> QED
      BY <1>3, <1>5, <2>1, <3>1, <3>2
  <2>3. Same(q)'
    BY <2>1, <2>2 DEF Same
  <2> QED
    BY <1>5, <2>1, <2>3
<1>10. ASSUME NEW q \in DOMAIN tree, q # p, tree[q].kind = "uses", ~Copied(q)
       PROVE  NotBelow(q)'
  <2>1. NotBelow(q)
    BY <1>1, <1>10 DEF CopyInv
  <2> QED
    BY <1>8, <1>10, <2>1 DEF NotBelow
<1>11. ASSUME NEW a, a = tree'[p].arg PROVE Complete(a)' /\ Same(p)' /\ Acyclic(p, a)
  <2>1. tree'[p] = tree[p] /\ tree'[p].arg = g /\ a = g /\ Complete(a)
    BY <1>1, <1>2, <1>3, <1>11 DEF g
  <2>2. ASSUME NEW s \in Rest
        PROVE  /\ p \o s \in DOMAIN tree' <=> <<g>> \o s \in DOMAIN tree'
               /\ p \o s \in DOMAIN tree' => /\ tree'[p \o s].kind = tree'[<<g>> \o s].kind
                                             /\ tree'[p \o s].arg = tree'[<<g>> \o s].arg
    BY <1>2, <1>3, <1>5
  <2>3. Same(p)'
    BY <2>1, <2>2 DEF Same
  <2> QED
    BY <1>2, <1>5, <1>6, <2>1, <2>3
<1>12. ASSUME NEW c \in Copies(p), tree'[c].kind = "uses", NEW a, a = tree'[c].arg
       PROVE  IF Copied(c)' THEN Complete(a)' /\ Same(c)' /\ Acyclic(c, a)
              ELSE NotBelow(c)'
  <2>1. PICK s \in Rest : c = p \o s /\ <<g>> \o s \in DOMAIN tree
    BY <1>3
  <2> DEFINE o == <<g>> \o s
  <2>2. /\ tree[o].kind = "uses" /\ tree[o].arg = a /\ (tree'[c].res <=> ~NotBelow(o)) /\ o \in DOMAIN tree
    BY <1>3, <1>12, <2>1
  <2>3. o[1] = g
    BY <1>2, <1>5, <2>1
  <2>4. ASSUME NEW t \in Rest
        PROVE  s \o t \in Rest /\ c \o t = p \o (s \o t) /\ o \o t = <<g>> \o (s \o t)
    <3>1. <<g>> \in Seq(Elem)
      BY <1>2
    <3>2. s \o t \in Rest /\ (p \o s) \o t = p \o (s \o t)
      BY <1>2, RestAssoc
    <3>3. (<<g>> \o s) \o t = <<g>> \o (s \o t)
      BY <3>1, RestAssoc
    <3> QED
      BY <2>1, <3>2, <3>3
  <2> HIDE DEF o
  <2>5. ASSUME NEW t \in Rest PROVE c \o t \in DOMAIN tree' <=> o \o t \in DOMAIN tree
    <3>1. PICK w \in Rest : w = s \o t /\ c \o t = p \o w /\ o \o t = <<g>> \o w
      BY <2>4
    <3>2. p \o w \in DOMAIN tree' <=> <<g>> \o w \in DOMAIN tree
      BY <1>3, <3>1
    <3> QED
      BY <3>1, <3>2
  <2>6. ASSUME NEW t \in Rest, o \o t \in DOMAIN tree
        PROVE  tree'[c \o t].kind = tree[o \o t].kind /\ tree'[c \o t].arg = tree[o \o t].arg
    <3>1. PICK w \in Rest : w = s \o t /\ c \o t = p \o w /\ o \o t = <<g>> \o w
      BY <2>4
    <3> QED
      BY <1>3, <2>6, <3>1
  <2>7. CASE NotBelow(o)
    <3>1. ~Copied(c)'
      BY <1>4, <2>2, <2>7
    <3>2. NotBelow(c)'
      BY <2>5, <2>7 DEF NotBelow
    <3> QED
      BY <3>1, <3>2
  <2>8. CASE ~NotBelow(o)
    <3>1. Copied(c)'
      BY <1>4, <2>2, <2>8
    <3>2. Copied(o)
      BY <1>2, <2>2, <2>3 DEF Complete, Copied
    <3>3. Complete(a) /\ Same(o)
      BY <1>1, <2>2, <3>2 DEF CopyInv
    <3>4. Complete(a)'
      BY <1>5, <3>3
    <3>5. ASSUME NEW t \in Rest
          PROVE  /\ c \o t \in DOMAIN tree' <=> <<a>> \o t \in DOMAIN tree'
                 /\ c \o t \in DOMAIN tree' => /\ tree'[c \o t].kind = tree'[<<a>> \o t].kind
                                               /\ tree'[c \o t].arg = tree'[<<a>> \o t].arg
      <4>1. /\ o \o t \in DOMAIN tree <=> <<a>> \o t \in DOMAIN tree
            /\ o \o t \in DOMAIN tree => /\ tree[o \o t].kind = tree[<<a>> \o t].kind
                                         /\ tree[o \o t].arg = tree[<<a>> \o t].arg
        BY <2>2, <3>3 DEF Same
      <4>2. /\ <<a>> \o t \in DOMAIN tree' <=> <<a>> \o t \in DOMAIN tree
            /\ <<a>> \o t \in DOMAIN tree => tree'[<<a>> \o t] = tree[<<a>> \o t]
        BY <1>5, <3>3
      <4> QED
        BY <2>5, <2>6, <4>1, <4>2
    <3>6. Same(c)'
      BY <1>12, <3>5 DEF Same
    <3>7. Acyclic(c, a)
      <4>1. c[1] = p[1]
        BY <1>1, CopyPaths
      <4> QED
        BY <1>6, <3>3, <4>1 DEF Acyclic
    <3> QED
      BY <2>2, <3>1, <3>4, <3>6, <3>7
  <2> QED
    BY <2>7, <2>8
<1>13. ASSUME NEW q \in DOMAIN tree', tree'[q].kind = "uses", NEW a, a = tree'[q].arg
       PROVE  IF Copied(q)' THEN Complete(a)' /\ Same(q)' /\ Acyclic(q, a)
              ELSE NotBelow(q)'
  <2>1. CASE q \in Copies(p)
    BY <1>12, <1>13, <2>1
  <2>2. CASE q = p
    BY <1>4, <1>11, <1>13, <2>2
  <2>3. CASE q \in DOMAIN tree /\ q # p
    <3>1. tree[q].kind = "uses" /\ (Copied(q)' <=> Copied(q))
      BY <1>3, <1>4, <1>13, <2>3
    <3> QED
      BY <1>9, <1>10, <1>13, <2>3, <3>1
  <2> QED
    BY <1>3, <2>1, <2>2, <2>3
<1>14. ASSUME NEW q \in DOMAIN tree', tree'[q].kind = "uses"
       PROVE  (IF Copied(q) THEN /\ Complete(tree[q].arg) /\ Same(q)
                                 /\ q[1] \notin {tree[q].arg} \cup Reach(UsesEdges, tree[q].arg)
               ELSE NotBelow(q))'
  <2>1. PICK a : a = tree'[q].arg
    OBVIOUS
  <2>2. IF Copied(q)' THEN Complete(a)' /\ Same(q)' /\ Acyclic(q, a) ELSE NotBelow(q)'
    BY <1>13, <1>14, <2>1
  <2> QED
    BY <1>7, <2>1, <2>2 DEF Acyclic, Complete
<1> QED
  BY <1>14 DEF CopyInv

\* The nodes are still as the document says.
LEMMA CopyKeepsTree ==
  ASSUME CopyInvs, NEW p, NEW first, CopyStep(p, first)
  PROVE  ReadInv' /\ TreeInv'
<1> DEFINE g == tree[p].arg
<1>1. /\ Enters(p, first) /\ resolve_uses(p, first) /\ ReadInv /\ TreeInv
      /\ UNCHANGED <<schema, at, pos, grps>>
  BY DEF CopyStep, CopyInvs
<1>2. TreeCopied(p, g)
  BY <1>1, CopyTree
<1>3. p[1] # g /\ p \in DOMAIN tree
  BY <1>1 DEF Enters
<1>4. status' = status
  BY <1>1, <1>3 DEF resolve_uses
<1>5. \A k : Root(k)' = Root(k) /\ Section(k)' = Section(k) /\ DataAt' = DataAt
  BY <1>1 DEF Root, Section, DataAt
<1>6. ReadInv'
  <2>1. /\ schema \in Schemas /\ at \in 0..DataAt /\ pos \in 0..Len(Section(at))
        /\ grps = {Root(k) : k \in (1..at) \ {DataAt}}
        /\ status \in {"parse", "resolve", "ok", "error", "lost"}
        /\ status \in {"resolve", "ok", "error"} => at = DataAt /\ pos = Len(schema.data)
    BY <1>1 DEF ReadInv
  <2>2. Section(at)' = Section(at) /\ DataAt' = DataAt
        /\ {Root(k) : k \in (1..at) \ {DataAt}}' = {Root(k) : k \in (1..at) \ {DataAt}}
    BY <1>1 DEF Root, Section, DataAt
  <2> QED
    BY <1>1, <1>4, <2>1, <2>2 DEF ReadInv
<1> HIDE DEF g
<1>7. \A k, j : IsRead(k, j)' <=> IsRead(k, j)
  BY <1>1 DEF IsRead
<1>8. \A q, k, j : Stands(q, k, j)' <=> Stands(q, k, j)
  BY <1>5, <1>7 DEF Stands
<1>9. /\ DOMAIN tree' = DOMAIN tree \cup Copies(p) /\ IsFiniteSet(DOMAIN tree')
      /\ \A q \in DOMAIN tree : q \notin Copies(p) /\ tree'[q] = tree[q]
      /\ \A c \in Copies(p) : \E s \in Rest : c = p \o s /\ <<g>> \o s \in DOMAIN tree
      /\ \A s \in Rest : <<g>> \o s \in DOMAIN tree =>
           /\ tree'[p \o s] \in NodeRec
           /\ tree'[p \o s].kind = tree[<<g>> \o s].kind /\ tree'[p \o s].arg = tree[<<g>> \o s].arg
  BY <1>2 DEF TreeCopied
<1>10. /\ tree \in [DOMAIN tree -> NodeRec]
       /\ \A q \in DOMAIN tree :
            /\ IsPath(q) /\ <<q[1], q[2]>> \in DOMAIN tree
            /\ \E k \in 1..DataAt : \E j \in DOMAIN Section(k) :
                 tree[q].kind = Section(k)[j].kind /\ tree[q].arg = Section(k)[j].arg
            /\ Len(q) = 2 => \E k \in 1..DataAt : \E j \in DOMAIN Section(k) : Stands(q, k, j)
       /\ \A k \in 1..DataAt : \A j \in DOMAIN Section(k) :
            IsRead(k, j) => /\ <<Root(k), j>> \in DOMAIN tree
                            /\ tree[<<Root(k), j>>].kind = Section(k)[j].kind
                            /\ tree[<<Root(k), j>>].arg = Section(k)[j].arg
  BY <1>1 DEF TreeInv
<1>11. ASSUME NEW c \in Copies(p)
       PROVE  /\ IsPath(c) /\ <<c[1], c[2]>> \in DOMAIN tree' /\ tree'[c] \in NodeRec
              /\ \E k \in 1..DataAt : \E j \in DOMAIN Section(k) :
                   tree'[c].kind = Section(k)[j].kind /\ tree'[c].arg = Section(k)[j].arg
              /\ Len(c) # 2
  <2>1. IsPath(c) /\ c[1] = p[1] /\ c[2] = p[2] /\ Len(c) > 2
    BY <1>1, CopyPaths
  <2>2. <<p[1], p[2]>> \in DOMAIN tree'
    BY <1>3, <1>9, <1>10
  <2>3. PICK s \in Rest : c = p \o s /\ <<g>> \o s \in DOMAIN tree
    BY <1>9
  <2>4. tree'[c] \in NodeRec /\ tree'[c].kind = tree[<<g>> \o s].kind /\ tree'[c].arg = tree[<<g>> \o s].arg
    BY <1>9, <2>3
  <2>5. \E k \in 1..DataAt : \E j \in DOMAIN Section(k) :
          tree[<<g>> \o s].kind = Section(k)[j].kind /\ tree[<<g>> \o s].arg = Section(k)[j].arg
    BY <1>10, <2>3
  <2>6. Len(c) # 2
    BY <2>1, LenProperties DEF IsPath
  <2> QED
    BY <2>1, <2>2, <2>4, <2>5, <2>6
<1>12. tree' \in [DOMAIN tree' -> NodeRec]
  <2>1. \A q \in DOMAIN tree : tree[q] \in NodeRec
    <3>1. tree \in [DOMAIN tree -> NodeRec]
      BY <1>1 DEF TreeInv
    <3> QED
      BY <3>1
  <2>2. ASSUME NEW q \in DOMAIN tree' PROVE tree'[q] \in NodeRec
    <3>1. CASE q \in Copies(p)
      BY <1>11, <3>1
    <3>2. CASE q \in DOMAIN tree
      BY <1>9, <2>1, <3>2
    <3> QED
      BY <1>9, <3>1, <3>2
  <2>3. tree' = [q \in DOMAIN tree' |-> tree'[q]]
    BY <1>1, <1>3 DEF resolve_uses, g
  <2>4. ASSUME NEW S, NEW f, f = [q \in S |-> f[q]], \A q \in S : f[q] \in NodeRec
        PROVE  f \in [S -> NodeRec]
    BY <2>4
  <2> QED
    BY <2>2, <2>3, <2>4
<1>13. \A q : IsPath(q)' <=> IsPath(q)
  BY <1>1 DEF IsPath, Roots, Grps
<1>14. ASSUME NEW q \in DOMAIN tree'
       PROVE  /\ IsPath(q) /\ <<q[1], q[2]>> \in DOMAIN tree'
              /\ \E k \in 1..DataAt : \E j \in DOMAIN Section(k) :
                   tree'[q].kind = Section(k)[j].kind /\ tree'[q].arg = Section(k)[j].arg
              /\ Len(q) = 2 => \E k \in 1..DataAt : \E j \in DOMAIN Section(k) : Stands(q, k, j)
  <2>1. CASE q \in Copies(p)
    BY <1>11, <2>1
  <2>2. CASE q \in DOMAIN tree
    <3>1. tree'[q] = tree[q] /\ DOMAIN tree \subseteq DOMAIN tree'
      BY <1>9, <2>2
    <3> QED
      BY <1>10, <2>2, <3>1
  <2> QED
    BY <1>9, <2>1, <2>2
<1>15. ASSUME NEW k \in 1..DataAt, NEW j \in DOMAIN Section(k), IsRead(k, j)
       PROVE  /\ <<Root(k), j>> \in DOMAIN tree'
              /\ tree'[<<Root(k), j>>].kind = Section(k)[j].kind
              /\ tree'[<<Root(k), j>>].arg = Section(k)[j].arg
  <2> DEFINE q == <<Root(k), j>>
  <2>1. q \in DOMAIN tree /\ tree[q].kind = Section(k)[j].kind /\ tree[q].arg = Section(k)[j].arg
    BY <1>10, <1>15
  <2> HIDE DEF q
  <2>2. q \in DOMAIN tree' /\ tree'[q] = tree[q]
    BY <1>9, <2>1
  <2>3. q \in DOMAIN tree' /\ tree'[q].kind = Section(k)[j].kind /\ tree'[q].arg = Section(k)[j].arg
    BY <2>1, <2>2
  <2> QED
    BY <2>3 DEF q
<1>16. TreeInv'
  <2>1. (IsFiniteSet(DOMAIN tree) /\ tree \in [DOMAIN tree -> NodeRec])'
    BY <1>9, <1>12 DEF NodeRec
  <2>2. (\A q \in DOMAIN tree :
          /\ IsPath(q) /\ <<q[1], q[2]>> \in DOMAIN tree
          /\ \E k \in 1..DataAt : \E j \in DOMAIN Section(k) :
               tree[q].kind = Section(k)[j].kind /\ tree[q].arg = Section(k)[j].arg
          /\ Len(q) = 2 => \E k \in 1..DataAt : \E j \in DOMAIN Section(k) : Stands(q, k, j))'
    <3> SUFFICES ASSUME NEW q \in DOMAIN tree'
                 PROVE  /\ IsPath(q)' /\ <<q[1], q[2]>> \in DOMAIN tree'
                        /\ \E k \in 1..DataAt' : \E j \in DOMAIN Section(k)' :
                             tree'[q].kind = Section(k)'[j].kind /\ tree'[q].arg = Section(k)'[j].arg
                        /\ Len(q) = 2 => \E k \in 1..DataAt' : \E j \in DOMAIN Section(k)' : Stands(q, k, j)'
      OBVIOUS
    <3> QED
      BY <1>5, <1>8, <1>13, <1>14
  <2>3. (\A k \in 1..DataAt : \A j \in DOMAIN Section(k) :
          IsRead(k, j) => /\ <<Root(k), j>> \in DOMAIN tree
                          /\ tree[<<Root(k), j>>].kind = Section(k)[j].kind
                          /\ tree[<<Root(k), j>>].arg = Section(k)[j].arg)'
    BY <1>5, <1>7, <1>15
  <2> QED
    BY <2>1, <2>2, <2>3 DEF TreeInv
<1> QED
  BY <1>6, <1>16

\* The calls of the copying are calls like the others.
LEMMA CopyKeepsTodo ==
  ASSUME CopyInvs, NEW p, NEW first, CopyStep(p, first)
  PROVE  TodoInv'
<1> DEFINE R == [op : {"try", "end"}, path : DOMAIN tree, first : BOOLEAN]
           Fine(k) == LET c == todo'[k] IN
             /\ ~tree'[c.path].res /\ (c.op = "end" => tree'[c.path].kind = "uses")
             /\ c.op = "try" => c.first
             /\ c.op = "try" /\ tree'[c.path].kind = "uses" /\ Len(c.path) > 2 =>
                  \A a : a = tree'[c.path].arg => Complete(a)'
             /\ status = "parse" => c.first /\ at > 0 /\ c.path[1] = Root(at)
             /\ status = "resolve" /\ k = Len(todo') => ~c.first
             /\ ~c.first => k = Len(todo') /\ i \in DOMAIN unres /\ IsUses(i) /\ unres[i].item = c.path
<1>1. /\ Enters(p, first) /\ resolve_uses(p, first) /\ TodoInv /\ p \in DOMAIN tree /\ CopyInv
      /\ p[1] # tree[p].arg /\ tree[p].kind = "uses"
      /\ UNCHANGED <<schema, at, pos, base, grps, nacm, unres, i>>
  BY DEF CopyStep, CopyInvs, Enters
<1>2. status' = status
  BY <1>1 DEF resolve_uses
<1>3. PICK n, m \in Nat : IsTodo(todo', n, m, p, first)
  BY <1>1, CopyTodo
<1>4. /\ DOMAIN todo' = 1..(n + 1 + m) /\ Len(todo') = n + 1 + m
      /\ todo' \in Seq([op : {"try", "end"}, path : DOMAIN tree', first : BOOLEAN])
      /\ \A k \in 1..n : /\ todo'[k].op = "try" /\ todo'[k].first
                         /\ todo'[k].path \in Copies(p) /\ ~tree'[todo'[k].path].res
      /\ \A k, l \in 1..n : todo'[k].path = todo'[l].path => k = l
      /\ todo'[n + 1].op = "end" /\ todo'[n + 1].path = p /\ todo'[n + 1].first = first
      /\ \A k \in 1..m : k + 1 \in DOMAIN todo /\ todo'[n + 1 + k] = todo[k + 1]
      /\ m = (IF todo = << >> THEN 0 ELSE Len(todo) - 1)
  BY <1>3 DEF IsTodo
<1>5. /\ \A q \in DOMAIN tree : q \notin Copies(p) /\ tree'[q] = tree[q]
      /\ \A c \in Copies(p) : \E s \in Rest : c = p \o s /\ <<tree[p].arg>> \o s \in DOMAIN tree
      /\ \A s \in Rest : <<tree[p].arg>> \o s \in DOMAIN tree =>
           /\ tree'[p \o s].kind = tree[<<tree[p].arg>> \o s].kind
           /\ tree'[p \o s].arg = tree[<<tree[p].arg>> \o s].arg
  <2>1. TreeCopied(p, tree[p].arg)
    BY <1>1, CopyTree
  <2> QED
    BY <2>1 DEF TreeCopied
<1>6. \A a : Complete(a) => Complete(a)'
  BY CopyOutside
<1>7. /\ ~tree[p].res /\ Complete(tree[p].arg) /\ status \in {"parse", "resolve"} /\ first \in BOOLEAN
  BY <1>1, EnterFacts
<1>8. /\ todo \in Seq(R)
      /\ \A k \in DOMAIN todo :
           /\ ~tree[todo[k].path].res /\ (todo[k].op = "end" => tree[todo[k].path].kind = "uses")
           /\ todo[k].op = "try" => todo[k].first
           /\ todo[k].op = "try" /\ tree[todo[k].path].kind = "uses" /\ Len(todo[k].path) > 2 =>
                Complete(tree[todo[k].path].arg)
           /\ status = "parse" => todo[k].first /\ at > 0 /\ todo[k].path[1] = Root(at)
           /\ status = "resolve" /\ k = Len(todo) => ~todo[k].first
           /\ ~todo[k].first => k = Len(todo) /\ i \in DOMAIN unres /\ IsUses(i) /\ unres[i].item = todo[k].path
      /\ \A k, l \in DOMAIN todo : todo[k].path[1] = todo[l].path[1]
      /\ \A k, l \in DOMAIN todo : todo[k].path = todo[l].path => k = l
  BY <1>1 DEF TodoInv
<1>9. \A k \in DOMAIN todo : todo[k] \in R /\ todo[k].path \in DOMAIN tree
  <2>1. \A k \in DOMAIN todo : todo[k] \in R
    <3> HIDE DEF R
    <3> QED
      BY <1>8
  <2> QED
    BY <2>1
<1>10. ASSUME todo # << >>
       PROVE  /\ 1 \in DOMAIN todo /\ todo[1].path = p /\ todo[1].op = "try" /\ todo[1].first /\ first
              /\ m = Len(todo) - 1 /\ Len(todo) = m + 1
  <2>1. /\ Len(todo) \in Nat \ {0} /\ 1 \in DOMAIN todo /\ Head(todo) = todo[1]
    BY <1>1, <1>10, HeadFacts
  <2>2. first /\ todo[1].path = p /\ todo[1].op = "try"
    BY <1>1, <1>10, <2>1 DEF Enters
  <2> QED
    BY <1>4, <1>8, <1>10, <2>1, <2>2
<1>11. ASSUME todo = << >>
       PROVE  /\ ~first /\ status = "resolve" /\ i \in DOMAIN unres /\ IsUses(i) /\ unres[i].item = p /\ m = 0
  BY <1>1, <1>4, <1>11 DEF Enters, Calling
<1>12. status = "parse" => first /\ at > 0 /\ p[1] = Root(at)
  BY <1>8, <1>10, <1>11
<1>13. status = "resolve" /\ m = 0 => ~first
  BY <1>8, <1>10, <1>11
<1>14. ~first => m = 0 /\ i \in DOMAIN unres /\ IsUses(i) /\ unres[i].item = p
  BY <1>10, <1>11
<1>15. ASSUME NEW k \in 1..n PROVE Fine(k)
  <2>1. /\ todo'[k].op = "try" /\ todo'[k].first /\ todo'[k].path \in Copies(p) /\ ~tree'[todo'[k].path].res
    BY <1>4
  <2>2. todo'[k].path[1] = p[1]
    BY <1>1, <2>1, CopyPaths
  <2>3. ASSUME tree'[todo'[k].path].kind = "uses", NEW a, a = tree'[todo'[k].path].arg PROVE Complete(a)'
    <3>1. PICK s \in Rest : todo'[k].path = p \o s /\ <<tree[p].arg>> \o s \in DOMAIN tree
      BY <1>5, <2>1
    <3> DEFINE o == <<tree[p].arg>> \o s
    <3>2. o \in DOMAIN tree /\ tree[o].kind = "uses" /\ tree[o].arg = a
      BY <1>5, <2>3, <3>1
    <3>3. o[1] = tree[p].arg
      <4>1. \A b : Complete(b) => \A r \in Rest :
              /\ <<b>> \o r \in DOMAIN tree' <=> <<b>> \o r \in DOMAIN tree
              /\ <<b>> \o r \in DOMAIN tree => /\ tree'[<<b>> \o r] = tree[<<b>> \o r]
                                              /\ (<<b>> \o r)[1] = b
        BY CopyOutside
      <4> QED
        BY <1>7, <3>1, <4>1
    <3> HIDE DEF o
    <3>4. Copied(o)
      BY <1>7, <3>2, <3>3 DEF Complete, Copied
    <3>5. Complete(a)
      BY <1>1, <3>2, <3>4 DEF CopyInv
    <3> QED
      BY <1>6, <3>5
  <2>4. k # n + 1 + m
    OBVIOUS
  <2> QED
    BY <1>4, <1>12, <2>1, <2>2, <2>3, <2>4
<1>16. Fine(n + 1)
  <2>1. tree'[p] = tree[p]
    BY <1>1, <1>5
  <2>2. n + 1 = n + 1 + m <=> m = 0
    OBVIOUS
  <2> QED
    BY <1>1, <1>4, <1>7, <1>12, <1>13, <1>14, <2>1, <2>2
<1>17. ASSUME NEW k \in 1..m PROVE Fine(n + 1 + k)
  <2>1. todo # << >>
    BY <1>4
  <2>2. k + 1 \in DOMAIN todo /\ todo'[n + 1 + k] = todo[k + 1] /\ Len(todo) = m + 1
    BY <1>4, <1>10, <2>1
  <2>3. todo[k + 1].path \in DOMAIN tree /\ tree'[todo[k + 1].path] = tree[todo[k + 1].path]
    BY <1>5, <1>9, <2>2
  <2>4. n + 1 + k = n + 1 + m <=> k + 1 = m + 1
    OBVIOUS
  <2>5. ASSUME todo[k + 1].op = "try", tree'[todo[k + 1].path].kind = "uses", Len(todo[k + 1].path) > 2,
               NEW a, a = tree'[todo[k + 1].path].arg
        PROVE  Complete(a)'
    <3>1. Complete(a)
      BY <1>8, <2>2, <2>3, <2>5
    <3> QED
      BY <1>6, <3>1
  <2> DEFINE c == todo[k + 1]
  <2>6. /\ ~tree[c.path].res /\ (c.op = "end" => tree[c.path].kind = "uses")
        /\ c.op = "try" => c.first
        /\ status = "parse" => c.first /\ at > 0 /\ c.path[1] = Root(at)
        /\ status = "resolve" /\ k + 1 = Len(todo) => ~c.first
        /\ ~c.first => k + 1 = Len(todo) /\ i \in DOMAIN unres /\ IsUses(i) /\ unres[i].item = c.path
    BY <1>8, <2>2
  <2>7. todo'[n + 1 + k] = c /\ tree'[c.path] = tree[c.path]
    BY <2>2, <2>3
  <2>8. n + 1 + k = Len(todo') <=> k + 1 = Len(todo)
    BY <1>4, <2>2, <2>4
  <2>9. c.op = "try" /\ tree'[c.path].kind = "uses" /\ Len(c.path) > 2 => \A a : a = tree'[c.path].arg => Complete(a)'
    BY <2>5
  <2> HIDE DEF c
  <2> QED
    BY <2>6, <2>7, <2>8, <2>9
<1>18. \A k \in DOMAIN todo' : k \in 1..n \/ k = n + 1 \/ \E l \in 1..m : k = n + 1 + l
  <2> SUFFICES ASSUME NEW k \in 1..(n + 1 + m), ~(k \in 1..n), k # n + 1 PROVE \E l \in 1..m : k = n + 1 + l
    BY <1>4
  <2>1. k - (n + 1) \in 1..m /\ k = n + 1 + (k - (n + 1))
    OBVIOUS
  <2> QED
    BY <2>1
<1> HIDE DEF Fine
<1>19. \A k \in DOMAIN todo' : Fine(k)
  BY <1>15, <1>16, <1>17, <1>18
<1>20. ASSUME NEW k \in DOMAIN todo' PROVE todo'[k].path[1] = p[1]
  <2>1. CASE k \in 1..n
    BY <1>1, <1>4, <2>1, CopyPaths
  <2>2. CASE \E l \in 1..m : k = n + 1 + l
    <3>1. PICK l \in 1..m : k = n + 1 + l
      BY <2>2
    <3>2. l + 1 \in DOMAIN todo /\ todo'[k] = todo[l + 1] /\ todo # << >>
      BY <1>4, <3>1
    <3> QED
      BY <1>8, <1>10, <3>2
  <2> QED
    BY <1>4, <1>18, <2>1, <2>2
<1>21. \A k, l \in DOMAIN todo' : todo'[k].path[1] = todo'[l].path[1]
  BY <1>20
<1> DEFINE New(k) == k \in 1..n
           End(k) == k = n + 1
           Old(k) == \E l \in 1..m : k = n + 1 + l
<1>22. ASSUME NEW k \in DOMAIN todo' PROVE /\ New(k) => todo'[k].path \notin DOMAIN tree
                                           /\ End(k) => todo'[k].path = p
                                           /\ Old(k) => todo'[k].path \in DOMAIN tree /\ todo'[k].path # p
  <2>1. New(k) => todo'[k].path \notin DOMAIN tree
    BY <1>4, <1>5
  <2>2. ASSUME Old(k) PROVE todo'[k].path \in DOMAIN tree /\ todo'[k].path # p
    <3>1. PICK l \in 1..m : k = n + 1 + l
      BY <2>2
    <3>2. l + 1 \in DOMAIN todo /\ todo'[k] = todo[l + 1] /\ todo # << >> /\ l + 1 # 1
      <4>1. l + 1 # 1
        OBVIOUS
      <4>2. l + 1 \in DOMAIN todo /\ todo'[k] = todo[l + 1]
        BY <1>4, <3>1
      <4> QED
        BY <4>1, <4>2
    <3> QED
      BY <1>8, <1>9, <1>10, <3>2
  <2> QED
    BY <1>4, <2>1, <2>2
<1>23. ASSUME NEW k \in DOMAIN todo', NEW l \in DOMAIN todo', todo'[k].path = todo'[l].path, Old(k), Old(l)
       PROVE  k = l
  <2>1. PICK x \in 1..m : k = n + 1 + x
    BY <1>23
  <2>2. PICK y \in 1..m : l = n + 1 + y
    BY <1>23
  <2>3. todo[x + 1].path = todo[y + 1].path /\ x + 1 \in DOMAIN todo /\ y + 1 \in DOMAIN todo
    BY <1>4, <1>23, <2>1, <2>2
  <2>4. x + 1 = y + 1
    BY <1>8, <2>3
  <2> QED
    BY <2>1, <2>2, <2>4
<1>24. \A k \in DOMAIN todo' : New(k) \/ End(k) \/ Old(k)
  BY <1>18
<1>25. ASSUME NEW k \in DOMAIN todo', NEW l \in DOMAIN todo', todo'[k].path = todo'[l].path PROVE k = l
  <2>1. New(k) /\ New(l) => k = l
    BY <1>4, <1>25
  <2>2. End(k) /\ End(l) => k = l
    OBVIOUS
  <2> HIDE DEF New, Old, End
  <2> QED
    BY <1>1, <1>22, <1>23, <1>24, <1>25, <2>1, <2>2
<1>26. \A k \in DOMAIN todo' : (LET c == todo[k] IN
       /\ ~tree[c.path].res /\ (c.op = "end" => tree[c.path].kind = "uses")
       /\ c.op = "try" => c.first
       /\ c.op = "try" /\ tree[c.path].kind = "uses" /\ Len(c.path) > 2 => Complete(tree[c.path].arg)
       /\ status = "parse" => c.first /\ at > 0 /\ c.path[1] = Root(at)
       /\ status = "resolve" /\ k = Len(todo) => ~c.first
       /\ ~c.first => k = Len(todo) /\ i \in DOMAIN unres /\ IsUses(i) /\ unres[i].item = c.path)'
  <2> SUFFICES ASSUME NEW k \in DOMAIN todo'
               PROVE (LET c == todo[k] IN
       /\ ~tree[c.path].res /\ (c.op = "end" => tree[c.path].kind = "uses")
       /\ c.op = "try" => c.first
       /\ c.op = "try" /\ tree[c.path].kind = "uses" /\ Len(c.path) > 2 => Complete(tree[c.path].arg)
       /\ status = "parse" => c.first /\ at > 0 /\ c.path[1] = Root(at)
       /\ status = "resolve" /\ k = Len(todo) => ~c.first
       /\ ~c.first => k = Len(todo) /\ i \in DOMAIN unres /\ IsUses(i) /\ unres[i].item = c.path)'
    OBVIOUS
  <2>1. Root(at)' = Root(at) /\ (IsUses(i)' <=> IsUses(i))
    BY <1>1 DEF Root, DataAt, IsUses
  <2>2. Fine(k)
    BY <1>19
  <2>3. PICK a : a = tree'[todo'[k].path].arg
    OBVIOUS
  <2>4. todo'[k].op = "try" /\ tree'[todo'[k].path].kind = "uses" /\ Len(todo'[k].path) > 2 => Complete(a)'
    BY <2>2, <2>3 DEF Fine
  <2>5. todo'[k].op = "try" /\ tree'[todo'[k].path].kind = "uses" /\ Len(todo'[k].path) > 2 =>
          (Complete(tree[todo[k].path].arg))'
    BY <2>3, <2>4 DEF Complete
  <2> QED
    BY <1>1, <1>2, <2>1, <2>2, <2>5 DEF Fine
<1>27. (status \in {"ok", "error"} => todo = << >>)'
  BY <1>2, <1>7
<1> QED
  BY <1>4, <1>21, <1>25, <1>26, <1>27 DEF TodoInv

\* The list of unresolved items is not touched, and what is not resolved of the
\* copies will be tried.
LEMMA CopyKeepsList ==
  ASSUME CopyInvs, NEW p, NEW first, CopyStep(p, first)
  PROVE  UnresInv' /\ Covered' /\ NacmInv' /\ TypeInv'
<1>1. /\ Enters(p, first) /\ resolve_uses(p, first) /\ TodoInv /\ p \in DOMAIN tree
      /\ p[1] # tree[p].arg /\ UnresInv /\ Covered /\ NacmInv /\ TypeInv
      /\ UNCHANGED <<schema, at, pos, base, grps, nacm, unres, i>>
  BY DEF CopyStep, CopyInvs, Enters
<1>2. PICK n, m \in Nat : IsTodo(todo', n, m, p, first)
  BY <1>1, CopyTodo
<1>3. /\ DOMAIN todo' = 1..(n + 1 + m)
      /\ \A k \in 1..n : /\ todo'[k].path \in Copies(p)
      /\ \A c \in Copies(p) : ~tree'[c].res => \E k \in 1..n : todo'[k].path = c
      /\ todo'[n + 1].path = p /\ todo'[n + 1].first = first
      /\ \A k \in 1..m : k + 1 \in DOMAIN todo /\ todo'[n + 1 + k] = todo[k + 1]
      /\ m = (IF todo = << >> THEN 0 ELSE Len(todo) - 1)
  BY <1>2 DEF IsTodo
<1>4. /\ \A q \in DOMAIN tree : q \notin Copies(p) /\ tree'[q] = tree[q]
      /\ DOMAIN tree' = DOMAIN tree \cup Copies(p)
  <2>1. TreeCopied(p, tree[p].arg)
    BY <1>1, CopyTree
  <2> QED
    BY <2>1 DEF TreeCopied
<1>5. todo # << >> => /\ Len(todo) \in Nat \ {0} /\ DOMAIN todo = 1..Len(todo) /\ 1 \in DOMAIN todo
                      /\ todo[1].path = p /\ first /\ todo[1].first
  <2> SUFFICES ASSUME todo # << >> PROVE /\ Len(todo) \in Nat \ {0} /\ DOMAIN todo = 1..Len(todo) /\ 1 \in DOMAIN todo
                      /\ todo[1].path = p /\ first /\ todo[1].first
    OBVIOUS
  <2>1. Len(todo) \in Nat \ {0} /\ DOMAIN todo = 1..Len(todo) /\ 1 \in DOMAIN todo /\ Head(todo) = todo[1]
    BY <1>1, HeadFacts
  <2>2. first /\ todo[1].path = p /\ todo[1].op = "try"
    BY <1>1, <2>1 DEF Enters
  <2>3. todo[1].op = "try" => todo[1].first
    BY <1>1, <2>1 DEF TodoInv
  <2> QED
    BY <2>1, <2>2, <2>3
<1>6. todo = << >> => ~first /\ i \in DOMAIN unres /\ IsUses(i) /\ unres[i].item = p
  BY <1>1 DEF Enters, Calling
<1>7. \A k \in DOMAIN todo' : k \in 1..n \/ k = n + 1 \/ \E l \in 1..m : k = n + 1 + l
  <2> SUFFICES ASSUME NEW k \in 1..(n + 1 + m), ~(k \in 1..n), k # n + 1 PROVE \E l \in 1..m : k = n + 1 + l
    BY <1>3
  <2>1. k - (n + 1) \in 1..m /\ k = n + 1 + (k - (n + 1))
    OBVIOUS
  <2> QED
    BY <2>1
<1>8. /\ unres \in Seq(Items)
      /\ \A k \in DOMAIN unres :
           /\ unres[k].kind = "typedef" =>
                /\ \E j \in DOMAIN schema.tpdfs : unres[k].item = schema.tpdfs[j] /\ HasRead(j)
                /\ unres[k].done <=> unres[k].item.name \in base
           /\ unres[k].kind = "type" => /\ unres[k].item \in DOMAIN tree /\ tree[unres[k].item].kind = "leaf"
                                        /\ unres[k].done <=> tree[unres[k].item].res
           /\ unres[k].kind = "uses" => /\ unres[k].item \in DOMAIN tree /\ tree[unres[k].item].kind = "uses"
                                        /\ Len(unres[k].item) = 2
                                        /\ unres[k].done <=> tree[unres[k].item].res
           /\ Waits(k) => \A l \in DOMAIN todo : todo[l].path = unres[k].item => k = i /\ ~todo[l].first
      /\ \A k, l \in DOMAIN unres : Waits(k) /\ Waits(l) /\ unres[k].item = unres[l].item => k = l
      /\ \A k, l \in DOMAIN unres :
           unres[k].kind = "typedef" /\ unres[l].kind = "typedef" /\ unres[k].item = unres[l].item => k = l
  BY <1>1 DEF UnresInv
<1>9. (\A k : Waits(k)' <=> Waits(k)) /\ \A j : HasRead(j)' <=> HasRead(j)
  BY <1>1 DEF Waits, HasRead
<1>10. UnresInv'
  <2>1. unres \in Seq(Items')
    <3>1. Items \subseteq Items'
      BY <1>1, <1>4 DEF Items
    <3> QED
      BY <1>8, <3>1, SeqWider
  <2>2. ASSUME NEW k \in DOMAIN unres, Waits(k), NEW l \in DOMAIN todo', todo'[l].path = unres[k].item
        PROVE  k = i /\ ~todo'[l].first
    <3>1. unres[k].item \in DOMAIN tree
      <4>1. unres[k] \in Items
        BY <1>8, ElementOfSeq, LenProperties
      <4> QED
        BY <1>8, <2>2, <4>1 DEF Waits, Items
    <3>2. l \notin 1..n
      BY <1>3, <1>4, <2>2, <3>1
    <3>3. CASE l = n + 1
      <4>1. unres[k].item = p
        BY <1>3, <2>2, <3>3
      <4>2. CASE todo = << >>
        BY <1>3, <1>6, <1>8, <2>2, <3>3, <4>1, <4>2 DEF IsUses, Waits
      <4>3. CASE todo # << >>
        BY <1>5, <1>8, <2>2, <4>1, <4>3
      <4> QED
        BY <4>2, <4>3
    <3>4. CASE \E x \in 1..m : l = n + 1 + x
      <4>1. PICK x \in 1..m : l = n + 1 + x
        BY <3>4
      <4>2. x + 1 \in DOMAIN todo /\ todo'[l] = todo[x + 1]
        BY <1>3, <4>1
      <4> QED
        BY <1>8, <2>2, <4>2
    <3> QED
      BY <1>7, <3>2, <3>3, <3>4
  <2>3. ASSUME NEW k \in DOMAIN unres
        PROVE  /\ unres[k].kind = "typedef" =>
                    /\ \E j \in DOMAIN schema.tpdfs : unres[k].item = schema.tpdfs[j] /\ HasRead(j)
                    /\ unres[k].done <=> unres[k].item.name \in base
               /\ unres[k].kind = "type" => /\ unres[k].item \in DOMAIN tree' /\ tree'[unres[k].item].kind = "leaf"
                                            /\ unres[k].done <=> tree'[unres[k].item].res
               /\ unres[k].kind = "uses" => /\ unres[k].item \in DOMAIN tree' /\ tree'[unres[k].item].kind = "uses"
                                            /\ Len(unres[k].item) = 2
                                            /\ unres[k].done <=> tree'[unres[k].item].res
    BY <1>4, <1>8
  <2>4. unres \in Seq(Items)'
    BY <2>1
  <2> QED
    BY <1>1, <1>8, <1>9, <2>2, <2>3, <2>4 DEF UnresInv
<1>11. ASSUME NEW q \in DOMAIN tree', ~tree'[q].res
       PROVE  \/ \E k \in DOMAIN todo' : todo'[k].path = q
              \/ \E k \in DOMAIN unres : unres[k].kind # "typedef" /\ ~unres[k].done /\ unres[k].item = q
  <2>1. CASE q \in Copies(p)
    <3>1. PICK k \in 1..n : todo'[k].path = q
      BY <1>3, <1>11, <2>1
    <3>2. k \in 1..(n + 1 + m)
      OBVIOUS
    <3> QED
      BY <1>3, <3>1, <3>2
  <2>2. CASE q \in DOMAIN tree
    <3>1. \/ \E k \in DOMAIN todo : todo[k].path = q
          \/ \E k \in DOMAIN unres : unres[k].kind # "typedef" /\ ~unres[k].done /\ unres[k].item = q
      BY <1>1, <1>4, <1>11, <2>2 DEF Covered
    <3>2. ASSUME NEW k \in DOMAIN todo, todo[k].path = q PROVE \E l \in DOMAIN todo' : todo'[l].path = q
      <4>1. todo # << >>
        BY <3>2
      <4>2. CASE k = 1
        <5>1. n + 1 \in 1..(n + 1 + m)
          OBVIOUS
        <5> QED
          BY <1>3, <1>5, <3>2, <4>1, <4>2, <5>1
      <4>3. CASE k # 1
        <5>1. k - 1 \in 1..m /\ (k - 1) + 1 = k /\ n + 1 + (k - 1) \in 1..(n + 1 + m)
          <6>1. m = Len(todo) - 1 /\ k \in 1..Len(todo) /\ Len(todo) \in Nat
            BY <1>3, <1>5, <4>1
          <6> QED
            BY <4>3, <6>1
        <5> QED
          BY <1>3, <3>2, <5>1
      <4> QED
        BY <4>2, <4>3
    <3> QED
      BY <3>1, <3>2
  <2> QED
    BY <1>4, <2>1, <2>2
<1>12. Covered'
  BY <1>1, <1>11 DEF Covered
<1>13. NacmInv'
  BY <1>1 DEF NacmInv, Waiting, Grps
<1>14. ASSUME NEW q \in DOMAIN tree', tree'[q].kind = "leaf", tree'[q].res
       PROVE  tree'[q].arg \in base \cup Builtin
  <2>1. CASE q \in DOMAIN tree
    BY <1>1, <1>4, <1>14, <2>1 DEF TypeInv
  <2>2. CASE q \in Copies(p)
    <3> DEFINE g == tree[p].arg
    <3>1. TreeCopied(p, g)
      BY <1>1, CopyTree
    <3> HIDE DEF g
    <3>2. PICK s \in Rest : q = p \o s /\ <<g>> \o s \in DOMAIN tree
      BY <2>2, <3>1 DEF TreeCopied
    <3>3. /\ tree'[q].kind = tree[<<g>> \o s].kind /\ tree'[q].arg = tree[<<g>> \o s].arg
          /\ tree[<<g>> \o s].kind = "leaf" => tree'[q].res = tree[<<g>> \o s].res
      BY <3>1, <3>2 DEF TreeCopied
    <3>4. tree[<<g>> \o s].kind = "leaf" /\ tree[<<g>> \o s].res
      BY <1>14, <3>3
    <3>5. tree[<<g>> \o s].arg \in base \cup Builtin
      BY <1>1, <3>2, <3>4 DEF TypeInv
    <3> QED
      BY <3>3, <3>5
  <2> QED
    BY <1>4, <2>1, <2>2
<1>15. TypeInv'
  <2>1. /\ \A t \in base : \E j \in DOMAIN schema.tpdfs : schema.tpdfs[j].name = t /\ HasRead(j)
        /\ \A t \in base : t \notin Reach(TypeEdges, t) /\ Reach(TypeEdges, t) \subseteq base \cup Builtin
        /\ \A k \in DOMAIN schema.tpdfs : HasRead(k) =>
             \/ schema.tpdfs[k].name \in base
             \/ \E l \in DOMAIN unres :
                  unres[l].kind = "typedef" /\ ~unres[l].done /\ unres[l].item = schema.tpdfs[k]
    BY <1>1 DEF TypeInv
  <2>2. TypeEdges' = TypeEdges
    BY <1>1 DEF TypeEdges
  <2> QED
    BY <1>1, <1>9, <1>14, <2>1, <2>2 DEF TypeInv
<1> QED
  BY <1>10, <1>12, <1>13, <1>15

\* Copying keeps all but the counters, which its callers change.
LEMMA CopyKeeps ==
  ASSUME CopyInvs, NEW p, NEW first, CopyStep(p, first)
  PROVE  CopyInvs' /\ status' = status /\ todo' # << >>
<1>1. PICK n, m \in Nat : IsTodo(todo', n, m, p, first)
  BY CopyTodo DEF CopyStep
<1>2. Len(todo') = n + 1 + m
  BY <1>1 DEF IsTodo
<1>3. todo' # << >>
  BY <1>2
<1>4. status' = status
  BY DEF CopyStep, Enters, resolve_uses
<1> QED
  BY <1>3, <1>4, CopyKeepsCopy, CopyKeepsTree, CopyKeepsTodo, CopyKeepsList DEF CopyInvs
-----------------------------------------------------------------------------
(* Steps that add no node                                                  *)

\* The nodes are the same, and none is less resolved than it was.
SameShape ==
  /\ DOMAIN tree' = DOMAIN tree /\ tree' \in [DOMAIN tree -> NodeRec]
  /\ \A q \in DOMAIN tree : /\ tree'[q].kind = tree[q].kind /\ tree'[q].arg = tree[q].arg
                            /\ tree[q].res => tree'[q].res

\* What does not depend on what is resolved.
LEMMA ShapeKept ==
  ASSUME ReadInv, TreeInv, CopyInv, UNCHANGED <<schema, at, pos>>, SameShape,
         \A q \in DOMAIN tree : tree[q].kind = "uses" => (Copied(q)' <=> Copied(q))
  PROVE  TreeInv' /\ CopyInv' /\ \A a : Complete(a) => Complete(a)'
<1>1. /\ DOMAIN tree' = DOMAIN tree /\ tree' \in [DOMAIN tree -> NodeRec]
      /\ \A q \in DOMAIN tree : /\ tree'[q].kind = tree[q].kind /\ tree'[q].arg = tree[q].arg
                                /\ tree[q].res => tree'[q].res
  BY DEF SameShape
<1>2. \A a : Complete(a) => Complete(a)'
  <2>1. at' \in Nat /\ at' >= at
    <3>1. at \in 0..DataAt /\ DataAt \in Nat
      BY SchemaFacts DEF ReadInv
    <3>2. \A x \in Nat : \A y \in 0..x : y \in Nat /\ y >= y
      OBVIOUS
    <3> QED
      BY <3>1, <3>2
  <2>2. \A q \in DOMAIN tree' :
          \/ q \in DOMAIN tree /\ tree'[q].kind = tree[q].kind /\ (tree[q].res => tree'[q].res)
          \/ ~Complete(q[1])
    BY <1>1
  <2> QED
    BY <2>1, <2>2, CompleteKept
<1>3. UsesEdges' = UsesEdges
  BY DEF UsesEdges
<1>4. ASSUME NEW q \in DOMAIN tree, tree[q].kind = "uses", Copied(q), NEW a, a = tree'[q].arg
      PROVE  Complete(a)' /\ Same(q)' /\ q[1] \notin {a} \cup Reach(UsesEdges, a)
  <2>1. Complete(a) /\ Same(q) /\ q[1] \notin {a} \cup Reach(UsesEdges, a) /\ a = tree[q].arg
    BY <1>1, <1>4 DEF CopyInv
  <2>2. ASSUME NEW s \in Rest
        PROVE  /\ q \o s \in DOMAIN tree' <=> <<a>> \o s \in DOMAIN tree'
               /\ q \o s \in DOMAIN tree' => /\ tree'[q \o s].kind = tree'[<<a>> \o s].kind
                                             /\ tree'[q \o s].arg = tree'[<<a>> \o s].arg
    <3>1. /\ q \o s \in DOMAIN tree <=> <<a>> \o s \in DOMAIN tree
          /\ q \o s \in DOMAIN tree => /\ tree[q \o s].kind = tree[<<a>> \o s].kind
                                       /\ tree[q \o s].arg = tree[<<a>> \o s].arg
      BY <2>1 DEF Same
    <3> QED
      BY <1>1, <3>1
  <2>3. Same(q)'
    BY <1>4, <2>2 DEF Same
  <2> QED
    BY <1>2, <2>1, <2>3
<1>5. ASSUME NEW q \in DOMAIN tree, tree[q].kind = "uses", ~Copied(q) PROVE NotBelow(q)'
  <2>1. NotBelow(q)
    BY <1>5 DEF CopyInv
  <2> QED
    BY <1>1, <2>1 DEF NotBelow
<1>6. ASSUME NEW q \in DOMAIN tree', tree'[q].kind = "uses"
      PROVE  (IF Copied(q) THEN /\ Complete(tree[q].arg) /\ Same(q)
                                /\ q[1] \notin {tree[q].arg} \cup Reach(UsesEdges, tree[q].arg)
              ELSE NotBelow(q))'
  <2>1. PICK a : a = tree'[q].arg
    OBVIOUS
  <2>2. IF Copied(q)' THEN Complete(a)' /\ Same(q)' /\ q[1] \notin {a} \cup Reach(UsesEdges, a)
        ELSE NotBelow(q)'
    BY <1>1, <1>4, <1>5, <1>6, <2>1
  <2> QED
    BY <1>3, <2>1, <2>2 DEF Complete
<1>7. CopyInv'
  BY <1>6 DEF CopyInv
<1>8. \A k : Root(k)' = Root(k) /\ Section(k)' = Section(k) /\ DataAt' = DataAt
  BY DEF Root, Section, DataAt
<1>9. \A k, j : IsRead(k, j)' <=> IsRead(k, j)
  BY DEF IsRead
<1>10. \A q, k, j : Stands(q, k, j)' <=> Stands(q, k, j)
  BY <1>8, <1>9 DEF Stands
<1>11. \A q : IsPath(q)' <=> IsPath(q)
  BY DEF IsPath, Roots, Grps
<1>12. /\ IsFiniteSet(DOMAIN tree)
       /\ \A q \in DOMAIN tree :
            /\ IsPath(q) /\ <<q[1], q[2]>> \in DOMAIN tree
            /\ \E k \in 1..DataAt : \E j \in DOMAIN Section(k) :
                 tree[q].kind = Section(k)[j].kind /\ tree[q].arg = Section(k)[j].arg
            /\ Len(q) = 2 => \E k \in 1..DataAt : \E j \in DOMAIN Section(k) : Stands(q, k, j)
       /\ \A k \in 1..DataAt : \A j \in DOMAIN Section(k) :
            IsRead(k, j) => /\ <<Root(k), j>> \in DOMAIN tree
                            /\ tree[<<Root(k), j>>].kind = Section(k)[j].kind
                            /\ tree[<<Root(k), j>>].arg = Section(k)[j].arg
  BY DEF TreeInv
<1>13. TreeInv'
  <2>1. (IsFiniteSet(DOMAIN tree) /\ tree \in [DOMAIN tree -> NodeRec])'
    BY <1>1, <1>12 DEF NodeRec
  <2>2. (\A q \in DOMAIN tree :
          /\ IsPath(q) /\ <<q[1], q[2]>> \in DOMAIN tree
          /\ \E k \in 1..DataAt : \E j \in DOMAIN Section(k) :
               tree[q].kind = Section(k)[j].kind /\ tree[q].arg = Section(k)[j].arg
          /\ Len(q) = 2 => \E k \in 1..DataAt : \E j \in DOMAIN Section(k) : Stands(q, k, j))'
    <3> SUFFICES ASSUME NEW q \in DOMAIN tree'
                 PROVE  /\ IsPath(q)' /\ <<q[1], q[2]>> \in DOMAIN tree'
                        /\ \E k \in 1..DataAt' : \E j \in DOMAIN Section(k)' :
                             tree'[q].kind = Section(k)'[j].kind /\ tree'[q].arg = Section(k)'[j].arg
                        /\ Len(q) = 2 => \E k \in 1..DataAt' : \E j \in DOMAIN Section(k)' : Stands(q, k, j)'
      OBVIOUS
    <3> QED
      BY <1>1, <1>8, <1>10, <1>11, <1>12
  <2>3. (\A k \in 1..DataAt : \A j \in DOMAIN Section(k) :
          IsRead(k, j) => /\ <<Root(k), j>> \in DOMAIN tree
                          /\ tree[<<Root(k), j>>].kind = Section(k)[j].kind
                          /\ tree[<<Root(k), j>>].arg = Section(k)[j].arg)'
    BY <1>1, <1>8, <1>9, <1>12
  <2> QED
    BY <2>1, <2>2, <2>3 DEF TreeInv
<1> QED
  BY <1>2, <1>7, <1>13

\* The first call has been made.
LEMMA TailTodo ==
  ASSUME CopyInvs, Calling, Head(todo).first, todo' = Tail(todo),
         UNCHANGED <<schema, at, pos, i, status>>, SameShape,
         \A q \in DOMAIN tree : q # Head(todo).path => tree'[q] = tree[q],
         \A a : Complete(a) => Complete(a)',
         i \in DOMAIN unres => i \in DOMAIN unres' /\ unres'[i] = unres[i]
  PROVE  /\ TodoInv' /\ (status = "resolve" => todo' # << >>)
         /\ \A k \in DOMAIN todo' : todo'[k].path # Head(todo).path
         /\ \A k \in DOMAIN todo' : k + 1 \in DOMAIN todo /\ todo'[k] = todo[k + 1]
         /\ \A k \in DOMAIN todo : k # 1 => k - 1 \in DOMAIN todo' /\ todo'[k - 1] = todo[k]
         /\ status = "resolve" => i \in DOMAIN unres
<1> DEFINE R == [op : {"try", "end"}, path : DOMAIN tree, first : BOOLEAN]
           n == Len(todo)
           p == Head(todo).path
<1>1. TodoInv /\ todo # << >> /\ status \in {"parse", "resolve"}
  BY DEF CopyInvs, Calling
<1>2. /\ n \in Nat \ {0} /\ DOMAIN todo = 1..n /\ 1 \in DOMAIN todo /\ Head(todo) = todo[1]
      /\ todo' \in Seq(R) /\ Len(todo') = n - 1 /\ DOMAIN todo' = 1..(n - 1)
      /\ \A k \in 1..(n - 1) : k + 1 \in DOMAIN todo /\ todo'[k] = todo[k + 1]
  BY <1>1, HeadFacts
<1>3. /\ \A k \in DOMAIN todo :
           /\ ~tree[todo[k].path].res /\ (todo[k].op = "end" => tree[todo[k].path].kind = "uses")
           /\ todo[k].op = "try" => todo[k].first
           /\ todo[k].op = "try" /\ tree[todo[k].path].kind = "uses" /\ Len(todo[k].path) > 2 =>
                Complete(tree[todo[k].path].arg)
           /\ status = "parse" => todo[k].first /\ at > 0 /\ todo[k].path[1] = Root(at)
           /\ status = "resolve" /\ k = Len(todo) => ~todo[k].first
           /\ ~todo[k].first => k = Len(todo) /\ i \in DOMAIN unres /\ IsUses(i) /\ unres[i].item = todo[k].path
      /\ \A k, l \in DOMAIN todo : todo[k].path[1] = todo[l].path[1]
      /\ \A k, l \in DOMAIN todo : todo[k].path = todo[l].path => k = l
  BY <1>1 DEF TodoInv
<1>4. status = "resolve" => n # 1 /\ i \in DOMAIN unres
  <2>1. n \in DOMAIN todo
    BY <1>2
  <2> QED
    BY <1>2, <1>3, <2>1
<1>5. \A k \in DOMAIN todo : todo[k].path \in DOMAIN tree
  <2>1. todo \in Seq(R)
    BY <1>1 DEF TodoInv
  <2>2. \A k \in DOMAIN todo : todo[k] \in R
    <3> HIDE DEF R
    <3> QED
      BY <2>1
  <2> QED
    BY <2>2
<1>6. ASSUME NEW k \in DOMAIN todo' PROVE k + 1 \in DOMAIN todo /\ todo'[k] = todo[k + 1] /\ k + 1 # 1
  <2>1. k + 1 # 1
    BY <1>2
  <2> QED
    BY <1>2, <2>1
<1>7. ASSUME NEW k \in DOMAIN todo, k # 1 PROVE k - 1 \in DOMAIN todo' /\ todo'[k - 1] = todo[k]
  <2>1. k - 1 \in 1..(n - 1) /\ (k - 1) + 1 = k
    BY <1>2, <1>7
  <2> QED
    BY <1>2, <2>1
<1>8. ASSUME NEW k \in DOMAIN todo' PROVE todo'[k].path # p
  BY <1>2, <1>3, <1>6
<1>9. DOMAIN tree' = DOMAIN tree /\ \A q \in DOMAIN tree : tree'[q].kind = tree[q].kind /\ tree'[q].arg = tree[q].arg
  BY DEF SameShape
<1>10. Root(at)' = Root(at) /\ (i \in DOMAIN unres => (IsUses(i)' <=> IsUses(i)))
  BY DEF Root, DataAt, IsUses
<1>11. ASSUME NEW k \in DOMAIN todo'
       PROVE (LET c == todo[k] IN
       /\ ~tree[c.path].res /\ (c.op = "end" => tree[c.path].kind = "uses")
       /\ c.op = "try" => c.first
       /\ c.op = "try" /\ tree[c.path].kind = "uses" /\ Len(c.path) > 2 => Complete(tree[c.path].arg)
       /\ status = "parse" => c.first /\ at > 0 /\ c.path[1] = Root(at)
       /\ status = "resolve" /\ k = Len(todo) => ~c.first
       /\ ~c.first => k = Len(todo) /\ i \in DOMAIN unres /\ IsUses(i) /\ unres[i].item = c.path)'
  <2> DEFINE c == todo[k + 1]
  <2>1. todo'[k] = c /\ k + 1 \in DOMAIN todo /\ c.path # p /\ c.path \in DOMAIN tree
    BY <1>5, <1>6, <1>8
  <2>2. tree'[c.path] = tree[c.path]
    BY <2>1
  <2>3. k + 1 = Len(todo) <=> k = Len(todo')
    BY <1>2
  <2>4. /\ ~tree[c.path].res /\ (c.op = "end" => tree[c.path].kind = "uses")
        /\ c.op = "try" => c.first
        /\ c.op = "try" /\ tree[c.path].kind = "uses" /\ Len(c.path) > 2 => Complete(tree[c.path].arg)
        /\ status = "parse" => c.first /\ at > 0 /\ c.path[1] = Root(at)
        /\ status = "resolve" /\ k + 1 = Len(todo) => ~c.first
        /\ ~c.first => k + 1 = Len(todo) /\ i \in DOMAIN unres /\ IsUses(i) /\ unres[i].item = c.path
    BY <1>3, <2>1
  <2>5. PICK a : a = tree'[c.path].arg
    OBVIOUS
  <2>6. c.op = "try" /\ tree'[c.path].kind = "uses" /\ Len(c.path) > 2 => Complete(a)'
    BY <2>2, <2>4, <2>5
  <2>7. todo'[k].op = "try" /\ tree'[todo'[k].path].kind = "uses" /\ Len(todo'[k].path) > 2 =>
          (Complete(tree[todo[k].path].arg))'
    BY <2>1, <2>5, <2>6 DEF Complete
  <2> HIDE DEF c
  <2> QED
    BY <1>10, <2>1, <2>2, <2>3, <2>4, <2>7
<1>12. \A k, l \in DOMAIN todo' : todo'[k].path[1] = todo'[l].path[1]
  BY <1>3, <1>6
<1>13. ASSUME NEW k \in DOMAIN todo', NEW l \in DOMAIN todo', todo'[k].path = todo'[l].path PROVE k = l
  <2>1. k + 1 = l + 1
    BY <1>3, <1>6, <1>13
  <2> QED
    BY <1>2, <2>1
<1>14. TodoInv'
  <2>1. todo' \in Seq([op : {"try", "end"}, path : DOMAIN tree', first : BOOLEAN])
    BY <1>2, <1>9
  <2>2. status' \in {"ok", "error"} => todo' = << >>
    BY <1>1
  <2> QED
    BY <1>11, <1>12, <1>13, <2>1, <2>2 DEF TodoInv
<1>15. status = "resolve" => todo' # << >>
  <2>1. status = "resolve" => Len(todo') # 0
    BY <1>2, <1>4
  <2> QED
    BY <2>1
<1> QED
  BY <1>4, <1>6, <1>7, <1>8, <1>14, <1>15

\* While calls are to be made the counters of the pass say the same.
LEMMA BusyCount ==
  ASSUME CountInv, UNCHANGED <<i, unres_count, res_count, status>>, status \in {"parse", "resolve"},
         status = "resolve" => todo # << >> /\ todo' # << >> /\ i \in DOMAIN unres,
         DOMAIN unres \subseteq DOMAIN unres', \A k \in DOMAIN unres : unres'[k] = unres[k],
         status = "resolve" => \A k \in DOMAIN unres' : k \notin DOMAIN unres => ~(k < i)
  PROVE  CountInv'
<1>1. /\ i \in Nat /\ unres_count \in Nat /\ res_count \in 0..unres_count
      /\ status = "resolve" => i > 0
  BY DEF CountInv
<1>2. CASE status = "parse"
  BY <1>1, <1>2 DEF CountInv
<1>3. CASE status = "resolve"
  <2>1. /\ res_count + 1 <= unres_count
        /\ res_count + 1 = unres_count => \A k \in {k \in DOMAIN unres : k < i} : unres[k].done
        /\ res_count + 1 < unres_count => \E k \in {k \in DOMAIN unres : k < i} : ~unres[k].done
    BY <1>3 DEF CountInv
  <2>2. {k \in DOMAIN unres' : k < i} = {k \in DOMAIN unres : k < i}
    BY <1>3
  <2>3. /\ res_count + 1 = unres_count => \A k \in {k \in DOMAIN unres' : k < i} : unres'[k].done
        /\ res_count + 1 < unres_count => \E k \in {k \in DOMAIN unres' : k < i} : ~unres'[k].done
    BY <2>1, <2>2
  <2>4. todo' # << >> /\ status' = "resolve"
    BY <1>3
  <2> QED
    BY <1>1, <2>1, <2>3, <2>4 DEF CountInv
<1> QED
  BY <1>2, <1>3

\* Setting res of one node.
LEMMA ResolveOne ==
  ASSUME TreeInv, NEW p \in DOMAIN tree, tree' = [tree EXCEPT ![p].res = TRUE]
  PROVE  /\ SameShape /\ tree'[p].res /\ \A q \in DOMAIN tree : q # p => tree'[q] = tree[q]
<1>1. tree \in [DOMAIN tree -> NodeRec]
  BY DEF TreeInv
<1>2. tree' \in [DOMAIN tree -> NodeRec] /\ DOMAIN tree' = DOMAIN tree
  BY <1>1 DEF NodeRec
<1>3. \A q \in DOMAIN tree : q # p => tree'[q] = tree[q]
  BY <1>1
<1>4. tree'[p] = [tree[p] EXCEPT !.res = TRUE] /\ tree[p] \in NodeRec
  BY <1>1
<1>5. tree'[p].kind = tree[p].kind /\ tree'[p].arg = tree[p].arg /\ tree'[p].res = TRUE
  BY <1>4 DEF NodeRec
<1> QED
  BY <1>2, <1>3, <1>5 DEF SameShape

\* Only nodes that wait are resolved.
LEMMA TreeSame ==
  ASSUME TreeInv, tree' = tree
  PROVE  SameShape
BY DEF TreeInv, SameShape

\* unres_schema_add_node of a leaf whose type is known, or resolve_uses returned
\* to a first try: the node is resolved.
LEMMA StepResolved ==
  ASSUME CopyInvs, CountInv, Calling, Head(todo).first,
         NEW p, p = Head(todo).path,
         \/ Head(todo).op = "try" /\ tree[p].kind = "leaf" /\ TypeKnown(tree[p].arg)
         \/ Head(todo).op = "end",
         todo' = Tail(todo), tree' = [tree EXCEPT ![p].res = TRUE],
         UNCHANGED <<schema, at, pos, base, grps, nacm, unres, i, unres_count, res_count, status>>
  PROVE  CopyInvs' /\ CountInv'
<1>1. /\ ReadInv /\ TreeInv /\ TodoInv /\ UnresInv /\ Covered /\ CopyInv /\ NacmInv /\ TypeInv
      /\ todo # << >> /\ status \in {"parse", "resolve"}
  BY DEF CopyInvs, Calling
<1>2. /\ 1 \in DOMAIN todo /\ Head(todo) = todo[1] /\ todo[1].path = p /\ p \in DOMAIN tree
  BY <1>1, HeadFacts
<1>3. SameShape /\ tree'[p].res /\ \A q \in DOMAIN tree : q # p => tree'[q] = tree[q]
  BY <1>1, <1>2, ResolveOne
<1>4. DOMAIN tree' = DOMAIN tree /\ \A q \in DOMAIN tree : tree'[q].kind = tree[q].kind /\ tree'[q].arg = tree[q].arg
  BY <1>3 DEF SameShape
<1>5. /\ ~tree[p].res /\ (todo[1].op = "end" => tree[p].kind = "uses")
      /\ \A k \in DOMAIN todo : todo[k].path = p => k = 1
  BY <1>1, <1>2 DEF TodoInv
<1>6. \A a : Complete(a) => Complete(a)'
  <2>1. at' \in Nat /\ at' >= at
    <3>1. at \in 0..DataAt /\ DataAt \in Nat
      BY <1>1, SchemaFacts DEF ReadInv
    <3>2. \A x \in Nat : \A y \in 0..x : y \in Nat /\ y >= y
      OBVIOUS
    <3> QED
      BY <3>1, <3>2
  <2>2. \A q \in DOMAIN tree' :
          \/ q \in DOMAIN tree /\ tree'[q].kind = tree[q].kind /\ (tree[q].res => tree'[q].res)
          \/ ~Complete(q[1])
    BY <1>3 DEF SameShape
  <2>3. schema' = schema
    OBVIOUS
  <2> QED
    BY <1>1, <2>1, <2>2, <2>3, CompleteKept
<1>7. /\ TodoInv' /\ (status = "resolve" => todo' # << >>)
      /\ \A k \in DOMAIN todo' : todo'[k].path # Head(todo).path
      /\ \A k \in DOMAIN todo' : k + 1 \in DOMAIN todo /\ todo'[k] = todo[k + 1]
      /\ \A k \in DOMAIN todo : k # 1 => k - 1 \in DOMAIN todo' /\ todo'[k - 1] = todo[k]
      /\ status = "resolve" => i \in DOMAIN unres
  BY <1>3, <1>6, TailTodo
<1>8. ASSUME NEW q \in DOMAIN tree, tree[q].kind = "uses" PROVE Copied(q)' <=> Copied(q)
  <2>1. CASE q = p
    <3>1. todo[1].op = "end"
      BY <1>2, <1>8, <2>1
    <3> QED
      BY <1>2, <1>3, <2>1, <3>1 DEF Copied
  <2>2. CASE q # p
    <3>1. tree'[q] = tree[q]
      BY <1>3, <2>2
    <3>2. (\E k \in DOMAIN todo' : todo'[k].op = "end" /\ todo'[k].path = q) =>
            \E k \in DOMAIN todo : todo[k].op = "end" /\ todo[k].path = q
      BY <1>7
    <3>3. (\E k \in DOMAIN todo : todo[k].op = "end" /\ todo[k].path = q) =>
            \E k \in DOMAIN todo' : todo'[k].op = "end" /\ todo'[k].path = q
      <4> SUFFICES ASSUME NEW k \in DOMAIN todo, todo[k].op = "end", todo[k].path = q
                   PROVE  \E l \in DOMAIN todo' : todo'[l].op = "end" /\ todo'[l].path = q
        OBVIOUS
      <4>1. k # 1
        BY <1>2, <2>2
      <4>2. k - 1 \in DOMAIN todo' /\ todo'[k - 1] = todo[k]
        BY <1>7, <4>1
      <4> QED
        BY <4>2
    <3> QED
      BY <3>1, <3>2, <3>3 DEF Copied
  <2> QED
    BY <2>1, <2>2
<1>9. TreeInv' /\ CopyInv'
  BY <1>1, <1>3, <1>8, ShapeKept
<1>10. \A k \in DOMAIN unres : unres[k].kind # "typedef" => unres[k].item # p
  <2> SUFFICES ASSUME NEW k \in DOMAIN unres, unres[k].kind # "typedef", unres[k].item = p PROVE FALSE
    OBVIOUS
  <2>1. unres[k] \in Items
    BY <1>1, ElementOfSeq, LenProperties DEF UnresInv
  <2>2. unres[k].kind = "type" \/ unres[k].kind = "uses"
    BY <2>1 DEF Items
  <2>3. ~unres[k].done
    BY <1>1, <1>5, <2>2 DEF UnresInv
  <2>4. Waits(k)
    BY <2>3 DEF Waits
  <2> QED
    BY <1>1, <1>2, <2>4 DEF UnresInv
<1>11. UnresInv'
  <2>1. (\A k : Waits(k)' <=> Waits(k)) /\ (\A j : HasRead(j)' <=> HasRead(j)) /\ Items' = Items
    BY <1>4 DEF Waits, HasRead, Items
  <2>2. /\ unres \in Seq(Items)
        /\ \A k \in DOMAIN unres :
             /\ unres[k].kind = "typedef" =>
                  /\ \E j \in DOMAIN schema.tpdfs : unres[k].item = schema.tpdfs[j] /\ HasRead(j)
                  /\ unres[k].done <=> unres[k].item.name \in base
             /\ unres[k].kind = "type" => /\ unres[k].item \in DOMAIN tree /\ tree[unres[k].item].kind = "leaf"
                                          /\ unres[k].done <=> tree[unres[k].item].res
             /\ unres[k].kind = "uses" => /\ unres[k].item \in DOMAIN tree /\ tree[unres[k].item].kind = "uses"
                                          /\ Len(unres[k].item) = 2
                                          /\ unres[k].done <=> tree[unres[k].item].res
             /\ Waits(k) => \A l \in DOMAIN todo : todo[l].path = unres[k].item => k = i /\ ~todo[l].first
        /\ \A k, l \in DOMAIN unres : Waits(k) /\ Waits(l) /\ unres[k].item = unres[l].item => k = l
        /\ \A k, l \in DOMAIN unres :
             unres[k].kind = "typedef" /\ unres[l].kind = "typedef" /\ unres[k].item = unres[l].item => k = l
    BY <1>1 DEF UnresInv
  <2>3. ASSUME NEW k \in DOMAIN unres
        PROVE  /\ unres[k].kind = "type" => /\ unres[k].item \in DOMAIN tree' /\ tree'[unres[k].item].kind = "leaf"
                                            /\ unres[k].done <=> tree'[unres[k].item].res
               /\ unres[k].kind = "uses" => /\ unres[k].item \in DOMAIN tree' /\ tree'[unres[k].item].kind = "uses"
                                            /\ unres[k].done <=> tree'[unres[k].item].res
    BY <1>3, <1>4, <1>10, <2>2
  <2>4. ASSUME NEW k \in DOMAIN unres, Waits(k), NEW l \in DOMAIN todo', todo'[l].path = unres[k].item
        PROVE  k = i /\ ~todo'[l].first
    BY <1>7, <2>2, <2>4
  <2> QED
    BY <2>1, <2>2, <2>3, <2>4 DEF UnresInv
<1>12. Covered'
  <2> SUFFICES ASSUME NEW q \in DOMAIN tree', ~tree'[q].res
               PROVE  \/ \E k \in DOMAIN todo' : todo'[k].path = q
                      \/ \E k \in DOMAIN unres : unres[k].kind # "typedef" /\ ~unres[k].done /\ unres[k].item = q
    BY DEF Covered
  <2>1. q \in DOMAIN tree /\ q # p /\ ~tree[q].res
    BY <1>3, <1>4
  <2>2. \/ \E k \in DOMAIN todo : todo[k].path = q
        \/ \E k \in DOMAIN unres : unres[k].kind # "typedef" /\ ~unres[k].done /\ unres[k].item = q
    BY <1>1, <2>1 DEF Covered
  <2>3. (\E k \in DOMAIN todo : todo[k].path = q) => \E k \in DOMAIN todo' : todo'[k].path = q
    <3> SUFFICES ASSUME NEW k \in DOMAIN todo, todo[k].path = q
                 PROVE  \E l \in DOMAIN todo' : todo'[l].path = q
      OBVIOUS
    <3>1. k # 1
      BY <1>2, <2>1
    <3>2. k - 1 \in DOMAIN todo' /\ todo'[k - 1] = todo[k]
      BY <1>7, <3>1
    <3> QED
      BY <3>2
  <2> QED
    BY <2>2, <2>3
<1>13. NacmInv'
  BY <1>1 DEF NacmInv, Waiting, Grps
<1>14. TypeInv'
  <2>1. \A j : HasRead(j)' <=> HasRead(j)
    BY DEF HasRead
  <2>2. TypeEdges' = TypeEdges
    BY DEF TypeEdges
  <2>3. ASSUME NEW q \in DOMAIN tree', tree'[q].kind = "leaf", tree'[q].res PROVE tree'[q].arg \in base \cup Builtin
    <3>1. CASE q = p
      <4>1. todo[1].op = "try" /\ TypeKnown(tree[p].arg)
        BY <1>2, <1>4, <1>5, <2>3, <3>1
      <4> QED
        BY <1>4, <2>3, <3>1, <4>1 DEF TypeKnown
    <3>2. CASE q # p
      BY <1>1, <1>3, <1>4, <2>3, <3>2 DEF TypeInv
    <3> QED
      BY <3>1, <3>2
  <2>4. /\ \A t \in base : \E j \in DOMAIN schema.tpdfs : schema.tpdfs[j].name = t /\ HasRead(j)
        /\ \A t \in base : t \notin Reach(TypeEdges, t) /\ Reach(TypeEdges, t) \subseteq base \cup Builtin
        /\ \A k \in DOMAIN schema.tpdfs : HasRead(k) =>
             \/ schema.tpdfs[k].name \in base
             \/ \E l \in DOMAIN unres :
                  unres[l].kind = "typedef" /\ ~unres[l].done /\ unres[l].item = schema.tpdfs[k]
    BY <1>1 DEF TypeInv
  <2> QED
    BY <2>1, <2>2, <2>3, <2>4 DEF TypeInv
<1>15. ReadInv'
  BY <1>1 DEF ReadInv, Root, Section, DataAt
<1>16. CountInv'
  BY <1>1, <1>7, BusyCount
<1> QED
  BY <1>7, <1>9, <1>11, <1>12, <1>13, <1>14, <1>15, <1>16 DEF CopyInvs
-----------------------------------------------------------------------------
(* Steps between two calls                                                 *)

\* Nothing is added to the tree: what it says of copies stays.
LEMMA IdleKept ==
  ASSUME CopyInvs, todo = << >>, todo' = << >>, tree' = tree, schema' = schema,
         at' \in Nat, at' >= at,
         \A k \in 1..DataAt : \A j \in DOMAIN Section(k) : IsRead(k, j)' <=> IsRead(k, j)
  PROVE  TodoInv' /\ TreeInv' /\ CopyInv' /\ \A a : Complete(a) => Complete(a)'
<1>1. ReadInv /\ TreeInv /\ TodoInv /\ CopyInv
  BY DEF CopyInvs
<1>2. (\A k : Root(k)' = Root(k) /\ Section(k)' = Section(k)) /\ DataAt' = DataAt /\ Roots' = Roots
  BY DEF Root, Section, DataAt, Roots, Grps
<1>3. \A a : Complete(a) => Complete(a)'
  BY <1>1, CompleteKept
<1>4. TodoInv'
  <2>1. DOMAIN todo' = {}
    OBVIOUS
  <2>2. todo' \in Seq([op : {"try", "end"}, path : DOMAIN tree', first : BOOLEAN])
    OBVIOUS
  <2> QED
    BY <2>1, <2>2 DEF TodoInv
<1>5. TreeInv'
  <2>1. ASSUME NEW p \in DOMAIN tree
        PROVE  /\ IsPath(p)' /\ <<p[1], p[2]>> \in DOMAIN tree
               /\ \E k \in 1..DataAt : \E j \in DOMAIN Section(k) :
                    tree[p].kind = Section(k)[j].kind /\ tree[p].arg = Section(k)[j].arg
               /\ Len(p) = 2 => \E k \in 1..DataAt : \E j \in DOMAIN Section(k) : Stands(p, k, j)'
    <3>1. /\ IsPath(p) /\ <<p[1], p[2]>> \in DOMAIN tree
          /\ \E k \in 1..DataAt : \E j \in DOMAIN Section(k) :
               tree[p].kind = Section(k)[j].kind /\ tree[p].arg = Section(k)[j].arg
          /\ Len(p) = 2 => \E k \in 1..DataAt : \E j \in DOMAIN Section(k) : Stands(p, k, j)
      BY <1>1 DEF TreeInv
    <3>2. IsPath(p)'
      BY <1>2, <3>1 DEF IsPath
    <3>3. \A k \in 1..DataAt : \A j \in DOMAIN Section(k) : Stands(p, k, j) => Stands(p, k, j)'
      BY <1>2 DEF Stands
    <3> QED
      BY <3>1, <3>2, <3>3
  <2>2. \A k \in 1..DataAt : \A j \in DOMAIN Section(k) :
          IsRead(k, j)' => /\ <<Root(k), j>> \in DOMAIN tree
                           /\ tree[<<Root(k), j>>].kind = Section(k)[j].kind
                           /\ tree[<<Root(k), j>>].arg = Section(k)[j].arg
    BY <1>1 DEF TreeInv
  <2>3. IsFiniteSet(DOMAIN tree) /\ tree \in [DOMAIN tree -> NodeRec]
    BY <1>1 DEF TreeInv
  <2>4. IsFiniteSet(DOMAIN tree') /\ tree' \in [DOMAIN tree' -> NodeRec] /\ NodeRec' = NodeRec
    BY <2>3 DEF NodeRec
  <2> QED
    BY <1>2, <2>1, <2>2, <2>4, ZenonT(60) DEF TreeInv
<1>6. CopyInv'
  <2> SUFFICES ASSUME NEW p \in DOMAIN tree, tree[p].kind = "uses", NEW a, a = tree[p].arg
               PROVE  IF Copied(p)' THEN Complete(a)' /\ Same(p)' /\ p[1] \notin {a} \cup Reach(UsesEdges', a)
                      ELSE NotBelow(p)'
    BY DEF CopyInv
  <2>1. (Copied(p)' <=> Copied(p)) /\ (Same(p)' <=> Same(p)) /\ (NotBelow(p)' <=> NotBelow(p)) /\ UsesEdges' = UsesEdges
    BY DEF Copied, Same, NotBelow, UsesEdges, Rest, Elem, Nodes
  <2>2. IF Copied(p) THEN Complete(a) /\ Same(p) /\ p[1] \notin {a} \cup Reach(UsesEdges, a) ELSE NotBelow(p)
    BY <1>1 DEF CopyInv
  <2> QED
    BY <1>3, <2>1, <2>2
<1> QED
  BY <1>3, <1>4, <1>5, <1>6

\* Neither the tree nor the list changes.
LEMMA IdleSame ==
  ASSUME CopyInvs, ReadInv', todo = << >>, todo' = << >>,
         UNCHANGED <<schema, tree, base, nacm, unres>>, at' \in Nat, at' >= at,
         \A k \in 1..DataAt : \A j \in DOMAIN Section(k) : IsRead(k, j)' <=> IsRead(k, j),
         \A j \in DOMAIN schema.tpdfs : HasRead(j)' <=> HasRead(j)
  PROVE  CopyInvs'
<1>1. ReadInv /\ TreeInv /\ TodoInv /\ UnresInv /\ Covered /\ CopyInv /\ NacmInv /\ TypeInv
  BY DEF CopyInvs
<1>2. TodoInv' /\ TreeInv' /\ CopyInv'
  BY IdleKept
<1>3. UnresInv'
  <2>1. (\A k : Waits(k)' <=> Waits(k)) /\ Items' = Items /\ DOMAIN todo' = {}
    BY DEF Waits, Items
  <2> QED
    BY <1>1, <2>1 DEF UnresInv
<1>4. Covered'
  BY <1>1 DEF Covered
<1>5. NacmInv'
  BY <1>1 DEF NacmInv, Waiting, Grps
<1>6. TypeInv'
  <2>1. TypeEdges' = TypeEdges
    BY DEF TypeEdges
  <2> QED
    BY <1>1, <2>1 DEF TypeInv
<1> QED
  BY <1>2, <1>3, <1>4, <1>5, <1>6 DEF CopyInvs

\* The next section is begun: a grouping is in the module before its nodes.
LEMMA StepSection ==
  ASSUME CopyInvs, CountInv, read_yin_grouping \/ read_data
  PROVE  CopyInvs' /\ CountInv'
<1>1. ReadInv /\ schema \in Schemas
  BY DEF CopyInvs, ReadInv
<1> DEFINE n == Len(schema.grps)
<1>2. /\ n \in Nat /\ DataAt = n + 1 /\ at \in 0..DataAt /\ pos \in Nat
      /\ \A k \in 1..DataAt : Len(Section(k)) \in Nat /\ DOMAIN Section(k) = 1..Len(Section(k))
      /\ DOMAIN schema.tpdfs = 1..Len(schema.tpdfs) /\ Len(schema.tpdfs) \in Nat /\ Section(0) = schema.tpdfs
  BY <1>1, SchemaFacts DEF ReadInv
<1>3. /\ status = "parse" /\ todo = << >> /\ pos = Len(Section(at)) /\ at' = at + 1 /\ pos' = 0
      /\ at <= n
      /\ \/ at < n /\ grps' = grps \cup {Root(at + 1)}
         \/ at = n /\ grps' = grps
      /\ UNCHANGED <<schema, base, nacm, tree, unres, todo, i, unres_count, res_count, status>>
  BY <1>2 DEF read_yin_grouping, read_data, SectionRead
<1>4. (\A k : Root(k)' = Root(k) /\ Section(k)' = Section(k)) /\ DataAt' = DataAt
  BY <1>3 DEF Root, Section, DataAt
<1>5. at' \in 1..DataAt /\ at' \in Nat /\ at' >= at /\ at' > 0
  BY <1>2, <1>3
<1>6. grps' = {Root(k) : k \in (1..at') \ {DataAt}}
  <2>1. grps = {Root(k) : k \in (1..at) \ {DataAt}}
    BY <1>1 DEF ReadInv
  <2>2. CASE at < n
    <3>1. (1..at') \ {DataAt} = ((1..at) \ {DataAt}) \cup {at + 1}
      BY <1>2, <1>3, <2>2
    <3> QED
      BY <1>2, <1>3, <2>1, <2>2, <3>1
  <2>3. CASE at = n
    <3>1. (1..at') \ {DataAt} = (1..at) \ {DataAt}
      BY <1>2, <1>3, <2>3
    <3> QED
      BY <1>2, <1>3, <2>1, <2>3, <3>1
  <2> QED
    BY <1>3, <2>2, <2>3
<1>7. ReadInv'
  <2>1. pos' \in 0..Len(Section(at'))
    BY <1>2, <1>3, <1>5
  <2>2. at' \in 0..DataAt
    BY <1>2, <1>5
  <2>3. status' = "parse" /\ schema' \in Schemas
    BY <1>1, <1>3
  <2>4. Section(at') = (Section(at))'
    BY <1>4
  <2>5. {Root(k)' : k \in (1..at') \ {DataAt'}} = grps'
    BY <1>4, <1>6
  <2> QED
    BY <1>4, <2>1, <2>2, <2>3, <2>4, <2>5 DEF ReadInv
<1>8. ASSUME NEW k \in 1..DataAt, NEW j \in DOMAIN Section(k) PROVE IsRead(k, j)' <=> IsRead(k, j)
  <2>1. j \in 1..Len(Section(k)) /\ Len(Section(k)) \in Nat
    BY <1>2
  <2>2. k = at => j <= pos
    BY <1>3, <2>1
  <2>3. ~(j <= pos')
    BY <1>3, <2>1
  <2>4. k < at' <=> (k < at \/ k = at)
    BY <1>2, <1>3
  <2> QED
    BY <2>2, <2>3, <2>4 DEF IsRead
<1>9. ASSUME NEW j \in DOMAIN schema.tpdfs PROVE HasRead(j)' <=> HasRead(j)
  <2>1. at = 0 => j <= pos
    BY <1>2, <1>3
  <2>2. at = 0 \/ at > 0
    BY <1>2
  <2> QED
    BY <1>5, <2>1, <2>2 DEF HasRead
<1>10. CopyInvs'
  BY <1>3, <1>5, <1>7, <1>8, <1>9, IdleSame
<1>11. CountInv'
  BY <1>3 DEF CountInv
<1> QED
  BY <1>10, <1>11

\* Reading goes no further: where the reader is stays.
LEMMA NoRead ==
  ASSUME CopyInvs, UNCHANGED <<schema, at, pos, grps>>, status' \in {"parse", "resolve", "ok", "error", "lost"},
         status' \in {"resolve", "ok", "error"} => at = DataAt /\ pos = Len(schema.data)
  PROVE  /\ ReadInv' /\ at' \in Nat /\ at' >= at
         /\ \A k, j : IsRead(k, j)' <=> IsRead(k, j)
         /\ \A j : HasRead(j)' <=> HasRead(j)
<1>1. ReadInv /\ schema \in Schemas
  BY DEF CopyInvs, ReadInv
<1>2. at \in 0..DataAt /\ DataAt \in Nat
  BY <1>1, SchemaFacts DEF ReadInv
<1>3. \A x \in Nat : \A y \in 0..x : y \in Nat /\ y >= y
  OBVIOUS
<1>4. at' \in Nat /\ at' >= at
  BY <1>2, <1>3
<1>5. (\A k : Root(k)' = Root(k) /\ Section(k)' = Section(k)) /\ DataAt' = DataAt
  BY DEF Root, Section, DataAt
<1>6. ReadInv'
  BY <1>1, <1>5 DEF ReadInv
<1> QED
  BY <1>4, <1>6 DEF IsRead, HasRead

\* yin_read_module has read all of the module.
LEMMA StepReadEnds ==
  ASSUME CopyInvs, CountInv, ReadEnds
  PROVE  CopyInvs' /\ CountInv'
<1>1. ReadInv /\ schema \in Schemas
  BY DEF CopyInvs, ReadInv
<1>2. /\ todo = << >> /\ at = DataAt /\ pos = Len(Section(at))
      /\ UNCHANGED <<schema, at, pos, base, grps, nacm, tree, unres, todo>>
      /\ \/ unres = << >> /\ status' = "ok" /\ UNCHANGED <<i, unres_count, res_count>>
         \/ status' = "resolve" /\ i' = 1 /\ unres_count' = 0 /\ res_count' = 0
  BY DEF ReadEnds, SectionRead, NextPass
<1>3. pos = Len(schema.data)
  BY <1>1, <1>2, SchemaFacts
<1>4. /\ ReadInv' /\ at' \in Nat /\ at' >= at
      /\ \A k, j : IsRead(k, j)' <=> IsRead(k, j)
      /\ \A j : HasRead(j)' <=> HasRead(j)
  BY <1>2, <1>3, NoRead
<1>5. CopyInvs'
  BY <1>2, <1>4, IdleSame
<1>6. CountInv'
  <2>1. CASE unres = << >> /\ status' = "ok" /\ UNCHANGED <<i, unres_count, res_count>>
    <3>1. DOMAIN unres' = {}
      BY <1>2, <2>1
    <3> QED
      BY <2>1, <3>1 DEF CountInv
  <2>2. CASE status' = "resolve" /\ i' = 1 /\ unres_count' = 0 /\ res_count' = 0
    <3>1. {k \in DOMAIN unres' : k < 1} = {}
      <4>1. unres \in Seq(Items)
        BY DEF CopyInvs, UnresInv
      <4>2. Len(unres) \in Nat /\ DOMAIN unres = 1..Len(unres)
        BY <4>1, LenProperties
      <4> QED
        BY <1>2, <4>2
    <3>2. todo' = << >>
      BY <1>2
    <3> QED
      BY <2>2, <3>1, <3>2 DEF CountInv
  <2> QED
    BY <1>2, <2>1, <2>2
<1> QED
  BY <1>5, <1>6

\* The inner loop of resolve_unres_schema has got to the end of the list.
LEMMA StepPassEnds ==
  ASSUME CopyInvs, CountInv, PassEnds
  PROVE  CopyInvs' /\ CountInv'
<1>1. ReadInv /\ schema \in Schemas
  BY DEF CopyInvs, ReadInv
<1>2. /\ todo = << >> /\ status = "resolve" /\ i > Len(unres)
      /\ UNCHANGED <<schema, at, pos, base, grps, nacm, tree, unres, todo>>
      /\ \/ status' = "resolve" /\ i' = 1 /\ unres_count' = 0 /\ res_count' = 0
         \/ /\ UNCHANGED <<i, unres_count, res_count>> /\ ~(res_count # 0 /\ res_count < unres_count)
            /\ status' = (IF res_count < unres_count THEN "error" ELSE "ok")
  BY DEF PassEnds, NextPass, Again, Stuck
<1>3. at = DataAt /\ pos = Len(schema.data)
  BY <1>1, <1>2 DEF ReadInv
<1>4. /\ ReadInv' /\ at' \in Nat /\ at' >= at
      /\ \A k, j : IsRead(k, j)' <=> IsRead(k, j)
      /\ \A j : HasRead(j)' <=> HasRead(j)
  BY <1>2, <1>3, NoRead
<1>5. CopyInvs'
  BY <1>2, <1>4, IdleSame
<1>6. Len(unres) \in Nat /\ DOMAIN unres = 1..Len(unres)
  <2>1. unres \in Seq(Items)
    BY DEF CopyInvs, UnresInv
  <2> QED
    BY <2>1, LenProperties
<1>7. CountInv'
  <2>1. CASE status' = "resolve" /\ i' = 1 /\ unres_count' = 0 /\ res_count' = 0
    <3>1. {k \in DOMAIN unres' : k < 1} = {}
      BY <1>2, <1>6
    <3>2. todo' = << >>
      BY <1>2
    <3> QED
      BY <2>1, <3>1, <3>2 DEF CountInv
  <2>2. CASE /\ UNCHANGED <<i, unres_count, res_count>> /\ ~(res_count # 0 /\ res_count < unres_count)
             /\ status' = (IF res_count < unres_count THEN "error" ELSE "ok")
    <3>1. i \in Nat /\ unres_count \in Nat /\ res_count \in 0..unres_count
      BY DEF CountInv
    <3>2. {k \in DOMAIN unres : k < i} = DOMAIN unres
      BY <1>2, <1>6, <3>1
    <3>3. /\ res_count = unres_count => \A k \in DOMAIN unres : unres[k].done
          /\ res_count < unres_count => \E k \in DOMAIN unres : ~unres[k].done
          /\ res_count = 0 => \A k \in DOMAIN unres : unres[k].done \/ Blocked(unres[k])
      BY <1>2, <3>1, <3>2 DEF CountInv
    <3>4. \A u : Blocked(u)' <=> Blocked(u)
      BY <1>2 DEF Blocked, Copyable, TypeKnown
    <3>5. CASE res_count < unres_count
      <4>1. status' = "error" /\ res_count = 0
        BY <2>2, <3>1, <3>5
      <4> QED
        BY <1>2, <2>2, <3>1, <3>3, <3>4, <3>5, <4>1 DEF CountInv
    <3>6. CASE ~(res_count < unres_count)
      <4>1. status' = "ok" /\ res_count = unres_count
        BY <2>2, <3>1, <3>6
      <4> QED
        BY <1>2, <2>2, <3>1, <3>3, <4>1 DEF CountInv
    <3> QED
      BY <3>5, <3>6
  <2> QED
    BY <1>2, <2>1, <2>2
<1> QED
  BY <1>5, <1>7

\* The item whose turn it is.
LEMMA TurnFacts ==
  ASSUME CopyInvs, CountInv, status = "resolve", i <= Len(unres)
  PROVE  /\ i \in Nat /\ i \in DOMAIN unres /\ unres[i] \in Items
         /\ DOMAIN unres = 1..Len(unres) /\ Len(unres) \in Nat
         /\ {k \in DOMAIN unres : k < i + 1} = {k \in DOMAIN unres : k < i} \cup {i}
<1>1. unres \in Seq(Items)
  BY DEF CopyInvs, UnresInv
<1>2. Len(unres) \in Nat /\ DOMAIN unres = 1..Len(unres)
  BY <1>1, LenProperties
<1>3. i \in Nat /\ i > 0
  BY DEF CountInv
<1>4. i \in DOMAIN unres
  BY <1>2, <1>3
<1>5. unres[i] \in Items
  BY <1>1, <1>2, <1>4, ElementOfSeq
<1> QED
  BY <1>2, <1>3, <1>4, <1>5

\* An item is passed: it is resolved already, or what it needs is not there.
LEMMA StepPassed ==
  ASSUME CopyInvs, CountInv, status = "resolve", todo = << >>, i <= Len(unres), i' = i + 1,
         \/ unres[i].done /\ unres_count' = unres_count
         \/ ~unres[i].done /\ Blocked(unres[i]) /\ unres_count' = unres_count + 1,
         UNCHANGED <<schema, at, pos, base, grps, nacm, tree, unres, todo, res_count, status>>
  PROVE  CopyInvs' /\ CountInv'
<1>1. at = DataAt /\ pos = Len(schema.data)
  BY DEF CopyInvs, ReadInv
<1>2. /\ ReadInv' /\ at' \in Nat /\ at' >= at
      /\ \A k, j : IsRead(k, j)' <=> IsRead(k, j)
      /\ \A j : HasRead(j)' <=> HasRead(j)
  BY <1>1, NoRead
<1>3. CopyInvs'
  BY <1>2, IdleSame
<1>4. /\ i \in Nat /\ i \in DOMAIN unres
      /\ {k \in DOMAIN unres : k < i + 1} = {k \in DOMAIN unres : k < i} \cup {i}
  BY TurnFacts
<1>5. /\ unres_count \in Nat /\ res_count \in 0..unres_count
      /\ res_count = unres_count => \A k \in {k \in DOMAIN unres : k < i} : unres[k].done
      /\ res_count < unres_count => \E k \in {k \in DOMAIN unres : k < i} : ~unres[k].done
      /\ res_count = 0 => \A k \in {k \in DOMAIN unres : k < i} : unres[k].done \/ Blocked(unres[k])
  BY DEF CountInv
<1>6. \A u : Blocked(u)' <=> Blocked(u)
  BY DEF Blocked, Copyable, TypeKnown
<1> DEFINE tried == {k \in DOMAIN unres : k < i} \cup {i}
<1>7. {k \in DOMAIN unres' : k < i'} = tried
  BY <1>4
<1>8. res_count = 0 => \A k \in tried : unres[k].done \/ Blocked(unres[k])
  BY <1>5
<1>9. CASE unres[i].done /\ unres_count' = unres_count
  <2>1. /\ res_count = unres_count => \A k \in tried : unres[k].done
        /\ res_count < unres_count => \E k \in tried : ~unres[k].done
    BY <1>5, <1>9
  <2> HIDE DEF tried
  <2>2. i' \in Nat /\ i' > 0 /\ unres_count' \in Nat /\ res_count \in 0..unres_count' /\ res_count <= unres_count'
    BY <1>4, <1>5, <1>9
  <2> QED
    BY <1>3, <1>6, <1>7, <1>8, <1>9, <2>1, <2>2 DEF CountInv
<1>10. CASE ~unres[i].done /\ unres_count' = unres_count + 1
  <2>1. /\ res_count < unres_count' /\ res_count # unres_count' /\ \E k \in tried : ~unres[k].done
    BY <1>5, <1>10
  <2> HIDE DEF tried
  <2>2. i' \in Nat /\ i' > 0 /\ unres_count' \in Nat /\ res_count \in 0..unres_count' /\ res_count <= unres_count'
    BY <1>4, <1>5, <1>10
  <2> QED
    BY <1>3, <1>6, <1>7, <1>8, <2>1, <2>2 DEF CountInv
<1> QED
  BY <1>3, <1>9, <1>10

\* An item is added to the list.
LEMMA AppendItem ==
  ASSUME NEW e, unres' = Append(unres, e), NEW I, unres \in Seq(I), e \in I, NEW n, n = Len(unres) + 1
  PROVE  /\ unres' \in Seq(I) /\ DOMAIN unres' = DOMAIN unres \cup {n} /\ n \notin DOMAIN unres
         /\ unres'[n] = e /\ n \in Nat /\ DOMAIN unres = 1..Len(unres) /\ Len(unres) \in Nat
         /\ \A k \in DOMAIN unres : unres'[k] = unres[k] /\ k \in DOMAIN unres'
<1>1. Len(unres) \in Nat /\ DOMAIN unres = 1..Len(unres)
  BY LenProperties
<1>2. /\ unres' \in Seq(I) /\ Len(unres') = Len(unres) + 1
      /\ \A k \in 1..Len(unres) : unres'[k] = unres[k] /\ unres'[Len(unres) + 1] = e
  BY AppendProperties
<1>3. unres'[n] = e
  BY AppendProperties
<1>4. DOMAIN unres' = 1..(Len(unres) + 1)
  BY <1>2, LenProperties
<1>5. DOMAIN unres' = DOMAIN unres \cup {n} /\ n \notin DOMAIN unres /\ n \in Nat
  BY <1>1, <1>4
<1> QED
  BY <1>1, <1>2, <1>3, <1>5

\* An item of the list is resolved.
LEMMA DoneItem ==
  ASSUME unres \in Seq(Items), i \in DOMAIN unres, unres' = [unres EXCEPT ![i].done = TRUE]
  PROVE  /\ unres' \in Seq(Items) /\ DOMAIN unres' = DOMAIN unres
         /\ \A k \in DOMAIN unres : k # i => unres'[k] = unres[k]
         /\ unres'[i].kind = unres[i].kind /\ unres'[i].item = unres[i].item /\ unres'[i].done
<1>1. unres[i] \in Items
  BY LenProperties, ElementOfSeq
<1>2. /\ DOMAIN unres' = DOMAIN unres /\ \A k \in DOMAIN unres : k # i => unres'[k] = unres[k]
      /\ unres'[i] = [unres[i] EXCEPT !.done = TRUE]
  OBVIOUS
<1>3. /\ unres'[i].kind = unres[i].kind /\ unres'[i].item = unres[i].item /\ unres'[i].done = TRUE
      /\ unres'[i] \in Items
  BY <1>1, <1>2 DEF Items
<1>4. Len(unres) \in Nat /\ DOMAIN unres = 1..Len(unres) /\ unres = [k \in 1..Len(unres) |-> unres[k]]
  BY LenProperties
<1>5. \A k \in 1..Len(unres) : unres'[k] \in Items
  BY <1>2, <1>3, <1>4, ElementOfSeq
<1>6. unres' \in [1..Len(unres) -> Items]
  BY <1>2, <1>4, <1>5
<1>7. unres' \in Seq(Items)
  BY <1>4, <1>6, SeqDef
<1> QED
  BY <1>2, <1>3, <1>7

\* The pass has resolved the item i.
LEMMA CountOne ==
  ASSUME CopyInvs, CountInv, status = "resolve", status' = "resolve", i <= Len(unres), todo' = << >>,
         \/ todo = << >> /\ unres_count' = unres_count + 1
         \/ todo # << >> /\ unres_count' = unres_count,
         res_count' = res_count + 1, i' = i + 1, unres' = [unres EXCEPT ![i].done = TRUE]
  PROVE  CountInv'
<1>1. /\ i \in Nat /\ i \in DOMAIN unres
      /\ {k \in DOMAIN unres : k < i + 1} = {k \in DOMAIN unres : k < i} \cup {i}
  BY TurnFacts
<1>2. unres \in Seq(Items)
  BY DEF CopyInvs, UnresInv
<1>3. /\ DOMAIN unres' = DOMAIN unres
      /\ \A k \in DOMAIN unres : k # i => unres'[k] = unres[k]
      /\ unres'[i].done
  BY <1>1, <1>2, DoneItem
<1> DEFINE old == {k \in DOMAIN unres : k < i}
           tried == old \cup {i}
<1>4. PICK b \in {0, 1} : b = (IF todo = << >> THEN 0 ELSE 1)
  OBVIOUS
<1>5. /\ unres_count \in Nat /\ res_count \in 0..unres_count /\ res_count + b <= unres_count
      /\ res_count + b = unres_count => \A k \in old : unres[k].done
      /\ res_count + b < unres_count => \E k \in old : ~unres[k].done
  BY <1>4 DEF CountInv
<1>6. unres_count' = unres_count + 1 - b
  BY <1>4, <1>5
<1>7. /\ res_count' = unres_count' <=> res_count + b = unres_count
      /\ res_count' < unres_count' <=> res_count + b < unres_count
      /\ res_count' <= unres_count' /\ res_count' \in 0..unres_count' /\ unres_count' \in Nat /\ res_count' # 0
  BY <1>5, <1>6
<1>8. i \notin old /\ i' \in Nat /\ i' > 0
  BY <1>1
<1>9. {k \in DOMAIN unres' : k < i'} = tried
  BY <1>1, <1>3
<1>10. res_count' = unres_count' => \A k \in tried : unres'[k].done
  BY <1>3, <1>5, <1>7, <1>8
<1>11. res_count' < unres_count' => \E k \in tried : ~unres'[k].done
  BY <1>3, <1>5, <1>7, <1>8
<1> HIDE DEF tried
<1>12. res_count' + 0 = res_count'
  BY <1>7
<1> QED
  BY <1>7, <1>8, <1>9, <1>10, <1>11, <1>12 DEF CountInv

\* The type of a typedef is known: it does not lead to the typedef.
LEMMA BaseKnown ==
  ASSUME ReadInv, TypeInv, NEW j \in DOMAIN schema.tpdfs, NEW n, n = schema.tpdfs[j].name,
         n \notin base, TypeKnown(schema.tpdfs[j].type)
  PROVE  \A t \in base \cup {n} : t \notin Reach(TypeEdges, t) /\ Reach(TypeEdges, t) \subseteq base \cup {n} \cup Builtin
<1>1. schema \in Schemas
  BY DEF ReadInv
<1>2. /\ IsFiniteSet(TypeEdges) /\ Targets(TypeEdges, n) = {schema.tpdfs[j].type}
      /\ \A m : m \notin Tpdfs => Targets(TypeEdges, m) = {}
  BY <1>1, EdgeFacts
<1>3. \A k \in DOMAIN schema.tpdfs : schema.tpdfs[k].name \notin Builtin
  BY <1>1, SchemasType
<1>4. /\ n \notin Builtin /\ \A b \in Builtin : Targets(TypeEdges, b) = {}
  BY <1>2, <1>3 DEF Tpdfs
<1>5. \A t \in base : t \notin Reach(TypeEdges, t) /\ Reach(TypeEdges, t) \subseteq base \cup Builtin
  BY DEF TypeInv
<1> DEFINE b == schema.tpdfs[j].type
           T == {b} \cup Reach(TypeEdges, b)
<1>6. Targets(TypeEdges, b) \subseteq Reach(TypeEdges, b) /\ \A x \in Reach(TypeEdges, b) : Targets(TypeEdges, x) \subseteq Reach(TypeEdges, b)
  BY <1>2, ReachFacts
<1>7. Targets(TypeEdges, n) \subseteq T /\ \A x \in T : Targets(TypeEdges, x) \subseteq T
  BY <1>2, <1>6
<1>8. T \subseteq base \cup Builtin
  <2>1. CASE b \in Builtin
    <3>1. Targets(TypeEdges, b) = {}
      BY <1>4, <2>1
    <3>2. Reach(TypeEdges, b) \subseteq {}
      <4> DEFINE Z == {}
      <4>1. Targets(TypeEdges, b) \subseteq Z /\ \A x \in Z : Targets(TypeEdges, x) \subseteq Z
        BY <3>1
      <4> HIDE DEF Z
      <4>2. Reach(TypeEdges, b) \subseteq Z
        BY <1>2, <4>1, ReachFacts
      <4> QED
        BY <4>2 DEF Z
    <3> QED
      BY <2>1, <3>2
  <2>2. CASE b \in base
    BY <1>5, <2>2
  <2> QED
    BY <2>1, <2>2 DEF TypeKnown
<1> HIDE DEF T
<1>9. Reach(TypeEdges, n) \subseteq T
  BY <1>2, <1>7, ReachFacts
<1> QED
  BY <1>4, <1>5, <1>8, <1>9

\* The list of unresolved items in parts.
LEMMA ListFacts ==
  ASSUME UnresInv
  PROVE  /\ unres \in Seq(Items)
         /\ \A k \in DOMAIN unres :
              /\ unres[k].kind \in {"typedef", "type", "uses"}
              /\ unres[k].kind = "typedef" =>
                   /\ \E j \in DOMAIN schema.tpdfs : unres[k].item = schema.tpdfs[j] /\ HasRead(j)
                   /\ unres[k].done <=> unres[k].item.name \in base
              /\ unres[k].kind = "type" => /\ unres[k].item \in DOMAIN tree /\ tree[unres[k].item].kind = "leaf"
                                           /\ unres[k].done <=> tree[unres[k].item].res
              /\ unres[k].kind = "uses" => /\ unres[k].item \in DOMAIN tree /\ tree[unres[k].item].kind = "uses"
                                           /\ Len(unres[k].item) = 2
                                           /\ unres[k].done <=> tree[unres[k].item].res
              /\ Waits(k) => \A l \in DOMAIN todo : todo[l].path = unres[k].item => k = i /\ ~todo[l].first
         /\ \A k, l \in DOMAIN unres : Waits(k) /\ Waits(l) /\ unres[k].item = unres[l].item => k = l
         /\ \A k, l \in DOMAIN unres :
              unres[k].kind = "typedef" /\ unres[l].kind = "typedef" /\ unres[k].item = unres[l].item => k = l
<1>1. unres \in Seq(Items)
  BY DEF UnresInv
<1>2. \A k \in DOMAIN unres : unres[k] \in Items
  BY <1>1, LenProperties, ElementOfSeq
<1>3. \A k \in DOMAIN unres : unres[k].kind \in {"typedef", "type", "uses"}
  BY <1>2 DEF Items
<1> QED
  BY <1>1, <1>3 DEF UnresInv

\* Typedefs with different positions have different names.
LEMMA TypedefNames ==
  ASSUME schema \in Schemas
  PROVE  /\ \A j, k \in DOMAIN schema.tpdfs : schema.tpdfs[j].name = schema.tpdfs[k].name => j = k
         /\ \A j \in DOMAIN schema.tpdfs : schema.tpdfs[j] \in Range(schema.tpdfs)
BY SchemasType DEF OnceNamed, Range

\* fill_yin_typedef: the type is known, or the typedef is put on the list.
LEMMA StepTypedef ==
  ASSUME CopyInvs, CountInv, fill_yin_typedef
  PROVE  CopyInvs' /\ CountInv'
<1>1. /\ ReadInv /\ TreeInv /\ TodoInv /\ UnresInv /\ Covered /\ CopyInv /\ NacmInv /\ TypeInv
      /\ schema \in Schemas
  BY DEF CopyInvs, ReadInv
<1> DEFINE n == pos + 1
           e == [kind |-> "typedef", item |-> schema.tpdfs[n], done |-> FALSE]
<1>2. /\ status = "parse" /\ todo = << >> /\ at = 0 /\ pos < Len(Section(at)) /\ pos' = n
      /\ UNCHANGED <<schema, at, grps, nacm, tree, todo, i, unres_count, res_count, status>>
  BY DEF fill_yin_typedef, Reading
<1>3. /\ Section(0) = schema.tpdfs /\ Len(schema.tpdfs) \in Nat /\ DOMAIN schema.tpdfs = 1..Len(schema.tpdfs)
      /\ DataAt \in Nat /\ pos \in Nat
  BY <1>1, <1>2, SchemaFacts DEF ReadInv
<1>4. n \in DOMAIN schema.tpdfs /\ n \in 0..Len(schema.tpdfs)
  BY <1>2, <1>3
<1>5. \/ TypeKnown(schema.tpdfs[n].type) /\ base' = base \cup {schema.tpdfs[n].name} /\ unres' = unres
      \/ base' = base /\ unres' = Append(unres, e)
  BY <1>2, <1>3 DEF fill_yin_typedef, Stmt, Queue
<1>6. /\ \A j, k \in DOMAIN schema.tpdfs : schema.tpdfs[j].name = schema.tpdfs[k].name => j = k
      /\ \A j \in DOMAIN schema.tpdfs : schema.tpdfs[j] \in Range(schema.tpdfs)
  BY <1>1, TypedefNames
<1>7. \A j \in DOMAIN schema.tpdfs : (HasRead(j)' <=> (HasRead(j) \/ j = n)) /\ (HasRead(j) => j # n)
  BY <1>2, <1>3 DEF HasRead
<1>8. schema.tpdfs[n].name \notin base
  BY <1>1, <1>4, <1>6, <1>7 DEF TypeInv
<1>9. ReadInv'
  <2>1. (\A k : Root(k)' = Root(k) /\ Section(k)' = Section(k)) /\ DataAt' = DataAt
    BY <1>2 DEF Root, Section, DataAt
  <2>2. pos' \in 0..Len(Section(at))
    BY <1>2, <1>3, <1>4
  <2> QED
    BY <1>1, <1>2, <2>1, <2>2 DEF ReadInv
<1>10. TodoInv' /\ TreeInv' /\ CopyInv'
  <2>1. \A k \in 1..DataAt : \A j \in DOMAIN Section(k) : IsRead(k, j)' <=> IsRead(k, j)
    BY <1>2, <1>3 DEF IsRead
  <2>2. at' \in Nat /\ at' >= at
    BY <1>2
  <2> QED
    BY <1>2, <2>1, <2>2, IdleKept
<1>11. CountInv'
  BY <1>2 DEF CountInv
<1>12. /\ unres \in Seq(Items)
       /\ \A k \in DOMAIN unres :
            /\ unres[k].kind \in {"typedef", "type", "uses"}
            /\ unres[k].kind = "typedef" =>
                 /\ \E j \in DOMAIN schema.tpdfs : unres[k].item = schema.tpdfs[j] /\ HasRead(j)
                 /\ unres[k].done <=> unres[k].item.name \in base
            /\ unres[k].kind = "type" => /\ unres[k].item \in DOMAIN tree /\ tree[unres[k].item].kind = "leaf"
                                         /\ unres[k].done <=> tree[unres[k].item].res
            /\ unres[k].kind = "uses" => /\ unres[k].item \in DOMAIN tree /\ tree[unres[k].item].kind = "uses"
                                         /\ Len(unres[k].item) = 2
                                         /\ unres[k].done <=> tree[unres[k].item].res
            /\ Waits(k) => \A l \in DOMAIN todo : todo[l].path = unres[k].item => k = i /\ ~todo[l].first
       /\ \A k, l \in DOMAIN unres : Waits(k) /\ Waits(l) /\ unres[k].item = unres[l].item => k = l
       /\ \A k, l \in DOMAIN unres :
            unres[k].kind = "typedef" /\ unres[l].kind = "typedef" /\ unres[k].item = unres[l].item => k = l
  BY <1>1, ListFacts
<1>13. DOMAIN todo' = {} /\ Items' = Items /\ TypeEdges' = TypeEdges
  BY <1>2 DEF Items, TypeEdges
<1>14. /\ \A t \in base : \E j \in DOMAIN schema.tpdfs : schema.tpdfs[j].name = t /\ HasRead(j)
       /\ \A t \in base : t \notin Reach(TypeEdges, t) /\ Reach(TypeEdges, t) \subseteq base \cup Builtin
       /\ \A k \in DOMAIN schema.tpdfs : HasRead(k) =>
            \/ schema.tpdfs[k].name \in base
            \/ \E l \in DOMAIN unres :
                 unres[l].kind = "typedef" /\ ~unres[l].done /\ unres[l].item = schema.tpdfs[k]
       /\ \A p \in DOMAIN tree : tree[p].kind = "leaf" /\ tree[p].res => tree[p].arg \in base \cup Builtin
  BY <1>1 DEF TypeInv
<1>15. CASE TypeKnown(schema.tpdfs[n].type) /\ base' = base \cup {schema.tpdfs[n].name} /\ unres' = unres
  <2>1. \A k : Waits(k)' <=> Waits(k)
    BY <1>15 DEF Waits
  <2>2. \A k \in DOMAIN unres : unres[k].kind = "typedef" =>
          /\ \E j \in DOMAIN schema.tpdfs : unres[k].item = schema.tpdfs[j] /\ HasRead(j)'
          /\ unres[k].done <=> unres[k].item.name \in base'
    BY <1>4, <1>6, <1>7, <1>12, <1>15
  <2>3. UnresInv'
    BY <1>2, <1>12, <1>13, <1>15, <2>1, <2>2 DEF UnresInv
  <2>4. Covered' /\ NacmInv'
    BY <1>1, <1>2, <1>15 DEF Covered, NacmInv, Waiting, Grps
  <2>5. \A t \in base' : t \notin Reach(TypeEdges, t) /\ Reach(TypeEdges, t) \subseteq base' \cup Builtin
    BY <1>1, <1>4, <1>8, <1>15, BaseKnown
  <2>6. \A t \in base' : \E j \in DOMAIN schema.tpdfs : schema.tpdfs[j].name = t /\ HasRead(j)'
    BY <1>4, <1>7, <1>14, <1>15
  <2>7. \A k \in DOMAIN schema.tpdfs : HasRead(k)' =>
          \/ schema.tpdfs[k].name \in base'
          \/ \E l \in DOMAIN unres :
               unres[l].kind = "typedef" /\ ~unres[l].done /\ unres[l].item = schema.tpdfs[k]
    BY <1>7, <1>14, <1>15
  <2>8. TypeInv'
    BY <1>2, <1>13, <1>14, <1>15, <2>5, <2>6, <2>7 DEF TypeInv
  <2> QED
    BY <1>9, <1>10, <1>11, <2>3, <2>4, <2>8 DEF CopyInvs
<1>16. CASE base' = base /\ unres' = Append(unres, e)
  <2>1. e \in Items
    BY <1>4, <1>6 DEF Items
  <2>m. PICK m : m = Len(unres) + 1
    OBVIOUS
  <2>2. /\ unres' \in Seq(Items) /\ DOMAIN unres' = DOMAIN unres \cup {m} /\ m \notin DOMAIN unres
        /\ unres'[m] = e
        /\ \A k \in DOMAIN unres : unres'[k] = unres[k] /\ k \in DOMAIN unres'
    BY <1>12, <1>16, <2>1, <2>m, AppendItem
  <2>3. e.kind = "typedef" /\ e.item = schema.tpdfs[n] /\ e.done = FALSE
    OBVIOUS
  <2> HIDE DEF e
  <2>4. ~Waits(m)' /\ \A k \in DOMAIN unres : Waits(k)' <=> Waits(k)
    BY <2>2, <2>3 DEF Waits
  <2>5. \A k \in DOMAIN unres' :
          /\ unres'[k].kind = "typedef" =>
               /\ \E j \in DOMAIN schema.tpdfs : unres'[k].item = schema.tpdfs[j] /\ HasRead(j)'
               /\ unres'[k].done <=> unres'[k].item.name \in base
    BY <1>4, <1>7, <1>8, <1>12, <2>2, <2>3
  <2>6. \A k \in DOMAIN unres' :
          /\ unres'[k].kind = "type" => /\ unres'[k].item \in DOMAIN tree /\ tree[unres'[k].item].kind = "leaf"
                                        /\ unres'[k].done <=> tree[unres'[k].item].res
          /\ unres'[k].kind = "uses" => /\ unres'[k].item \in DOMAIN tree /\ tree[unres'[k].item].kind = "uses"
                                        /\ Len(unres'[k].item) = 2
                                        /\ unres'[k].done <=> tree[unres'[k].item].res
    BY <1>12, <2>2, <2>3
  <2>7. \A k, l \in DOMAIN unres' : Waits(k)' /\ Waits(l)' /\ unres'[k].item = unres'[l].item => k = l
    BY <1>12, <2>2, <2>4
  <2>8. \A k \in DOMAIN unres : unres[k].kind = "typedef" => unres[k].item # schema.tpdfs[n]
    BY <1>4, <1>6, <1>7, <1>12
  <2>9. \A k, l \in DOMAIN unres' :
          unres'[k].kind = "typedef" /\ unres'[l].kind = "typedef" /\ unres'[k].item = unres'[l].item => k = l
    BY <1>12, <2>2, <2>3, <2>8
  <2>10. UnresInv'
    BY <1>2, <1>13, <1>16, <2>2, <2>5, <2>6, <2>7, <2>9 DEF UnresInv
  <2>11. Covered'
    BY <1>1, <1>2, <2>2 DEF Covered
  <2>12. \A g : Waiting(g)' = Waiting(g)
    BY <2>2, <2>3 DEF Waiting
  <2>13. NacmInv'
    BY <1>1, <1>2, <2>12 DEF NacmInv, Grps
  <2>14. \A k \in DOMAIN schema.tpdfs : HasRead(k)' =>
           \/ schema.tpdfs[k].name \in base
           \/ \E l \in DOMAIN unres' :
                unres'[l].kind = "typedef" /\ ~unres'[l].done /\ unres'[l].item = schema.tpdfs[k]
    <3> SUFFICES ASSUME NEW k \in DOMAIN schema.tpdfs, HasRead(k)', schema.tpdfs[k].name \notin base
                 PROVE  \E l \in DOMAIN unres' :
                          unres'[l].kind = "typedef" /\ ~unres'[l].done /\ unres'[l].item = schema.tpdfs[k]
      OBVIOUS
    <3>1. CASE k = n
      BY <2>2, <2>3, <3>1
    <3>2. CASE HasRead(k)
      BY <1>14, <2>2, <3>2
    <3> QED
      BY <1>7, <3>1, <3>2
  <2>15. TypeInv'
    BY <1>2, <1>7, <1>13, <1>14, <1>16, <2>14 DEF TypeInv
  <2> QED
    BY <1>9, <1>10, <1>11, <2>10, <2>11, <2>13, <2>15 DEF CopyInvs
<1> QED
  BY <1>5, <1>15, <1>16

\* A typedef from the list gets its base.
LEMMA StepTypedefLater ==
  ASSUME CopyInvs, CountInv, status = "resolve", todo = << >>, i <= Len(unres),
         ~unres[i].done, unres[i].kind = "typedef", TypeKnown(unres[i].item.type),
         unres' = [unres EXCEPT ![i].done = TRUE], base' = base \cup {unres[i].item.name},
         i' = i + 1, unres_count' = unres_count + 1, res_count' = res_count + 1,
         UNCHANGED <<schema, at, pos, grps, nacm, tree, todo, status>>
  PROVE  CopyInvs' /\ CountInv'
<1>1. /\ ReadInv /\ TreeInv /\ TodoInv /\ UnresInv /\ Covered /\ CopyInv /\ NacmInv /\ TypeInv
      /\ schema \in Schemas
  BY DEF CopyInvs, ReadInv
<1>2. i \in DOMAIN unres
  BY TurnFacts
<1>3. at = DataAt /\ pos = Len(schema.data)
  BY <1>1 DEF ReadInv
<1>4. /\ ReadInv' /\ at' \in Nat /\ at' >= at
      /\ \A k, j : IsRead(k, j)' <=> IsRead(k, j)
      /\ \A j : HasRead(j)' <=> HasRead(j)
  BY <1>3, NoRead
<1>5. TodoInv' /\ TreeInv' /\ CopyInv'
  BY <1>4, IdleKept
<1>6. CountInv'
  BY CountOne
<1>12. /\ unres \in Seq(Items)
       /\ \A k \in DOMAIN unres :
            /\ unres[k].kind \in {"typedef", "type", "uses"}
            /\ unres[k].kind = "typedef" =>
                 /\ \E j \in DOMAIN schema.tpdfs : unres[k].item = schema.tpdfs[j] /\ HasRead(j)
                 /\ unres[k].done <=> unres[k].item.name \in base
            /\ unres[k].kind = "type" => /\ unres[k].item \in DOMAIN tree /\ tree[unres[k].item].kind = "leaf"
                                         /\ unres[k].done <=> tree[unres[k].item].res
            /\ unres[k].kind = "uses" => /\ unres[k].item \in DOMAIN tree /\ tree[unres[k].item].kind = "uses"
                                         /\ Len(unres[k].item) = 2
                                         /\ unres[k].done <=> tree[unres[k].item].res
            /\ Waits(k) => \A l \in DOMAIN todo : todo[l].path = unres[k].item => k = i /\ ~todo[l].first
       /\ \A k, l \in DOMAIN unres : Waits(k) /\ Waits(l) /\ unres[k].item = unres[l].item => k = l
       /\ \A k, l \in DOMAIN unres :
            unres[k].kind = "typedef" /\ unres[l].kind = "typedef" /\ unres[k].item = unres[l].item => k = l
  BY <1>1, ListFacts
<1>14. /\ \A t \in base : \E j \in DOMAIN schema.tpdfs : schema.tpdfs[j].name = t /\ HasRead(j)
       /\ \A t \in base : t \notin Reach(TypeEdges, t) /\ Reach(TypeEdges, t) \subseteq base \cup Builtin
       /\ \A k \in DOMAIN schema.tpdfs : HasRead(k) =>
            \/ schema.tpdfs[k].name \in base
            \/ \E l \in DOMAIN unres :
                 unres[l].kind = "typedef" /\ ~unres[l].done /\ unres[l].item = schema.tpdfs[k]
       /\ \A p \in DOMAIN tree : tree[p].kind = "leaf" /\ tree[p].res => tree[p].arg \in base \cup Builtin
  BY <1>1 DEF TypeInv
<1>7. /\ unres' \in Seq(Items) /\ DOMAIN unres' = DOMAIN unres
      /\ \A k \in DOMAIN unres : k # i => unres'[k] = unres[k]
      /\ unres'[i].kind = "typedef" /\ unres'[i].item = unres[i].item /\ unres'[i].done
  BY <1>2, <1>12, DoneItem
<1>8. PICK n \in DOMAIN schema.tpdfs : unres[i].item = schema.tpdfs[n] /\ schema.tpdfs[n].name \notin base
  BY <1>2, <1>12
<1>9. \A j, k \in DOMAIN schema.tpdfs : schema.tpdfs[j].name = schema.tpdfs[k].name => j = k
  BY <1>1, TypedefNames
<1>10. (\A k \in DOMAIN unres : Waits(k)' <=> Waits(k)) /\ Items' = Items /\ TypeEdges' = TypeEdges /\ DOMAIN todo' = {}
  BY <1>2, <1>7 DEF Waits, Items, TypeEdges
<1>11. base' = base \cup {schema.tpdfs[n].name}
  BY <1>8
<1>13. UnresInv'
  <2>1. ASSUME NEW k \in DOMAIN unres, unres[k].kind = "typedef"
        PROVE  /\ \E j \in DOMAIN schema.tpdfs : unres[k].item = schema.tpdfs[j] /\ HasRead(j)'
               /\ unres'[k].done <=> unres[k].item.name \in base'
    <3>1. PICK j \in DOMAIN schema.tpdfs : unres[k].item = schema.tpdfs[j] /\ HasRead(j)
      BY <1>12, <2>1
    <3>2. unres[k].done <=> unres[k].item.name \in base
      BY <1>12, <2>1
    <3>3. CASE k = i
      BY <1>4, <1>7, <1>8, <1>11, <3>1, <3>3
    <3>4. CASE k # i
      <4>1. unres[k].item # unres[i].item
        BY <1>2, <1>12, <2>1, <3>4
      <4>2. schema.tpdfs[j].name # schema.tpdfs[n].name
        BY <1>8, <1>9, <3>1, <4>1
      <4> QED
        BY <1>4, <1>7, <1>11, <3>1, <3>2, <3>4, <4>2
    <3> QED
      BY <3>3, <3>4
  <2>2. \A k \in DOMAIN unres : unres'[k].kind = unres[k].kind /\ unres'[k].item = unres[k].item
    BY <1>7
  <2>3. \A k \in DOMAIN unres : unres[k].kind # "typedef" => unres'[k] = unres[k]
    BY <1>7
  <2> QED
    BY <1>7, <1>10, <1>12, <2>1, <2>2, <2>3 DEF UnresInv
<1>15. Covered'
  <2> SUFFICES ASSUME NEW q \in DOMAIN tree, ~tree[q].res
               PROVE  \E k \in DOMAIN unres' : unres'[k].kind # "typedef" /\ ~unres'[k].done /\ unres'[k].item = q
    BY DEF Covered
  <2>1. PICK k \in DOMAIN unres : unres[k].kind # "typedef" /\ ~unres[k].done /\ unres[k].item = q
    BY <1>1 DEF Covered
  <2> QED
    BY <1>7, <2>1
<1>16. NacmInv'
  <2>1. \A g : Waiting(g)' = Waiting(g)
    BY <1>2, <1>7 DEF Waiting
  <2> QED
    BY <1>1, <2>1 DEF NacmInv, Grps
<1>17. TypeInv'
  <2>1. \A t \in base' : t \notin Reach(TypeEdges, t) /\ Reach(TypeEdges, t) \subseteq base' \cup Builtin
    <3>1. TypeKnown(schema.tpdfs[n].type)
      BY <1>8
    <3>2. PICK t : t = schema.tpdfs[n].name
      OBVIOUS
    <3> QED
      BY <1>1, <1>8, <1>11, <3>1, <3>2, BaseKnown
  <2>2. \A t \in base' : \E j \in DOMAIN schema.tpdfs : schema.tpdfs[j].name = t /\ HasRead(j)'
    <3>1. HasRead(n)
      <4>1. at > 0
        BY <1>1, <1>3, SchemaFacts
      <4> QED
        BY <4>1 DEF HasRead
    <3> QED
      BY <1>4, <1>8, <1>11, <1>14, <3>1
  <2>3. ASSUME NEW k \in DOMAIN schema.tpdfs, HasRead(k)', schema.tpdfs[k].name \notin base'
        PROVE  \E l \in DOMAIN unres' :
                 unres'[l].kind = "typedef" /\ ~unres'[l].done /\ unres'[l].item = schema.tpdfs[k]
    <3>1. PICK l \in DOMAIN unres : unres[l].kind = "typedef" /\ ~unres[l].done /\ unres[l].item = schema.tpdfs[k]
      BY <1>4, <1>14, <2>3
    <3>2. l # i
      BY <1>8, <1>11, <2>3, <3>1
    <3> QED
      BY <1>7, <3>1, <3>2
  <2> QED
    BY <1>10, <1>14, <2>1, <2>2, <2>3 DEF TypeInv
<1> QED
  BY <1>4, <1>5, <1>6, <1>13, <1>15, <1>16, <1>17 DEF CopyInvs

\* A leaf from the list gets its type.
LEMMA StepLeafLater ==
  ASSUME CopyInvs, CountInv, status = "resolve", todo = << >>, i <= Len(unres),
         ~unres[i].done, unres[i].kind = "type", TypeKnown(tree[unres[i].item].arg),
         unres' = [unres EXCEPT ![i].done = TRUE], tree' = [tree EXCEPT ![unres[i].item].res = TRUE],
         i' = i + 1, unres_count' = unres_count + 1, res_count' = res_count + 1,
         UNCHANGED <<schema, at, pos, base, grps, nacm, todo, status>>
  PROVE  CopyInvs' /\ CountInv'
<1>1. /\ ReadInv /\ TreeInv /\ TodoInv /\ UnresInv /\ Covered /\ CopyInv /\ NacmInv /\ TypeInv
      /\ schema \in Schemas
  BY DEF CopyInvs, ReadInv
<1>2. i \in DOMAIN unres
  BY TurnFacts
<1>3. at = DataAt /\ pos = Len(schema.data)
  BY <1>1 DEF ReadInv
<1>4. /\ ReadInv' /\ \A j : HasRead(j)' <=> HasRead(j)
  BY <1>3, NoRead
<1>6. CountInv'
  BY CountOne
<1>12. /\ unres \in Seq(Items)
       /\ \A k \in DOMAIN unres :
            /\ unres[k].kind \in {"typedef", "type", "uses"}
            /\ unres[k].kind = "typedef" =>
                 /\ \E j \in DOMAIN schema.tpdfs : unres[k].item = schema.tpdfs[j] /\ HasRead(j)
                 /\ unres[k].done <=> unres[k].item.name \in base
            /\ unres[k].kind = "type" => /\ unres[k].item \in DOMAIN tree /\ tree[unres[k].item].kind = "leaf"
                                         /\ unres[k].done <=> tree[unres[k].item].res
            /\ unres[k].kind = "uses" => /\ unres[k].item \in DOMAIN tree /\ tree[unres[k].item].kind = "uses"
                                         /\ Len(unres[k].item) = 2
                                         /\ unres[k].done <=> tree[unres[k].item].res
            /\ Waits(k) => \A l \in DOMAIN todo : todo[l].path = unres[k].item => k = i /\ ~todo[l].first
       /\ \A k, l \in DOMAIN unres : Waits(k) /\ Waits(l) /\ unres[k].item = unres[l].item => k = l
       /\ \A k, l \in DOMAIN unres :
            unres[k].kind = "typedef" /\ unres[l].kind = "typedef" /\ unres[k].item = unres[l].item => k = l
  BY <1>1, ListFacts
<1>14. /\ \A t \in base : \E j \in DOMAIN schema.tpdfs : schema.tpdfs[j].name = t /\ HasRead(j)
       /\ \A t \in base : t \notin Reach(TypeEdges, t) /\ Reach(TypeEdges, t) \subseteq base \cup Builtin
       /\ \A k \in DOMAIN schema.tpdfs : HasRead(k) =>
            \/ schema.tpdfs[k].name \in base
            \/ \E l \in DOMAIN unres :
                 unres[l].kind = "typedef" /\ ~unres[l].done /\ unres[l].item = schema.tpdfs[k]
       /\ \A p \in DOMAIN tree : tree[p].kind = "leaf" /\ tree[p].res => tree[p].arg \in base \cup Builtin
  BY <1>1 DEF TypeInv
<1>7. /\ unres' \in Seq(Items) /\ DOMAIN unres' = DOMAIN unres
      /\ \A k \in DOMAIN unres : k # i => unres'[k] = unres[k]
      /\ unres'[i].kind = unres[i].kind /\ unres'[i].item = unres[i].item /\ unres'[i].done
  BY <1>2, <1>12, DoneItem
<1>8. PICK p \in DOMAIN tree : unres[i].item = p /\ tree[p].kind = "leaf" /\ ~tree[p].res
  BY <1>2, <1>12
<1>9. SameShape /\ tree'[p].res /\ \A q \in DOMAIN tree : q # p => tree'[q] = tree[q]
  BY <1>1, <1>8, ResolveOne
<1>10. /\ DOMAIN tree' = DOMAIN tree
       /\ \A q \in DOMAIN tree : tree'[q].kind = tree[q].kind /\ tree'[q].arg = tree[q].arg
  BY <1>9 DEF SameShape
<1>5. TreeInv' /\ CopyInv'
  <2>1. \A q \in DOMAIN tree : tree[q].kind = "uses" => (Copied(q)' <=> Copied(q))
    <3> SUFFICES ASSUME NEW q \in DOMAIN tree, tree[q].kind = "uses" PROVE Copied(q)' <=> Copied(q)
      OBVIOUS
    <3>1. tree'[q] = tree[q]
      BY <1>8, <1>9
    <3> QED
      BY <3>1 DEF Copied
  <2> QED
    BY <1>1, <1>9, <2>1, ShapeKept
<1>11. TodoInv'
  <2>1. DOMAIN todo' = {}
    OBVIOUS
  <2>2. todo' \in Seq([op : {"try", "end"}, path : DOMAIN tree', first : BOOLEAN])
    OBVIOUS
  <2> QED
    BY <2>1, <2>2 DEF TodoInv
<1>13. UnresInv'
  <2>1. \A k \in DOMAIN unres : unres[k].kind # "typedef" /\ k # i => unres[k].item # p
    <3> SUFFICES ASSUME NEW k \in DOMAIN unres, unres[k].kind # "typedef", unres[k].item = p PROVE k = i
      OBVIOUS
    <3>1. ~unres[k].done
      BY <1>8, <1>12
    <3>2. Waits(k) /\ Waits(i)
      BY <3>1 DEF Waits
    <3> QED
      BY <1>2, <1>8, <1>12, <3>2
  <2>2. \A k \in DOMAIN unres : unres'[k].kind = unres[k].kind /\ unres'[k].item = unres[k].item
    BY <1>7
  <2>3. \A k \in DOMAIN unres : unres[k].kind = "typedef" => unres'[k] = unres[k]
    BY <1>7
  <2>4. ASSUME NEW k \in DOMAIN unres
        PROVE  /\ unres'[k].kind = "type" => /\ unres'[k].item \in DOMAIN tree' /\ tree'[unres'[k].item].kind = "leaf"
                                             /\ unres'[k].done <=> tree'[unres'[k].item].res
               /\ unres'[k].kind = "uses" => /\ unres'[k].item \in DOMAIN tree' /\ tree'[unres'[k].item].kind = "uses"
                                             /\ Len(unres'[k].item) = 2
                                             /\ unres'[k].done <=> tree'[unres'[k].item].res
    <3>1. CASE k = i
      BY <1>7, <1>8, <1>9, <1>10, <3>1
    <3>2. CASE k # i /\ unres[k].kind # "typedef"
      <4>1. unres'[k] = unres[k] /\ unres[k].item # p
        BY <1>7, <2>1, <3>2
      <4>2. unres[k].item \in DOMAIN tree
        BY <1>12, <3>2
      <4>3. tree'[unres[k].item] = tree[unres[k].item]
        BY <1>9, <4>1, <4>2
      <4>4. /\ unres[k].kind = "type" => tree[unres[k].item].kind = "leaf" /\ (unres[k].done <=> tree[unres[k].item].res)
            /\ unres[k].kind = "uses" => /\ tree[unres[k].item].kind = "uses" /\ Len(unres[k].item) = 2
                                         /\ unres[k].done <=> tree[unres[k].item].res
        BY <1>12
      <4> QED
        BY <1>10, <4>1, <4>2, <4>3, <4>4
    <3>3. CASE unres[k].kind = "typedef"
      BY <2>2, <3>3
    <3> QED
      BY <3>1, <3>2, <3>3
  <2>5. /\ \A k \in DOMAIN unres : Waits(k)' => Waits(k)
        /\ Items' = Items /\ DOMAIN todo' = {}
    <3>1. \A k \in DOMAIN unres : Waits(k)' => Waits(k)
      BY <1>7 DEF Waits
    <3>2. Items' = Items
      BY <1>10 DEF Items
    <3> QED
      BY <3>1, <3>2
  <2>6. \A k, l \in DOMAIN unres' : Waits(k)' /\ Waits(l)' /\ unres'[k].item = unres'[l].item => k = l
    BY <1>7, <1>12, <2>2, <2>5
  <2>7. \A k, l \in DOMAIN unres' :
          unres'[k].kind = "typedef" /\ unres'[l].kind = "typedef" /\ unres'[k].item = unres'[l].item => k = l
    BY <1>7, <1>12, <2>2
  <2>8. \A k \in DOMAIN unres' : unres'[k].kind = "typedef" =>
          /\ \E j \in DOMAIN schema.tpdfs : unres'[k].item = schema.tpdfs[j] /\ HasRead(j)'
          /\ unres'[k].done <=> unres'[k].item.name \in base
    BY <1>4, <1>7, <1>12, <2>2, <2>3
  <2> QED
    BY <1>7, <2>4, <2>5, <2>6, <2>7, <2>8 DEF UnresInv
<1>15. Covered'
  <2> SUFFICES ASSUME NEW q \in DOMAIN tree', ~tree'[q].res
               PROVE  \E k \in DOMAIN unres' : unres'[k].kind # "typedef" /\ ~unres'[k].done /\ unres'[k].item = q
    BY DEF Covered
  <2>1. q \in DOMAIN tree /\ q # p /\ ~tree[q].res
    BY <1>9, <1>10
  <2>2. PICK k \in DOMAIN unres : unres[k].kind # "typedef" /\ ~unres[k].done /\ unres[k].item = q
    BY <1>1, <2>1 DEF Covered
  <2> QED
    BY <1>7, <1>8, <2>1, <2>2
<1>16. NacmInv'
  <2>1. \A g : Waiting(g)' = Waiting(g)
    BY <1>2, <1>7 DEF Waiting
  <2> QED
    BY <1>1, <2>1 DEF NacmInv, Grps
<1>17. TypeInv'
  <2>1. TypeEdges' = TypeEdges
    BY DEF TypeEdges
  <2>2. ASSUME NEW q \in DOMAIN tree', tree'[q].kind = "leaf", tree'[q].res PROVE tree'[q].arg \in base \cup Builtin
    <3>1. CASE q = p
      BY <1>8, <1>10, <3>1 DEF TypeKnown
    <3>2. CASE q # p
      <4>1. q \in DOMAIN tree /\ tree'[q] = tree[q]
        BY <1>9, <1>10, <2>2, <3>2
      <4>2. tree[q].kind = "leaf" /\ tree[q].res
        BY <2>2, <4>1
      <4> QED
        BY <1>1, <4>1, <4>2 DEF TypeInv
    <3> QED
      BY <3>1, <3>2
  <2>3. \A k \in DOMAIN schema.tpdfs : HasRead(k)' =>
          \/ schema.tpdfs[k].name \in base
          \/ \E l \in DOMAIN unres' :
               unres'[l].kind = "typedef" /\ ~unres'[l].done /\ unres'[l].item = schema.tpdfs[k]
    <3>1. \A l \in DOMAIN unres : unres[l].kind = "typedef" => unres'[l] = unres[l]
      BY <1>7
    <3> QED
      BY <1>4, <1>7, <1>14, <3>1
  <2> QED
    BY <1>4, <1>14, <2>1, <2>2, <2>3 DEF TypeInv
<1> QED
  BY <1>4, <1>5, <1>6, <1>11, <1>13, <1>15, <1>16, <1>17 DEF CopyInvs

\* resolve_uses has returned for a uses from the list: the number of its grouping
\* is not 0, and is one less.
LEMMA StepUsesLater ==
  ASSUME CopyInvs, CountInv, UsesResolved, ~Head(todo).first
  PROVE  CopyInvs' /\ CountInv'
<1>1. /\ ReadInv /\ TreeInv /\ TodoInv /\ UnresInv /\ Covered /\ CopyInv /\ NacmInv /\ TypeInv
      /\ schema \in Schemas /\ todo # << >> /\ status \in {"parse", "resolve"}
  BY DEF CopyInvs, ReadInv, UsesResolved, Calling
<1>2. /\ Len(todo) \in Nat \ {0} /\ DOMAIN todo = 1..Len(todo) /\ 1 \in DOMAIN todo /\ Head(todo) = todo[1]
      /\ Len(Tail(todo)) = Len(todo) - 1 /\ Head(todo).path \in DOMAIN tree
      /\ Tail(todo) \in Seq([op : {"try", "end"}, path : DOMAIN tree, first : BOOLEAN])
  BY <1>1, HeadFacts
<1>3. PICK p \in DOMAIN tree : p = Head(todo).path
  BY <1>2
<1>4. /\ Len(todo) = 1 /\ i \in DOMAIN unres /\ IsUses(i) /\ unres[i].item = p /\ status = "resolve"
      /\ ~tree[p].res /\ todo[1].op = "end" /\ tree[p].kind = "uses"
  <2>1. ~todo[1].first /\ todo[1].path = p
    BY <1>2, <1>3
  <2>2. todo[1].op = "end"
    BY <1>2 DEF UsesResolved
  <2>3. /\ ~tree[p].res /\ tree[p].kind = "uses"
        /\ status = "parse" => todo[1].first
        /\ 1 = Len(todo) /\ i \in DOMAIN unres /\ IsUses(i) /\ unres[i].item = p
    BY <1>1, <1>2, <2>1, <2>2 DEF TodoInv
  <2> QED
    BY <1>1, <2>1, <2>2, <2>3
<1>5. Tail(todo) = << >> /\ DOMAIN todo = {1}
  <2>1. Len(Tail(todo)) = 0
    BY <1>2, <1>4
  <2>2. Tail(todo) = << >>
    BY <1>2, <2>1, EmptySeq
  <2>3. DOMAIN todo = {1}
    BY <1>2, <1>4
  <2> QED
    BY <2>2, <2>3
<1>6. Len(unres) \in Nat /\ DOMAIN unres = 1..Len(unres) /\ i <= Len(unres)
  <2>1. unres \in Seq(Items)
    BY <1>1 DEF UnresInv
  <2>2. Len(unres) \in Nat /\ DOMAIN unres = 1..Len(unres)
    BY <2>1, LenProperties
  <2> QED
    BY <1>4, <2>2
<1>7. p[1] \in Roots
  BY <1>1, <1>3 DEF TreeInv, IsPath
<1>8. \A g : IsFiniteSet(Waiting(g)) /\ Cardinality(Waiting(g)) \in Nat
  BY <1>1, WaitingFacts
<1>9. i \in Waiting(p[1])
  BY <1>4 DEF IsUses, Waiting
<1>10. p[1] # Data => p[1] \in Grps /\ nacm[p[1]] # 0 /\ nacm[p[1]] \in 0..(NacmMod - 1)
  <2>1. Waiting(p[1]) # {} => Cardinality(Waiting(p[1])) # 0
    BY <1>8, FS_EmptySet
  <2>2. p[1] # Data => p[1] \in Grps
    BY <1>7 DEF Roots
  <2> QED
    BY <1>1, <1>9, <2>1, <2>2 DEF NacmInv
<1>11. /\ nacm' = (IF p[1] = Data THEN nacm ELSE [nacm EXCEPT ![p[1]] = @ - 1])
       /\ tree' = [tree EXCEPT ![p].res = TRUE] /\ unres' = [unres EXCEPT ![i].done = TRUE]
       /\ i' = i + 1 /\ res_count' = res_count + 1 /\ todo' = << >>
       /\ UNCHANGED <<schema, at, pos, base, grps, unres_count, status>>
  BY <1>3, <1>5, <1>10 DEF UsesResolved
<1>12. /\ unres \in Seq(Items)
       /\ \A k \in DOMAIN unres :
            /\ unres[k].kind \in {"typedef", "type", "uses"}
            /\ unres[k].kind = "typedef" =>
                 /\ \E j \in DOMAIN schema.tpdfs : unres[k].item = schema.tpdfs[j] /\ HasRead(j)
                 /\ unres[k].done <=> unres[k].item.name \in base
            /\ unres[k].kind = "type" => /\ unres[k].item \in DOMAIN tree /\ tree[unres[k].item].kind = "leaf"
                                         /\ unres[k].done <=> tree[unres[k].item].res
            /\ unres[k].kind = "uses" => /\ unres[k].item \in DOMAIN tree /\ tree[unres[k].item].kind = "uses"
                                         /\ Len(unres[k].item) = 2
                                         /\ unres[k].done <=> tree[unres[k].item].res
            /\ Waits(k) => \A l \in DOMAIN todo : todo[l].path = unres[k].item => k = i /\ ~todo[l].first
       /\ \A k, l \in DOMAIN unres : Waits(k) /\ Waits(l) /\ unres[k].item = unres[l].item => k = l
       /\ \A k, l \in DOMAIN unres :
            unres[k].kind = "typedef" /\ unres[l].kind = "typedef" /\ unres[k].item = unres[l].item => k = l
  BY <1>1, ListFacts
<1>14. /\ \A t \in base : \E j \in DOMAIN schema.tpdfs : schema.tpdfs[j].name = t /\ HasRead(j)
       /\ \A t \in base : t \notin Reach(TypeEdges, t) /\ Reach(TypeEdges, t) \subseteq base \cup Builtin
       /\ \A k \in DOMAIN schema.tpdfs : HasRead(k) =>
            \/ schema.tpdfs[k].name \in base
            \/ \E l \in DOMAIN unres :
                 unres[l].kind = "typedef" /\ ~unres[l].done /\ unres[l].item = schema.tpdfs[k]
       /\ \A q \in DOMAIN tree : tree[q].kind = "leaf" /\ tree[q].res => tree[q].arg \in base \cup Builtin
  BY <1>1 DEF TypeInv
<1>13. /\ unres' \in Seq(Items) /\ DOMAIN unres' = DOMAIN unres
       /\ \A k \in DOMAIN unres : k # i => unres'[k] = unres[k]
       /\ unres'[i].kind = unres[i].kind /\ unres'[i].item = unres[i].item /\ unres'[i].done
  BY <1>4, <1>11, <1>12, DoneItem
<1>15. SameShape /\ tree'[p].res /\ \A q \in DOMAIN tree : q # p => tree'[q] = tree[q]
  BY <1>1, <1>11, ResolveOne
<1>16. /\ DOMAIN tree' = DOMAIN tree
       /\ \A q \in DOMAIN tree : tree'[q].kind = tree[q].kind /\ tree'[q].arg = tree[q].arg
  BY <1>15 DEF SameShape
<1>17. TreeInv' /\ CopyInv'
  <2>1. \A q \in DOMAIN tree : tree[q].kind = "uses" => (Copied(q)' <=> Copied(q))
    <3> SUFFICES ASSUME NEW q \in DOMAIN tree, tree[q].kind = "uses" PROVE Copied(q)' <=> Copied(q)
      OBVIOUS
    <3>1. CASE q = p
      BY <1>2, <1>3, <1>4, <1>15, <3>1 DEF Copied
    <3>2. CASE q # p
      <4>1. tree'[q] = tree[q] /\ DOMAIN todo' = {}
        BY <1>11, <1>15, <3>2
      <4>2. \A k \in DOMAIN todo : todo[k].path # q
        BY <1>2, <1>3, <1>5, <3>2
      <4> QED
        BY <4>1, <4>2 DEF Copied
    <3> QED
      BY <3>1, <3>2
  <2> QED
    BY <1>1, <1>11, <1>15, <2>1, ShapeKept
<1>18. TodoInv'
  <2>1. DOMAIN todo' = {}
    BY <1>11
  <2>2. todo' \in Seq([op : {"try", "end"}, path : DOMAIN tree', first : BOOLEAN])
    BY <1>11
  <2> QED
    BY <1>11, <2>1, <2>2 DEF TodoInv
<1>19. /\ ReadInv' /\ \A j : HasRead(j)' <=> HasRead(j)
  <2>1. at = DataAt /\ pos = Len(schema.data)
    BY <1>1, <1>4 DEF ReadInv
  <2> QED
    BY <1>4, <1>11, <2>1, NoRead
<1>20. CountInv'
  BY <1>1, <1>4, <1>6, <1>11, CountOne
<1>21. unres[i].kind = "uses" /\ ~unres[i].done
  BY <1>4 DEF IsUses
<1>22. UnresInv'
  <2>1. \A k \in DOMAIN unres : unres[k].kind # "typedef" /\ k # i => unres[k].item # p
    <3> SUFFICES ASSUME NEW k \in DOMAIN unres, unres[k].kind # "typedef", unres[k].item = p PROVE k = i
      OBVIOUS
    <3>1. ~unres[k].done
      BY <1>4, <1>12
    <3>2. Waits(k) /\ Waits(i)
      BY <1>21, <3>1 DEF Waits
    <3> QED
      BY <1>4, <1>12, <3>2
  <2>2. \A k \in DOMAIN unres : unres'[k].kind = unres[k].kind /\ unres'[k].item = unres[k].item
    BY <1>13
  <2>3. \A k \in DOMAIN unres : unres[k].kind = "typedef" => unres'[k] = unres[k]
    BY <1>13, <1>21
  <2>4. ASSUME NEW k \in DOMAIN unres
        PROVE  /\ unres'[k].kind = "type" => /\ unres'[k].item \in DOMAIN tree' /\ tree'[unres'[k].item].kind = "leaf"
                                             /\ unres'[k].done <=> tree'[unres'[k].item].res
               /\ unres'[k].kind = "uses" => /\ unres'[k].item \in DOMAIN tree' /\ tree'[unres'[k].item].kind = "uses"
                                             /\ Len(unres'[k].item) = 2
                                             /\ unres'[k].done <=> tree'[unres'[k].item].res
    <3>0. /\ unres[k].kind = "type" => tree[unres[k].item].kind = "leaf" /\ (unres[k].done <=> tree[unres[k].item].res)
          /\ unres[k].kind = "uses" => /\ tree[unres[k].item].kind = "uses" /\ Len(unres[k].item) = 2
                                       /\ unres[k].done <=> tree[unres[k].item].res
      BY <1>12
    <3>1. CASE k = i
      BY <1>4, <1>13, <1>15, <1>16, <1>21, <3>0, <3>1
    <3>2. CASE k # i /\ unres[k].kind # "typedef"
      <4>1. unres'[k] = unres[k] /\ unres[k].item # p
        BY <1>13, <2>1, <3>2
      <4>2. unres[k].item \in DOMAIN tree
        BY <1>12, <3>2
      <4>3. tree'[unres[k].item] = tree[unres[k].item]
        BY <1>15, <4>1, <4>2
      <4> QED
        BY <1>16, <3>0, <4>1, <4>2, <4>3
    <3>3. CASE unres[k].kind = "typedef"
      BY <2>2, <3>3
    <3> QED
      BY <3>1, <3>2, <3>3
  <2>5. /\ \A k \in DOMAIN unres : Waits(k)' => Waits(k)
        /\ Items' = Items /\ DOMAIN todo' = {}
    <3>1. \A k \in DOMAIN unres : Waits(k)' => Waits(k)
      BY <1>13 DEF Waits
    <3>2. Items' = Items
      BY <1>11, <1>16 DEF Items
    <3> QED
      BY <1>11, <3>1, <3>2
  <2>6. \A k, l \in DOMAIN unres' : Waits(k)' /\ Waits(l)' /\ unres'[k].item = unres'[l].item => k = l
    BY <1>12, <1>13, <2>2, <2>5
  <2>7. \A k, l \in DOMAIN unres' :
          unres'[k].kind = "typedef" /\ unres'[l].kind = "typedef" /\ unres'[k].item = unres'[l].item => k = l
    BY <1>12, <1>13, <2>2
  <2>8. \A k \in DOMAIN unres' : unres'[k].kind = "typedef" =>
          /\ \E j \in DOMAIN schema.tpdfs : unres'[k].item = schema.tpdfs[j] /\ HasRead(j)'
          /\ unres'[k].done <=> unres'[k].item.name \in base
    BY <1>12, <1>13, <1>19, <2>2, <2>3
  <2> QED
    BY <1>11, <1>13, <2>4, <2>5, <2>6, <2>7, <2>8 DEF UnresInv
<1>23. Covered'
  <2> SUFFICES ASSUME NEW q \in DOMAIN tree', ~tree'[q].res
               PROVE  \E k \in DOMAIN unres' : unres'[k].kind # "typedef" /\ ~unres'[k].done /\ unres'[k].item = q
    BY DEF Covered
  <2>1. q \in DOMAIN tree /\ q # p /\ ~tree[q].res
    BY <1>15, <1>16
  <2>2. \A k \in DOMAIN todo : todo[k].path # q
    BY <1>2, <1>3, <1>5, <2>1
  <2>3. PICK k \in DOMAIN unres : unres[k].kind # "typedef" /\ ~unres[k].done /\ unres[k].item = q
    BY <1>1, <2>1, <2>2 DEF Covered
  <2> QED
    BY <1>4, <1>13, <2>1, <2>3
<1>24. NacmInv'
  <2>1. Waiting(p[1])' = Waiting(p[1]) \ {i}
    BY <1>4, <1>13, <1>21 DEF Waiting
  <2>2. \A g : g # p[1] => Waiting(g)' = Waiting(g)
    BY <1>4, <1>13, <1>21 DEF Waiting
  <2>3. Cardinality(Waiting(p[1]) \ {i}) = Cardinality(Waiting(p[1])) - 1
    BY <1>8, <1>9, FS_RemoveElement
  <2>4. nacm \in [Grps -> 0..(NacmMod - 1)] /\ \A g \in Grps : nacm[g] = Cardinality(Waiting(g))
    BY <1>1 DEF NacmInv
  <2>5. Grps' = Grps
    BY <1>11 DEF Grps
  <2>6. CASE p[1] = Data
    <3>1. p[1] \notin Grps
      BY <1>1, <2>6, SchemaFacts
    <3> QED
      BY <1>11, <2>2, <2>4, <2>5, <2>6, <3>1 DEF NacmInv
  <2>7. CASE p[1] # Data
    <3>1. nacm[p[1]] - 1 \in 0..(NacmMod - 1)
      BY <1>10, <2>7, NacmType
    <3>2. nacm' = [nacm EXCEPT ![p[1]] = nacm[p[1]] - 1]
      BY <1>11, <2>7
    <3>3. nacm' \in [Grps -> 0..(NacmMod - 1)]
      BY <2>4, <3>1, <3>2
    <3>4. nacm'[p[1]] = nacm[p[1]] - 1 /\ \A g \in Grps : g # p[1] => nacm'[g] = nacm[g]
      BY <1>10, <2>4, <2>7, <3>2
    <3>5. \A g \in Grps : nacm'[g] = Cardinality(Waiting(g)')
      BY <1>10, <2>1, <2>2, <2>3, <2>4, <2>7, <3>4
    <3> QED
      BY <2>5, <3>3, <3>5 DEF NacmInv
  <2> QED
    BY <2>6, <2>7
<1>25. TypeInv'
  <2>1. TypeEdges' = TypeEdges
    BY <1>11 DEF TypeEdges
  <2>2. ASSUME NEW q \in DOMAIN tree', tree'[q].kind = "leaf", tree'[q].res PROVE tree'[q].arg \in base \cup Builtin
    <3>1. q # p
      BY <1>4, <1>16, <2>2
    <3> QED
      BY <1>14, <1>15, <1>16, <2>2, <3>1
  <2>3. \A k \in DOMAIN schema.tpdfs : HasRead(k)' =>
          \/ schema.tpdfs[k].name \in base
          \/ \E l \in DOMAIN unres' :
               unres'[l].kind = "typedef" /\ ~unres'[l].done /\ unres'[l].item = schema.tpdfs[k]
    <3>1. \A l \in DOMAIN unres : unres[l].kind = "typedef" => unres'[l] = unres[l]
      BY <1>13, <1>21
    <3> QED
      BY <1>13, <1>14, <1>19, <3>1
  <2> QED
    BY <1>11, <1>14, <1>19, <2>1, <2>2, <2>3 DEF TypeInv
<1> QED
  BY <1>17, <1>18, <1>19, <1>20, <1>22, <1>23, <1>24, <1>25 DEF CopyInvs

\* No more uses of a grouping wait than it has nodes, so a counter tells them all.
LEMMA WaitingBound ==
  ASSUME CountersSuffice, ReadInv, TreeInv, NEW g \in Grps, NEW W, NEW f \in [W -> DOMAIN tree],
         \A k \in W : Len(f[k]) = 2 /\ f[k][1] = g, \A k, l \in W : f[k] = f[l] => k = l
  PROVE  IsFiniteSet(W) /\ Cardinality(W) < NacmMod
<1>1. schema \in Schemas
  BY DEF ReadInv
<1>2. PICK n \in 1..Len(schema.grps) : Root(n) = g
  BY <1>1, SchemaFacts
<1>3. /\ n \in 1..DataAt /\ Section(n) = schema.grps[n].body /\ DOMAIN Section(n) = 1..Len(Section(n))
      /\ Len(Section(n)) \in Nat /\ n \in DOMAIN schema.grps
      /\ \A k, l \in 1..DataAt : Root(k) = Root(l) => k = l
  BY <1>1, SchemaFacts
<1>4. Len(Section(n)) < NacmMod
  BY <1>1, <1>3 DEF CountersSuffice
<1> DEFINE S == 1..Len(Section(n))
           h == [k \in W |-> f[k][2]]
<1>5. ASSUME NEW k \in W PROVE f[k] = <<g, f[k][2]>> /\ f[k][2] \in S
  <2>1. PICK p : p = f[k] /\ p \in DOMAIN tree /\ Len(p) = 2 /\ p[1] = g
    BY <1>5
  <2>2. PICK l \in 1..DataAt : \E j \in DOMAIN Section(l) : Stands(p, l, j)
    BY <2>1 DEF TreeInv
  <2>3. PICK j \in DOMAIN Section(l) : p = <<Root(l), j>>
    BY <2>2 DEF Stands
  <2>4. Root(l) = g /\ p[2] = j
    BY <2>1, <2>3
  <2>5. l = n
    BY <1>2, <1>3, <2>4
  <2> QED
    BY <1>3, <2>1, <2>3, <2>4, <2>5
<1>6. h \in [W -> S] /\ \A k, l \in W : h[k] = h[l] => k = l
  BY <1>5
<1>7. h \in Injection(W, S)
  BY <1>6 DEF Injection, IsInjective
<1>8. IsFiniteSet(S) /\ Cardinality(S) = Len(Section(n))
  <2>1. ASSUME NEW x \in Nat PROVE IsFiniteSet(1..x) /\ Cardinality(1..x) = x
    <3>1. IsFiniteSet(1..x) /\ Cardinality(1..x) = IF 1 > x THEN 0 ELSE x - 1 + 1
      BY FS_Interval
    <3> QED
      BY <3>1
  <2> QED
    BY <1>3, <2>1
<1>9. IsFiniteSet(W) /\ Cardinality(W) <= Cardinality(S)
  BY <1>7, <1>8, FS_Injection
<1>10. Cardinality(W) \in Nat
  BY <1>9, FS_CardinalityType
<1> QED
  BY <1>3, <1>4, <1>8, <1>9, <1>10, NacmType

\* A node that is not one of the nodes read lies below one.
LEMMA LongPath ==
  ASSUME NEW p, IsPath(p), Len(p) # 2
  PROVE  Len(p) > 2
<1>1. p \in Seq(Elem) /\ Len(p) >= 2
  BY DEF IsPath
<1>2. Len(p) \in Nat
  BY <1>1, LenProperties
<1>3. \A x \in Nat : x >= 2 /\ x # 2 => x > 2
  OBVIOUS
<1> QED
  BY <1>1, <1>2, <1>3

\* A counter below its limit does not wrap.
LEMMA SmallMod ==
  ASSUME NEW x \in Nat, NEW y \in Nat, x < y
  PROVE  x % y = x /\ x \in 0..(y - 1)
OBVIOUS

\* unres_schema_add_node puts a leaf or a uses on the list.
LEMMA StepQueued ==
  ASSUME CountersSuffice, CopyInvs, CountInv, Calling, Head(todo).op = "try", todo' = Tail(todo),
         NEW p, p = Head(todo).path, NEW e,
         \/ /\ tree[p].kind = "leaf" /\ nacm' = nacm
            /\ e = [kind |-> "type", item |-> p, done |-> FALSE]
         \/ /\ tree[p].kind = "uses" /\ ~Copyable(p) /\ nacm' = Incremented(p, TRUE)
            /\ e = [kind |-> "uses", item |-> p, done |-> FALSE],
         unres' = Append(unres, e),
         UNCHANGED <<schema, at, pos, base, grps, tree, i, unres_count, res_count, status>>
  PROVE  CopyInvs' /\ CountInv'
<1>1. /\ ReadInv /\ TreeInv /\ TodoInv /\ UnresInv /\ Covered /\ CopyInv /\ NacmInv /\ TypeInv
      /\ schema \in Schemas /\ todo # << >> /\ status \in {"parse", "resolve"}
  BY DEF CopyInvs, ReadInv, Calling
<1>2. /\ 1 \in DOMAIN todo /\ Head(todo) = todo[1] /\ todo[1].path = p /\ p \in DOMAIN tree
  BY <1>1, HeadFacts
<1>3. todo[1].first /\ ~tree[p].res /\ todo[1].op = "try"
      /\ (tree[p].kind = "uses" /\ Len(p) > 2 => Complete(tree[p].arg))
  BY <1>1, <1>2 DEF TodoInv
<1>4. /\ e.item = p /\ e.done = FALSE /\ e.kind \in {"type", "uses"}
      /\ e.kind = "type" => tree[p].kind = "leaf" /\ nacm' = nacm
      /\ e.kind = "uses" => tree[p].kind = "uses" /\ ~Copyable(p) /\ nacm' = Incremented(p, TRUE)
      /\ e \in Items
  <2>1. CASE /\ tree[p].kind = "leaf" /\ nacm' = nacm
             /\ e = [kind |-> "type", item |-> p, done |-> FALSE]
    BY <1>2, <2>1 DEF Items
  <2>2. CASE /\ tree[p].kind = "uses" /\ ~Copyable(p) /\ nacm' = Incremented(p, TRUE)
             /\ e = [kind |-> "uses", item |-> p, done |-> FALSE]
    BY <1>2, <2>2 DEF Items
  <2> QED
    BY <2>1, <2>2
<1>5. IsPath(p) /\ tree[p] \in NodeRec
  BY <1>1, <1>2 DEF TreeInv
<1>6. tree[p].kind = "uses" => Len(p) = 2
  <2> SUFFICES ASSUME tree[p].kind = "uses", Len(p) # 2 PROVE FALSE
    OBVIOUS
  <2>1. Len(p) > 2
    BY <1>5, LongPath
  <2>2. PICK a : a = tree[p].arg
    OBVIOUS
  <2>3. a \in grps /\ nacm[a] = 0
    BY <1>1, <1>3, <2>1, <2>2, CompleteCopyable
  <2>4. e.kind = "uses"
    BY <1>4
  <2> QED
    BY <1>4, <2>2, <2>3, <2>4 DEF Copyable
<1>7. /\ ReadInv' /\ at' \in Nat /\ at' >= at /\ \A j : HasRead(j)' <=> HasRead(j)
  <2>1. status' \in {"resolve", "ok", "error"} => at = DataAt /\ pos = Len(schema.data)
    BY <1>1 DEF ReadInv
  <2>2. status' \in {"parse", "resolve", "ok", "error", "lost"}
    BY <1>1
  <2> QED
    BY <2>1, <2>2, NoRead
<1>8. SameShape
  BY <1>1, TreeSame
<1>9. \A a : Complete(a) => Complete(a)'
  BY <1>1, <1>7, CompleteKept
<1>10. PICK m : m = Len(unres) + 1
  OBVIOUS
<1>11. /\ unres' \in Seq(Items) /\ DOMAIN unres' = DOMAIN unres \cup {m} /\ m \notin DOMAIN unres
       /\ unres'[m] = e /\ m \in Nat /\ DOMAIN unres = 1..Len(unres) /\ Len(unres) \in Nat
       /\ \A k \in DOMAIN unres : unres'[k] = unres[k] /\ k \in DOMAIN unres'
  <2>1. unres \in Seq(Items)
    BY <1>1 DEF UnresInv
  <2> QED
    BY <1>4, <1>10, <2>1, AppendItem
<1>13. /\ TodoInv' /\ (status = "resolve" => todo' # << >>)
       /\ \A k \in DOMAIN todo' : todo'[k].path # Head(todo).path
       /\ \A k \in DOMAIN todo' : k + 1 \in DOMAIN todo /\ todo'[k] = todo[k + 1]
       /\ \A k \in DOMAIN todo : k # 1 => k - 1 \in DOMAIN todo' /\ todo'[k - 1] = todo[k]
       /\ status = "resolve" => i \in DOMAIN unres
  BY <1>2, <1>3, <1>8, <1>9, <1>11, TailTodo
<1>12. /\ unres \in Seq(Items)
       /\ \A k \in DOMAIN unres :
            /\ unres[k].kind \in {"typedef", "type", "uses"}
            /\ unres[k].kind = "typedef" =>
                 /\ \E j \in DOMAIN schema.tpdfs : unres[k].item = schema.tpdfs[j] /\ HasRead(j)
                 /\ unres[k].done <=> unres[k].item.name \in base
            /\ unres[k].kind = "type" => /\ unres[k].item \in DOMAIN tree /\ tree[unres[k].item].kind = "leaf"
                                         /\ unres[k].done <=> tree[unres[k].item].res
            /\ unres[k].kind = "uses" => /\ unres[k].item \in DOMAIN tree /\ tree[unres[k].item].kind = "uses"
                                         /\ Len(unres[k].item) = 2
                                         /\ unres[k].done <=> tree[unres[k].item].res
            /\ Waits(k) => \A l \in DOMAIN todo : todo[l].path = unres[k].item => k = i /\ ~todo[l].first
       /\ \A k, l \in DOMAIN unres : Waits(k) /\ Waits(l) /\ unres[k].item = unres[l].item => k = l
       /\ \A k, l \in DOMAIN unres :
            unres[k].kind = "typedef" /\ unres[l].kind = "typedef" /\ unres[k].item = unres[l].item => k = l
  BY <1>1, ListFacts
<1>14. /\ \A t \in base : \E j \in DOMAIN schema.tpdfs : schema.tpdfs[j].name = t /\ HasRead(j)
       /\ \A t \in base : t \notin Reach(TypeEdges, t) /\ Reach(TypeEdges, t) \subseteq base \cup Builtin
       /\ \A k \in DOMAIN schema.tpdfs : HasRead(k) =>
            \/ schema.tpdfs[k].name \in base
            \/ \E l \in DOMAIN unres :
                 unres[l].kind = "typedef" /\ ~unres[l].done /\ unres[l].item = schema.tpdfs[k]
       /\ \A q \in DOMAIN tree : tree[q].kind = "leaf" /\ tree[q].res => tree[q].arg \in base \cup Builtin
  BY <1>1 DEF TypeInv
<1>15. ASSUME NEW q \in DOMAIN tree PROVE Copied(q)' <=> Copied(q)
  <2>1. (\E k \in DOMAIN todo' : todo'[k].op = "end" /\ todo'[k].path = q) =>
          \E k \in DOMAIN todo : todo[k].op = "end" /\ todo[k].path = q
    BY <1>13
  <2>2. ASSUME NEW k \in DOMAIN todo, todo[k].op = "end", todo[k].path = q
        PROVE  \E l \in DOMAIN todo' : todo'[l].op = "end" /\ todo'[l].path = q
    <3>1. k # 1
      BY <1>3, <2>2
    <3>2. k - 1 \in DOMAIN todo' /\ todo'[k - 1] = todo[k]
      BY <1>13, <3>1
    <3> QED
      BY <2>2, <3>2
  <2> QED
    BY <2>1, <2>2 DEF Copied
<1>16. TreeInv' /\ CopyInv'
  BY <1>1, <1>8, <1>15, ShapeKept
<1>17. \A k \in DOMAIN unres : Waits(k) => unres[k].item # p
  BY <1>2, <1>3, <1>12
<1>18. /\ \A k \in DOMAIN unres : Waits(k)' <=> Waits(k)
       /\ Items' = Items
  BY <1>11 DEF Waits, Items
<1>19. UnresInv'
  <2>1. ASSUME NEW k \in DOMAIN unres', NEW l \in DOMAIN unres', Waits(k)', Waits(l)', unres'[k].item = unres'[l].item
        PROVE  k = l
    BY <1>4, <1>11, <1>12, <1>17, <1>18, <2>1
  <2>2. \A k, l \in DOMAIN unres' :
          unres'[k].kind = "typedef" /\ unres'[l].kind = "typedef" /\ unres'[k].item = unres'[l].item => k = l
    BY <1>4, <1>11, <1>12
  <2>3. ASSUME NEW k \in DOMAIN unres', Waits(k)', NEW l \in DOMAIN todo', todo'[l].path = unres'[k].item
        PROVE  k = i /\ ~todo'[l].first
    <3>1. CASE k = m
      BY <1>2, <1>4, <1>11, <1>13, <2>3, <3>1
    <3>2. CASE k \in DOMAIN unres
      BY <1>11, <1>12, <1>13, <1>18, <2>3, <3>2
    <3> QED
      BY <1>11, <3>1, <3>2
  <2>4. ASSUME NEW k \in DOMAIN unres'
        PROVE  /\ unres'[k].kind = "typedef" =>
                    /\ \E j \in DOMAIN schema.tpdfs : unres'[k].item = schema.tpdfs[j] /\ HasRead(j)'
                    /\ unres'[k].done <=> unres'[k].item.name \in base
               /\ unres'[k].kind = "type" => /\ unres'[k].item \in DOMAIN tree /\ tree[unres'[k].item].kind = "leaf"
                                             /\ unres'[k].done <=> tree[unres'[k].item].res
               /\ unres'[k].kind = "uses" => /\ unres'[k].item \in DOMAIN tree /\ tree[unres'[k].item].kind = "uses"
                                             /\ Len(unres'[k].item) = 2
                                             /\ unres'[k].done <=> tree[unres'[k].item].res
    <3>1. CASE k = m
      BY <1>2, <1>3, <1>4, <1>6, <1>11, <3>1
    <3>2. CASE k \in DOMAIN unres
      <4>1. unres'[k] = unres[k]
        BY <1>11, <3>2
      <4> QED
        BY <1>7, <1>12, <3>2, <4>1
    <3> QED
      BY <1>11, <3>1, <3>2
  <2> QED
    BY <1>11, <1>18, <2>1, <2>2, <2>3, <2>4, ZenonT(60) DEF UnresInv
<1>20. Covered'
  <2> SUFFICES ASSUME NEW q \in DOMAIN tree, ~tree[q].res
               PROVE  \/ \E k \in DOMAIN todo' : todo'[k].path = q
                      \/ \E k \in DOMAIN unres' : unres'[k].kind # "typedef" /\ ~unres'[k].done /\ unres'[k].item = q
    BY DEF Covered
  <2>1. CASE q = p
    BY <1>4, <1>11, <2>1
  <2>2. CASE \E k \in DOMAIN unres : unres[k].kind # "typedef" /\ ~unres[k].done /\ unres[k].item = q
    BY <1>11, <2>2
  <2>3. ASSUME NEW k \in DOMAIN todo, todo[k].path = q, q # p PROVE \E l \in DOMAIN todo' : todo'[l].path = q
    <3>1. k # 1
      BY <1>2, <2>3
    <3>2. k - 1 \in DOMAIN todo' /\ todo'[k - 1] = todo[k]
      BY <1>13, <3>1
    <3> QED
      BY <2>3, <3>2
  <2> QED
    BY <1>1, <2>1, <2>2, <2>3 DEF Covered
<1>21. NacmInv'
  <2>1. nacm \in [Grps -> 0..(NacmMod - 1)] /\ \A g \in Grps : nacm[g] = Cardinality(Waiting(g))
    BY <1>1 DEF NacmInv
  <2>2. Grps' = Grps
    BY DEF Grps
  <2>3. \A g : g # p[1] \/ e.kind # "uses" => Waiting(g)' = Waiting(g)
    BY <1>4, <1>11 DEF Waiting
  <2>4. CASE e.kind # "uses" \/ p[1] = Data
    <3>1. nacm' = nacm
      BY <1>4, <2>4 DEF Incremented
    <3>2. Data \notin Grps
      BY <1>1, SchemaFacts
    <3> QED
      BY <2>1, <2>2, <2>3, <2>4, <3>1, <3>2 DEF NacmInv
  <2>5. CASE e.kind = "uses" /\ p[1] # Data
    <3> DEFINE g == p[1]
               W == Waiting(g) \cup {m}
               f == [k \in W |-> unres'[k].item]
    <3>1. g \in Grps
      BY <1>5, <2>5 DEF IsPath, Roots
    <3>2. /\ IsFiniteSet(Waiting(g)) /\ Cardinality(Waiting(g)) \in Nat
          /\ \A k \in Waiting(g) : /\ k \in DOMAIN unres /\ IsUses(k) /\ unres[k].item \in DOMAIN tree
                                   /\ unres[k].item[1] = g /\ Len(unres[k].item) = 2
      BY <1>1, WaitingFacts
    <3>3. Waiting(p[1])' = W
      <4>1. p' = p
        BY <1>13
      <4> QED
        BY <1>4, <1>11, <2>5 DEF Waiting
    <3>4. m \notin Waiting(g)
      BY <1>11, <3>2
    <3>5. Cardinality(W) = Cardinality(Waiting(g)) + 1
      BY <3>2, <3>4, FS_AddElement
    <3>6. \A k \in W : unres'[k].item \in DOMAIN tree /\ Len(unres'[k].item) = 2 /\ unres'[k].item[1] = g
      BY <1>2, <1>4, <1>6, <1>11, <2>5, <3>2
    <3>7. ASSUME NEW k \in W, NEW l \in W, unres'[k].item = unres'[l].item PROVE k = l
      <4>1. \A j \in Waiting(g) : Waits(j) /\ unres'[j] = unres[j] /\ j \in DOMAIN unres
        BY <1>11, <3>2 DEF Waits, IsUses
      <4> QED
        BY <1>4, <1>11, <1>12, <1>17, <3>7, <4>1
    <3>8. f \in [W -> DOMAIN tree] /\ (\A k \in W : Len(f[k]) = 2 /\ f[k][1] = g) /\ \A k, l \in W : f[k] = f[l] => k = l
      BY <3>6, <3>7
    <3> HIDE DEF f, W, g
    <3>9. Cardinality(W) < NacmMod
      BY <1>1, <3>1, <3>8, WaitingBound
    <3>10. nacm[g] + 1 = Cardinality(W) /\ nacm[g] + 1 < NacmMod /\ nacm[g] \in Nat
      BY <2>1, <3>1, <3>2, <3>5, <3>9
    <3>11. (nacm[g] + 1) % NacmMod = nacm[g] + 1 /\ nacm[g] + 1 \in 0..(NacmMod - 1)
      <4>1. nacm[g] + 1 \in Nat
        BY <3>10
      <4> QED
        BY <3>10, <4>1, SmallMod, NacmType
    <3>12. nacm' = [nacm EXCEPT ![g] = nacm[g] + 1]
      BY <1>4, <2>1, <2>5, <3>1, <3>11 DEF Incremented, g
    <3>13. nacm' \in [Grps -> 0..(NacmMod - 1)]
      BY <2>1, <3>1, <3>11, <3>12
    <3>14. nacm'[g] = Cardinality(W) /\ \A h \in Grps : h # g => nacm'[h] = nacm[h]
      BY <2>1, <3>1, <3>10, <3>12
    <3>15. ASSUME NEW h \in Grps PROVE nacm'[h] = Cardinality(Waiting(h)')
      <4>1. CASE h = g
        BY <3>3, <3>14, <4>1 DEF g
      <4>2. CASE h # g
        BY <2>1, <2>3, <3>14, <4>2 DEF g
      <4> QED
        BY <4>1, <4>2
    <3> QED
      BY <2>2, <3>13, <3>15 DEF NacmInv
  <2> QED
    BY <2>4, <2>5
<1>22. TypeInv'
  <2>1. TypeEdges' = TypeEdges
    BY DEF TypeEdges
  <2>2. \A k \in DOMAIN schema.tpdfs : HasRead(k)' =>
          \/ schema.tpdfs[k].name \in base
          \/ \E l \in DOMAIN unres' :
               unres'[l].kind = "typedef" /\ ~unres'[l].done /\ unres'[l].item = schema.tpdfs[k]
    BY <1>7, <1>11, <1>14
  <2> QED
    BY <1>7, <1>14, <2>1, <2>2 DEF TypeInv
<1>23. CountInv'
  <2>1. status = "resolve" => \A k \in DOMAIN unres' : k \notin DOMAIN unres => ~(k < i)
    BY <1>10, <1>11, <1>13
  <2> QED
    BY <1>1, <1>11, <1>13, <2>1, BusyCount
<1> QED
  BY <1>7, <1>13, <1>16, <1>19, <1>20, <1>21, <1>22, <1>23 DEF CopyInvs

\* Nothing happens, or a uses names the grouping it is in: resolve_uses does not
\* come back.
LEMMA StepNone ==
  ASSUME CopyInvs, CountInv,
         \/ status' = "lost" /\ unres_count' \in {unres_count, unres_count + 1}
         \/ UNCHANGED <<status, unres_count>>,
         UNCHANGED <<schema, at, pos, base, grps, nacm, tree, unres, todo, i, res_count>>
  PROVE  CopyInvs' /\ CountInv'
<1>1. ReadInv /\ TreeInv /\ TodoInv /\ UnresInv /\ Covered /\ CopyInv /\ NacmInv /\ TypeInv
  BY DEF CopyInvs
<1>2. (\A k : Root(k)' = Root(k) /\ Section(k)' = Section(k)) /\ DataAt' = DataAt
  BY DEF Root, Section, DataAt
<1>3. ReadInv' /\ \A j : HasRead(j)' <=> HasRead(j)
  BY <1>1, <1>2 DEF ReadInv, HasRead
<1>4. (\A a : Complete(a)' <=> Complete(a)) /\ (\A k : IsUses(k)' <=> IsUses(k)) /\ \A k : Waits(k)' <=> Waits(k)
  BY <1>2 DEF Complete, IsUses, Waits
<1>5. SameShape
  BY <1>1, TreeSame
<1>6. TreeInv' /\ CopyInv'
  <2>1. \A q \in DOMAIN tree : tree[q].kind = "uses" => (Copied(q)' <=> Copied(q))
    BY DEF Copied
  <2> QED
    BY <1>1, <1>5, <2>1, ShapeKept
<1>7. TodoInv'
  <2>1. ASSUME NEW k \in DOMAIN todo
        PROVE  /\ ~tree[todo[k].path].res /\ (todo[k].op = "end" => tree[todo[k].path].kind = "uses")
               /\ todo[k].op = "try" => todo[k].first
               /\ ~todo[k].first => k = Len(todo) /\ i \in DOMAIN unres /\ IsUses(i) /\ unres[i].item = todo[k].path
               /\ status' = "parse" => todo[k].first /\ at > 0 /\ todo[k].path[1] = Root(at)
               /\ status' = "resolve" /\ k = Len(todo) => ~todo[k].first
    BY <1>1 DEF TodoInv
  <2>2. ASSUME NEW k \in DOMAIN todo, todo[k].op = "try", tree[todo[k].path].kind = "uses", Len(todo[k].path) > 2
        PROVE  Complete(tree[todo[k].path].arg)'
    <3>1. PICK a : a = tree[todo[k].path].arg
      OBVIOUS
    <3>2. Complete(a)
      BY <1>1, <2>2, <3>1 DEF TodoInv
    <3>3. Complete(a)'
      BY <1>4, <3>2
    <3> QED
      BY <3>1, <3>3 DEF Complete
  <2>3. IsUses(i)' <=> IsUses(i)
    BY DEF IsUses
  <2>4. /\ todo \in Seq([op : {"try", "end"}, path : DOMAIN tree, first : BOOLEAN])
        /\ \A k, l \in DOMAIN todo : todo[k].path[1] = todo[l].path[1]
        /\ \A k, l \in DOMAIN todo : todo[k].path = todo[l].path => k = l
        /\ status' \in {"ok", "error"} => todo = << >>
    BY <1>1 DEF TodoInv
  <2>5. (Root(at))' = Root(at)
    BY DEF Root, DataAt
  <2> QED
    BY <2>1, <2>2, <2>3, <2>4, <2>5 DEF TodoInv
<1>8. UnresInv'
  <2>1. Items' = Items
    BY DEF Items
  <2> QED
    BY <1>1, <1>3, <1>4, <2>1 DEF UnresInv
<1>9. Covered' /\ NacmInv'
  BY <1>1 DEF Covered, NacmInv, Waiting, Grps
<1>10. TypeInv'
  <2>1. TypeEdges' = TypeEdges
    BY DEF TypeEdges
  <2> QED
    BY <1>1, <1>3, <2>1 DEF TypeInv
<1>11. CountInv'
  <2>1. CASE status' = "lost" /\ unres_count' \in {unres_count, unres_count + 1}
    BY <2>1 DEF CountInv
  <2>2. CASE UNCHANGED <<status, unres_count>>
    <3>1. \A u : Blocked(u)' <=> Blocked(u)
      BY DEF Blocked, Copyable, TypeKnown
    <3> QED
      BY <2>2, <3>1 DEF CountInv
  <2> QED
    BY <2>1, <2>2
<1> QED
  BY <1>3, <1>6, <1>7, <1>8, <1>9, <1>10, <1>11 DEF CopyInvs

\* unres_schema_add_node of a uses whose grouping can be copied.
LEMMA StepCopyFirst ==
  ASSUME CopyInvs, CountInv, Calling, Head(todo).op = "try", NEW p, p = Head(todo).path,
         tree[p].kind = "uses", Copyable(p), resolve_uses(p, TRUE),
         UNCHANGED <<schema, at, pos, base, grps, nacm, unres, i, unres_count, res_count>>
  PROVE  CopyInvs' /\ CountInv'
<1>1. TodoInv /\ todo # << >> /\ status \in {"parse", "resolve"}
  BY DEF CopyInvs, Calling
<1>2. p \in DOMAIN tree
  BY <1>1, HeadFacts
<1>3. CASE p[1] = tree[p].arg
  <2>1. status' = "lost" /\ UNCHANGED <<tree, todo>>
    BY <1>3 DEF resolve_uses
  <2> QED
    BY <2>1, StepNone
<1>4. CASE p[1] # tree[p].arg
  <2>1. Enters(p, TRUE)
    BY <1>2, <1>4 DEF Enters
  <2>2. CopyStep(p, TRUE)
    BY <2>1 DEF CopyStep
  <2>3. CopyInvs' /\ status' = status /\ todo' # << >>
    BY <2>2, CopyKeeps
  <2>4. status = "resolve" => i \in DOMAIN unres
    BY <1>1, HeadFacts DEF TodoInv
  <2> QED
    BY <1>1, <2>3, <2>4, BusyCount
<1> QED
  BY <1>3, <1>4

\* A uses from the list whose grouping can be copied now.
LEMMA StepCopyLater ==
  ASSUME CopyInvs, CountInv, status = "resolve", todo = << >>, i <= Len(unres),
         ~unres[i].done, unres[i].kind = "uses", NEW p, p = unres[i].item, Copyable(p), resolve_uses(p, FALSE),
         unres_count' = unres_count + 1,
         UNCHANGED <<schema, at, pos, base, grps, nacm, unres, i, res_count>>
  PROVE  CopyInvs' /\ CountInv'
<1>1. i \in Nat /\ i \in DOMAIN unres
  BY TurnFacts
<1>2. IsUses(i)
  BY DEF IsUses
<1>3. p \in DOMAIN tree /\ tree[p].kind = "uses"
  BY <1>1 DEF CopyInvs, UnresInv
<1>4. CASE p[1] = tree[p].arg
  <2>1. status' = "lost" /\ UNCHANGED <<tree, todo>>
    BY <1>4 DEF resolve_uses
  <2> QED
    BY <2>1, StepNone
<1>5. CASE p[1] # tree[p].arg
  <2>1. Enters(p, FALSE)
    BY <1>1, <1>2, <1>3, <1>5 DEF Enters
  <2>2. CopyStep(p, FALSE)
    BY <2>1 DEF CopyStep
  <2>3. CopyInvs' /\ status' = status /\ todo' # << >>
    BY <2>2, CopyKeeps
  <2>4. /\ unres_count \in Nat /\ res_count \in 0..unres_count /\ i > 0
        /\ res_count = unres_count => \A k \in {k \in DOMAIN unres : k < i} : unres[k].done
        /\ res_count < unres_count => \E k \in {k \in DOMAIN unres : k < i} : ~unres[k].done
    BY DEF CountInv
  <2>5. /\ unres_count' \in Nat /\ res_count \in 0..unres_count' /\ res_count + 1 <= unres_count'
        /\ res_count + 1 = unres_count' <=> res_count = unres_count
        /\ res_count + 1 < unres_count' <=> res_count < unres_count
    BY <2>4
  <2> QED
    BY <1>1, <2>3, <2>4, <2>5 DEF CountInv
<1> QED
  BY <1>4, <1>5

\* read_yin_leaf or read_yin_uses adds a node and is about to try it.
LEMMA StepNode ==
  ASSUME CopyInvs, CountInv, read_yin_node
  PROVE  CopyInvs' /\ CountInv'
<1>1. /\ ReadInv /\ TreeInv /\ TodoInv /\ UnresInv /\ Covered /\ CopyInv /\ NacmInv /\ TypeInv
      /\ schema \in Schemas
  BY DEF CopyInvs, ReadInv
<1>2. PICK n, new, r : n = pos + 1 /\ new = <<Root(at), pos + 1>>
                       /\ r = [kind |-> Stmt.kind, arg |-> Stmt.arg, res |-> FALSE]
  OBVIOUS
<1>3. /\ status = "parse" /\ todo = << >> /\ pos < Len(Section(at)) /\ at # 0
      /\ tree' = [p \in DOMAIN tree \cup {new} |-> IF p = new THEN r ELSE tree[p]]
      /\ todo' = <<Call("try", new, TRUE)>> /\ pos' = n
      /\ UNCHANGED <<schema, at, base, grps, nacm, unres, i, unres_count, res_count, status>>
  BY <1>2 DEF read_yin_node, Reading
<1>4. /\ at \in 1..DataAt /\ DataAt \in Nat /\ Section(at) \in Seq(NodeStmt) /\ Len(Section(at)) \in Nat
      /\ DOMAIN Section(at) = 1..Len(Section(at)) /\ Root(at) \in Roots /\ pos \in Nat
      /\ \A k, l \in 1..DataAt : Root(k) = Root(l) => k = l
      /\ Roots \subseteq Elem
  BY <1>1, <1>3, SchemaFacts DEF ReadInv
<1>5. n \in Nat /\ n \in DOMAIN Section(at) /\ n \in 0..Len(Section(at)) /\ ~(n <= pos)
  BY <1>2, <1>3, <1>4
<1>6. Section(at)[n] \in NodeStmt
  BY <1>4, <1>5, ElementOfSeq
<1>7. r \in NodeRec /\ r.kind = Section(at)[n].kind /\ r.arg = Section(at)[n].arg /\ r.res = FALSE
  BY <1>2, <1>6 DEF Stmt, NodeStmt, NodeRec
<1>8. IsPath(new) /\ Len(new) = 2 /\ new[1] = Root(at) /\ new[2] = n /\ new = <<Root(at), n>> /\ new \in Seq(Elem)
  <2>1. new = <<Root(at), n>> /\ Root(at) \in Elem /\ n \in Elem
    BY <1>2, <1>4, <1>5 DEF Elem
  <2>2. new \in Seq(Elem) /\ Len(new) = 2 /\ new[1] = Root(at) /\ new[2] = n
    BY <2>1
  <2> QED
    BY <1>4, <1>5, <2>1, <2>2 DEF IsPath
<1>9. new \notin DOMAIN tree
  <2> SUFFICES ASSUME new \in DOMAIN tree PROVE FALSE
    OBVIOUS
  <2>1. PICK k \in 1..DataAt : \E j \in DOMAIN Section(k) : Stands(new, k, j)
    BY <1>1, <1>8 DEF TreeInv
  <2>2. PICK j \in DOMAIN Section(k) : new = <<Root(k), j>> /\ IsRead(k, j)
    BY <2>1 DEF Stands
  <2>3. Root(k) = Root(at) /\ j = n
    BY <1>8, <2>2
  <2>4. k = at
    BY <1>4, <2>3
  <2>5. ~(at < at)
    BY <1>4
  <2> QED
    BY <1>5, <2>2, <2>3, <2>4, <2>5 DEF IsRead
<1>10. /\ DOMAIN tree' = DOMAIN tree \cup {new} /\ tree'[new] = r
       /\ \A p \in DOMAIN tree : tree'[p] = tree[p] /\ p # new
  BY <1>3, <1>9
<1>11. (\A k : Root(k)' = Root(k) /\ Section(k)' = Section(k)) /\ DataAt' = DataAt /\ Roots' = Roots
  BY <1>3 DEF Root, Section, DataAt, Roots, Grps
<1>13. ReadInv'
  BY <1>1, <1>3, <1>5, <1>11 DEF ReadInv
<1>15. \A k \in 1..DataAt : \A j \in DOMAIN Section(k) : IsRead(k, j)' <=> IsRead(k, j) \/ (k = at /\ j = n)
  <2> SUFFICES ASSUME NEW k \in 1..DataAt, NEW j \in DOMAIN Section(k)
               PROVE  IsRead(k, j)' <=> IsRead(k, j) \/ (k = at /\ j = n)
    OBVIOUS
  <2>1. j \in Nat
    BY <1>1, SchemaFacts
  <2>2. j <= n <=> j <= pos \/ j = n
    BY <1>2, <1>4, <2>1
  <2> QED
    BY <1>3, <2>2 DEF IsRead
<1>12. /\ unres \in Seq(Items)
       /\ \A k \in DOMAIN unres :
            /\ unres[k].kind \in {"typedef", "type", "uses"}
            /\ unres[k].kind = "typedef" =>
                 /\ \E j \in DOMAIN schema.tpdfs : unres[k].item = schema.tpdfs[j] /\ HasRead(j)
                 /\ unres[k].done <=> unres[k].item.name \in base
            /\ unres[k].kind = "type" => /\ unres[k].item \in DOMAIN tree /\ tree[unres[k].item].kind = "leaf"
                                         /\ unres[k].done <=> tree[unres[k].item].res
            /\ unres[k].kind = "uses" => /\ unres[k].item \in DOMAIN tree /\ tree[unres[k].item].kind = "uses"
                                         /\ Len(unres[k].item) = 2
                                         /\ unres[k].done <=> tree[unres[k].item].res
            /\ Waits(k) => \A l \in DOMAIN todo : todo[l].path = unres[k].item => k = i /\ ~todo[l].first
       /\ \A k, l \in DOMAIN unres : Waits(k) /\ Waits(l) /\ unres[k].item = unres[l].item => k = l
       /\ \A k, l \in DOMAIN unres :
            unres[k].kind = "typedef" /\ unres[l].kind = "typedef" /\ unres[k].item = unres[l].item => k = l
  BY <1>1, ListFacts
<1>14. /\ \A t \in base : \E j \in DOMAIN schema.tpdfs : schema.tpdfs[j].name = t /\ HasRead(j)
       /\ \A t \in base : t \notin Reach(TypeEdges, t) /\ Reach(TypeEdges, t) \subseteq base \cup Builtin
       /\ \A k \in DOMAIN schema.tpdfs : HasRead(k) =>
            \/ schema.tpdfs[k].name \in base
            \/ \E l \in DOMAIN unres :
                 unres[l].kind = "typedef" /\ ~unres[l].done /\ unres[l].item = schema.tpdfs[k]
       /\ \A p \in DOMAIN tree : tree[p].kind = "leaf" /\ tree[p].res => tree[p].arg \in base \cup Builtin
  BY <1>1 DEF TypeInv
<1>16. TreeInv'
  <2>1. IsFiniteSet(DOMAIN tree') /\ tree' \in [DOMAIN tree' -> NodeRec] /\ NodeRec' = NodeRec
    <3>1. IsFiniteSet(DOMAIN tree) /\ \A p \in DOMAIN tree : tree[p] \in NodeRec
      BY <1>1 DEF TreeInv
    <3>2. IsFiniteSet(DOMAIN tree')
      BY <1>10, <3>1, FS_AddElement
    <3>3. \A p \in DOMAIN tree' : tree'[p] \in NodeRec
      BY <1>7, <1>10, <3>1
    <3>4. tree' = [p \in DOMAIN tree' |-> tree'[p]]
      BY <1>3, <1>10
    <3> QED
      BY <3>2, <3>3, <3>4 DEF NodeRec
  <2>2. ASSUME NEW p \in DOMAIN tree'
        PROVE  /\ IsPath(p)' /\ <<p[1], p[2]>> \in DOMAIN tree'
               /\ \E k \in 1..DataAt : \E j \in DOMAIN Section(k) :
                    tree'[p].kind = Section(k)[j].kind /\ tree'[p].arg = Section(k)[j].arg
               /\ Len(p) = 2 => \E k \in 1..DataAt : \E j \in DOMAIN Section(k) : Stands(p, k, j)'
    <3>1. CASE p = new
      <4>1. IsPath(p)' /\ <<p[1], p[2]>> \in DOMAIN tree'
        BY <1>8, <1>10, <1>11, <3>1 DEF IsPath
      <4>2. tree'[p].kind = Section(at)[n].kind /\ tree'[p].arg = Section(at)[n].arg
        BY <1>7, <1>10, <3>1
      <4>3. PICK l \in 1..DataAt : l = at
        BY <1>4
      <4>4. n \in DOMAIN Section(l) /\ IsRead(l, n)' /\ p = <<Root(l), n>>
        BY <1>5, <1>8, <1>15, <3>1, <4>3
      <4>5. Stands(p, l, n)'
        BY <1>11, <4>4 DEF Stands
      <4> QED
        BY <4>1, <4>2, <4>3, <4>4, <4>5
    <3>2. CASE p \in DOMAIN tree
      <4>1. /\ IsPath(p) /\ <<p[1], p[2]>> \in DOMAIN tree
            /\ \E k \in 1..DataAt : \E j \in DOMAIN Section(k) :
                 tree[p].kind = Section(k)[j].kind /\ tree[p].arg = Section(k)[j].arg
            /\ Len(p) = 2 => \E k \in 1..DataAt : \E j \in DOMAIN Section(k) : Stands(p, k, j)
        BY <1>1, <3>2 DEF TreeInv
      <4>2. IsPath(p)'
        BY <1>11, <4>1 DEF IsPath
      <4>3. \A k \in 1..DataAt : \A j \in DOMAIN Section(k) : Stands(p, k, j) => Stands(p, k, j)'
        BY <1>11, <1>15 DEF Stands
      <4> QED
        BY <1>10, <3>2, <4>1, <4>2, <4>3
    <3> QED
      BY <1>10, <3>1, <3>2
  <2>3. ASSUME NEW k \in 1..DataAt, NEW j \in DOMAIN Section(k), IsRead(k, j)'
        PROVE  /\ <<Root(k), j>> \in DOMAIN tree'
               /\ tree'[<<Root(k), j>>].kind = Section(k)[j].kind
               /\ tree'[<<Root(k), j>>].arg = Section(k)[j].arg
    <3>1. CASE k = at /\ j = n
      BY <1>7, <1>8, <1>10, <3>1
    <3>2. CASE IsRead(k, j)
      <4>1. /\ <<Root(k), j>> \in DOMAIN tree
            /\ tree[<<Root(k), j>>].kind = Section(k)[j].kind
            /\ tree[<<Root(k), j>>].arg = Section(k)[j].arg
        BY <1>1, <3>2 DEF TreeInv
      <4> QED
        BY <1>10, <4>1
    <3> QED
      BY <1>15, <2>3, <3>1, <3>2
  <2> QED
    BY <1>11, <2>1, <2>2, <2>3 DEF TreeInv
<1>17. ~Complete(Root(at))
  <2> SUFFICES ASSUME NEW k \in 1..(at - 1), Root(k) = Root(at) PROVE FALSE
    BY DEF Complete
  <2>1. k \in 1..DataAt /\ k # at
    BY <1>4
  <2> QED
    BY <1>4, <2>1
<1>18. \A a : Complete(a) => Complete(a)'
  <2>1. at' \in Nat /\ at' >= at
    BY <1>3, <1>4
  <2> QED
    BY <1>1, <1>3, <1>8, <1>10, <1>17, <2>1, CompleteKept
<1>19. /\ DOMAIN todo' = {1} /\ Len(todo') = 1
       /\ todo'[1].op = "try" /\ todo'[1].path = new /\ todo'[1].first = TRUE
       /\ todo' \in Seq([op : {"try", "end"}, path : DOMAIN tree', first : BOOLEAN])
  BY <1>3, <1>10 DEF Call
<1>20. TodoInv'
  <2>1. at' > 0
    BY <1>3, <1>4
  <2>2. todo'[1].path[1] = Root(at') /\ ~(Len(todo'[1].path) > 2)
    <3>1. ~(2 > 2) /\ at' = at
      BY <1>3
    <3> QED
      BY <1>8, <1>19, <3>1
  <2>3. Root(at') = (Root(at))'
    BY <1>11
  <2>4. tree'[new].res = FALSE
    BY <1>7, <1>10
  <2> QED
    BY <1>3, <1>19, <2>1, <2>2, <2>3, <2>4, ZenonT(60) DEF TodoInv
<1>21. UnresInv'
  <2>1. Items \subseteq Items'
    BY <1>3, <1>10 DEF Items
  <2>2. unres \in Seq(Items')
    BY <1>12, <2>1, SeqWider
  <2>3. \A j : HasRead(j)' <=> HasRead(j)
    <3>1. at > 0 /\ at' > 0
      BY <1>3, <1>4
    <3> QED
      BY <3>1 DEF HasRead
  <2>4. \A k : Waits(k)' <=> Waits(k)
    BY <1>3 DEF Waits
  <2>5. \A k \in DOMAIN unres : Waits(k) => unres[k].item \in DOMAIN tree
    BY <1>12 DEF Waits
  <2>6. \A k \in DOMAIN unres : Waits(k) => \A l \in DOMAIN todo' : todo'[l].path # unres[k].item
    BY <1>9, <1>19, <2>5
  <2>7. \A k \in DOMAIN unres :
          /\ unres[k].kind = "type" => /\ unres[k].item \in DOMAIN tree' /\ tree'[unres[k].item].kind = "leaf"
                                       /\ unres[k].done <=> tree'[unres[k].item].res
          /\ unres[k].kind = "uses" => /\ unres[k].item \in DOMAIN tree' /\ tree'[unres[k].item].kind = "uses"
                                       /\ Len(unres[k].item) = 2
                                       /\ unres[k].done <=> tree'[unres[k].item].res
    BY <1>10, <1>12
  <2>8. \A k \in DOMAIN unres : unres[k].kind = "typedef" =>
          /\ \E j \in DOMAIN schema.tpdfs : unres[k].item = schema.tpdfs[j] /\ HasRead(j)'
          /\ unres[k].done <=> unres[k].item.name \in base
    BY <1>12, <2>3
  <2>9. /\ \A k, l \in DOMAIN unres : Waits(k)' /\ Waits(l)' /\ unres[k].item = unres[l].item => k = l
        /\ \A k, l \in DOMAIN unres :
             unres[k].kind = "typedef" /\ unres[l].kind = "typedef" /\ unres[k].item = unres[l].item => k = l
    BY <1>12, <2>4
  <2>10. \A k \in DOMAIN unres : Waits(k)' => \A l \in DOMAIN todo' : todo'[l].path # unres[k].item
    BY <2>4, <2>6
  <2>11. unres' = unres /\ schema' = schema /\ base' = base
    BY <1>3
  <2> QED
    BY <2>2, <2>7, <2>8, <2>9, <2>10, <2>11 DEF UnresInv
<1>22. Covered'
  <2> SUFFICES ASSUME NEW q \in DOMAIN tree', ~tree'[q].res
               PROVE  \/ \E k \in DOMAIN todo' : todo'[k].path = q
                      \/ \E k \in DOMAIN unres : unres[k].kind # "typedef" /\ ~unres[k].done /\ unres[k].item = q
    BY <1>3 DEF Covered
  <2>1. CASE q = new
    BY <1>19, <2>1
  <2>2. CASE q \in DOMAIN tree
    <3>1. DOMAIN todo = {}
      BY <1>3
    <3> QED
      BY <1>1, <1>10, <2>2, <3>1 DEF Covered
  <2> QED
    BY <1>10, <2>1, <2>2
<1>23. ASSUME NEW p, IsPath(p), NEW s \in Rest
       PROVE  p \o s # new /\ (p \o s \in DOMAIN tree' <=> p \o s \in DOMAIN tree)
              /\ (p \o s \in DOMAIN tree => tree'[p \o s] = tree[p \o s])
  <2>1. p \in Seq(Elem) /\ Len(p) >= 2 /\ Len(p) \in Nat
    BY <1>23, LenProperties DEF IsPath
  <2>2. Len(p \o s) = Len(p) + Len(s) /\ Len(s) \in Nat \ {0}
    BY <2>1, RestFacts
  <2>3. Len(p \o s) > 2
    BY <2>1, <2>2
  <2>4. p \o s # new
    BY <1>8, <2>3
  <2> QED
    BY <1>10, <2>4
<1>24. ASSUME NEW a, Complete(a), NEW s \in Rest
       PROVE  /\ <<a>> \o s \in DOMAIN tree' <=> <<a>> \o s \in DOMAIN tree
              /\ <<a>> \o s \in DOMAIN tree => tree'[<<a>> \o s] = tree[<<a>> \o s]
  <2>1. a \in Elem /\ a # Root(at)
    <3>1. a \in Grps
      BY <1>1, <1>24, CompleteRead
    <3> QED
      BY <1>4, <1>17, <1>24, <3>1 DEF Roots
  <2>2. <<a>> \in Seq(Elem) /\ <<a>> # << >> /\ <<a>>[1] = a
    BY <2>1
  <2>3. (<<a>> \o s)[1] = a
    BY <2>2, RestFacts
  <2>4. <<a>> \o s # new
    BY <1>8, <2>1, <2>3
  <2> QED
    BY <1>10, <2>4
<1>25. CopyInv'
  <2> SUFFICES ASSUME NEW p \in DOMAIN tree', tree'[p].kind = "uses", NEW a, a = tree'[p].arg
               PROVE  IF Copied(p)' THEN Complete(a)' /\ Same(p)' /\ p[1] \notin {a} \cup Reach(UsesEdges', a)
                      ELSE NotBelow(p)'
    BY DEF CopyInv
  <2>0. Rest' = Rest /\ UsesEdges' = UsesEdges
    BY <1>3 DEF Rest, Elem, UsesEdges, Nodes
  <2>1. CASE p = new
    <3>1. ~Copied(p)'
      BY <1>7, <1>10, <1>19, <2>1 DEF Copied
    <3>2. \A s \in Rest : new \o s \notin DOMAIN tree
      <4> SUFFICES ASSUME NEW s \in Rest, NEW q, q = new \o s, q \in DOMAIN tree PROVE FALSE
        OBVIOUS
      <4>1. q[1] = new[1] /\ q[2] = new[2]
        <5>1. new # << >> /\ Len(new) >= 2
          BY <1>8
        <5> QED
          BY <1>8, <5>1, RestFacts
      <4>2. <<q[1], q[2]>> \in DOMAIN tree
        BY <1>1 DEF TreeInv
      <4> QED
        BY <1>8, <1>9, <4>1, <4>2
    <3>3. NotBelow(p)'
      BY <1>8, <1>23, <2>0, <2>1, <3>2 DEF NotBelow
    <3> QED
      BY <3>1, <3>3
  <2>2. CASE p \in DOMAIN tree
    <3>1. tree'[p] = tree[p] /\ a = tree[p].arg /\ IsPath(p)
      BY <1>1, <1>10, <2>2 DEF TreeInv
    <3>2. DOMAIN todo = {}
      BY <1>3
    <3>3. Copied(p)' <=> Copied(p)
      BY <1>19, <3>1, <3>2 DEF Copied
    <3>4. IF Copied(p) THEN Complete(a) /\ Same(p) /\ p[1] \notin {a} \cup Reach(UsesEdges, a) ELSE NotBelow(p)
      BY <1>1, <2>2, <3>1 DEF CopyInv
    <3>5. CASE Copied(p)
      <4>1. Complete(a)'
        BY <1>18, <3>4, <3>5
      <4>2. ASSUME NEW s \in Rest
            PROVE  /\ p \o s \in DOMAIN tree' <=> <<a>> \o s \in DOMAIN tree'
                   /\ p \o s \in DOMAIN tree' => /\ tree'[p \o s].kind = tree'[<<a>> \o s].kind
                                                 /\ tree'[p \o s].arg = tree'[<<a>> \o s].arg
        <5>1. /\ p \o s \in DOMAIN tree <=> <<a>> \o s \in DOMAIN tree
              /\ p \o s \in DOMAIN tree => /\ tree[p \o s].kind = tree[<<a>> \o s].kind
                                           /\ tree[p \o s].arg = tree[<<a>> \o s].arg
          BY <3>1, <3>4, <3>5 DEF Same
        <5>2. /\ p \o s \in DOMAIN tree' <=> p \o s \in DOMAIN tree
              /\ p \o s \in DOMAIN tree => tree'[p \o s] = tree[p \o s]
          BY <1>23, <3>1
        <5>3. /\ <<a>> \o s \in DOMAIN tree' <=> <<a>> \o s \in DOMAIN tree
              /\ <<a>> \o s \in DOMAIN tree => tree'[<<a>> \o s] = tree[<<a>> \o s]
          BY <1>24, <3>4, <3>5
        <5> QED
          BY <5>1, <5>2, <5>3
      <4>3. Same(p)'
        BY <2>0, <4>2 DEF Same
      <4> QED
        BY <2>0, <3>3, <3>4, <3>5, <4>1, <4>3
    <3>6. CASE ~Copied(p)
      <4>1. NotBelow(p)'
        BY <1>23, <2>0, <3>1, <3>4, <3>6 DEF NotBelow
      <4> QED
        BY <3>3, <3>6, <4>1
    <3> QED
      BY <3>5, <3>6
  <2> QED
    BY <1>10, <2>1, <2>2
<1>26. NacmInv'
  BY <1>1, <1>3 DEF NacmInv, Waiting, Grps
<1>27. TypeInv'
  <2>1. TypeEdges' = TypeEdges
    BY <1>3 DEF TypeEdges
  <2>2. \A j : HasRead(j)' <=> HasRead(j)
    <3>1. at > 0 /\ at' > 0
      BY <1>3, <1>4
    <3> QED
      BY <3>1 DEF HasRead
  <2>3. \A q \in DOMAIN tree' : tree'[q].kind = "leaf" /\ tree'[q].res => tree'[q].arg \in base \cup Builtin
    BY <1>7, <1>10, <1>14
  <2> QED
    BY <1>3, <1>14, <2>1, <2>2, <2>3 DEF TypeInv
<1>28. CountInv'
  BY <1>3 DEF CountInv
<1> QED
  BY <1>13, <1>16, <1>20, <1>21, <1>22, <1>25, <1>26, <1>27, <1>28 DEF CopyInvs
-----------------------------------------------------------------------------
(* The invariant holds                                                     *)

Inv == CopyInvs /\ CountInv

\* Nothing has been read.
LEMMA InitInv == Init => Inv
<1> SUFFICES ASSUME Init PROVE Inv
  OBVIOUS
<1>1. /\ schema \in Schemas /\ at = 0 /\ pos = 0 /\ base = {} /\ grps = {} /\ tree = << >> /\ unres = << >> /\ todo = << >>
      /\ nacm = [g \in Grps |-> 0] /\ i = 0 /\ unres_count = 0 /\ res_count = 0 /\ status = "parse"
  BY DEF Init
<1>2. DataAt \in Nat \ {0} /\ Section(0) = schema.tpdfs /\ Len(schema.tpdfs) \in Nat /\ DOMAIN schema.tpdfs = 1..Len(schema.tpdfs)
  BY <1>1, SchemaFacts
<1>3. DOMAIN tree = {} /\ DOMAIN unres = {} /\ DOMAIN todo = {}
  BY <1>1
<1>4. ReadInv
  <2>1. pos \in 0..Len(Section(at)) /\ at \in 0..DataAt
    BY <1>1, <1>2
  <2>2. (1..at) \ {DataAt} = {}
    BY <1>1
  <2>3. grps = {Root(k) : k \in (1..at) \ {DataAt}}
    BY <1>1, <2>2
  <2> QED
    BY <1>1, <2>1, <2>3 DEF ReadInv
<1>5. TreeInv
  <2>1. IsFiniteSet(DOMAIN tree)
    BY <1>3, FS_EmptySet
  <2>2. tree \in [DOMAIN tree -> NodeRec]
    BY <1>1, <1>3
  <2>3. \A k \in 1..DataAt : \A j \in DOMAIN Section(k) : ~IsRead(k, j)
    BY <1>1, <1>2 DEF IsRead
  <2> QED
    BY <1>3, <2>1, <2>2, <2>3 DEF TreeInv
<1>6. TodoInv
  BY <1>1, <1>3 DEF TodoInv
<1>7. UnresInv
  BY <1>1, <1>3 DEF UnresInv
<1>8. Covered /\ CopyInv
  BY <1>3 DEF Covered, CopyInv
<1>9. NacmInv
  <2>1. \A g : Waiting(g) = {}
    BY <1>3 DEF Waiting
  <2>2. Cardinality({}) = 0 /\ 0 \in 0..(NacmMod - 1)
    BY FS_EmptySet, NacmType
  <2> QED
    BY <1>1, <2>1, <2>2 DEF NacmInv
<1>10. TypeInv
  <2>1. \A k \in DOMAIN schema.tpdfs : ~HasRead(k)
    BY <1>1, <1>2 DEF HasRead
  <2> QED
    BY <1>1, <1>3, <2>1 DEF TypeInv
<1>11. CountInv
  BY <1>1 DEF CountInv
<1> QED
  BY <1>4, <1>5, <1>6, <1>7, <1>8, <1>9, <1>10, <1>11 DEF CopyInvs, Inv

\* unres_schema_add_node keeps the invariant.
LEMMA StepAddNode ==
  ASSUME CountersSuffice, CopyInvs, CountInv, AddNode
  PROVE  CopyInvs' /\ CountInv'
<1>1. Calling /\ Head(todo).op = "try" /\ UNCHANGED <<schema, at, pos, base, grps, i, unres_count, res_count>>
  BY DEF AddNode
<1>2. TodoInv /\ TreeInv /\ todo # << >>
  BY <1>1 DEF CopyInvs, Calling
<1>3. PICK p : p = Head(todo).path
  OBVIOUS
<1>4. p \in DOMAIN tree /\ Head(todo).first /\ tree[p] \in NodeRec
  BY <1>1, <1>2, <1>3, HeadFacts DEF TodoInv, TreeInv
<1>5. tree[p].kind = "leaf" \/ tree[p].kind = "uses"
  BY <1>4 DEF NodeRec
<1>6. CASE tree[p].kind = "leaf"
  <2>1. /\ todo' = Tail(todo) /\ UNCHANGED <<nacm, status>>
        /\ \/ TypeKnown(tree[p].arg) /\ tree' = [tree EXCEPT ![p].res = TRUE] /\ UNCHANGED unres
           \/ ~TypeKnown(tree[p].arg) /\ Queue("type", p) /\ UNCHANGED tree
    BY <1>3, <1>6 DEF AddNode
  <2>2. CASE TypeKnown(tree[p].arg) /\ tree' = [tree EXCEPT ![p].res = TRUE] /\ UNCHANGED unres
    BY <1>1, <1>3, <1>4, <1>6, <2>1, <2>2, StepResolved
  <2>3. CASE Queue("type", p) /\ UNCHANGED tree
    <3>1. PICK e : e = [kind |-> "type", item |-> p, done |-> FALSE]
      OBVIOUS
    <3>2. unres' = Append(unres, e)
      BY <2>3, <3>1 DEF Queue
    <3> QED
      BY <1>1, <1>3, <1>6, <2>1, <2>3, <3>1, <3>2, StepQueued
  <2> QED
    BY <2>1, <2>2, <2>3
<1>7. CASE tree[p].kind = "uses" /\ Copyable(p)
  <2>1. resolve_uses(p, TRUE) /\ UNCHANGED <<nacm, unres>>
    BY <1>3, <1>7 DEF AddNode
  <2> QED
    BY <1>1, <1>3, <1>7, <2>1, StepCopyFirst
<1>8. CASE tree[p].kind = "uses" /\ ~Copyable(p)
  <2>1. nacm' = Incremented(p, TRUE) /\ Queue("uses", p) /\ todo' = Tail(todo) /\ UNCHANGED <<tree, status>>
    BY <1>3, <1>8 DEF AddNode
  <2>2. PICK e : e = [kind |-> "uses", item |-> p, done |-> FALSE]
    OBVIOUS
  <2>3. unres' = Append(unres, e)
    BY <2>1, <2>2 DEF Queue
  <2> QED
    BY <1>1, <1>3, <1>8, <2>1, <2>2, <2>3, StepQueued
<1> QED
  BY <1>5, <1>6, <1>7, <1>8

\* The return of resolve_uses keeps the invariant.
LEMMA StepUsesResolved ==
  ASSUME CopyInvs, CountInv, UsesResolved
  PROVE  CopyInvs' /\ CountInv'
<1>1. CASE Head(todo).first
  <2>1. PICK p : p = Head(todo).path
    OBVIOUS
  <2>2. /\ Calling /\ Head(todo).op = "end" /\ todo' = Tail(todo) /\ tree' = [tree EXCEPT ![p].res = TRUE]
        /\ UNCHANGED <<schema, at, pos, base, grps, nacm, unres, i, unres_count, res_count, status>>
    BY <1>1, <2>1 DEF UsesResolved
  <2> QED
    BY <1>1, <2>1, <2>2, StepResolved
<1>2. CASE ~Head(todo).first
  BY <1>2, StepUsesLater
<1> QED
  BY <1>1, <1>2

\* One turn of the loop of resolve_unres_schema keeps the invariant.
LEMMA StepResolveItem ==
  ASSUME CopyInvs, CountInv, ResolveItem
  PROVE  CopyInvs' /\ CountInv'
<1>1. status = "resolve" /\ todo = << >> /\ i <= Len(unres) /\ UNCHANGED <<schema, at, pos, grps>>
  BY DEF ResolveItem
<1>2. i \in DOMAIN unres /\ unres[i] \in Items
  BY <1>1, TurnFacts
<1>3. unres[i].kind \in {"typedef", "type", "uses"}
  BY <1>2 DEF Items
<1>4. CASE unres[i].done
  <2>1. i' = i + 1 /\ UNCHANGED <<base, nacm, tree, unres, todo, unres_count, res_count, status>>
    BY <1>4 DEF ResolveItem
  <2> QED
    BY <1>1, <1>4, <2>1, StepPassed
<1>5. CASE ~unres[i].done /\ unres[i].kind = "uses"
  <2>1. unres_count' = unres_count + 1 /\ ResolveUses(unres[i])
    BY <1>5 DEF ResolveItem
  <2>2. PICK p : p = unres[i].item
    OBVIOUS
  <2>3. CASE Copyable(p)
    <3>1. resolve_uses(p, FALSE) /\ UNCHANGED <<i, nacm, unres, res_count, base>>
      BY <2>1, <2>2, <2>3 DEF ResolveUses
    <3> QED
      BY <1>1, <1>5, <2>1, <2>2, <2>3, <3>1, StepCopyLater
  <2>4. CASE ~Copyable(p)
    <3>1. nacm' = nacm /\ i' = i + 1 /\ UNCHANGED <<tree, todo, status, unres, res_count, base>>
      BY <2>1, <2>2, <2>4 DEF ResolveUses, Incremented
    <3>2. Blocked(unres[i])
      BY <1>5, <2>2, <2>4 DEF Blocked
    <3> QED
      BY <1>1, <1>5, <2>1, <3>1, <3>2, StepPassed
  <2> QED
    BY <2>3, <2>4
<1>6. CASE ~unres[i].done /\ unres[i].kind # "uses"
  <2>1. unres_count' = unres_count + 1 /\ ResolveType(unres[i])
    BY <1>6 DEF ResolveItem
  <2>2. PICK name : name = IF unres[i].kind = "typedef" THEN unres[i].item.type ELSE tree[unres[i].item].arg
    OBVIOUS
  <2>3. /\ i' = i + 1 /\ UNCHANGED <<nacm, todo, status>>
        /\ \/ /\ TypeKnown(name) /\ unres' = [unres EXCEPT ![i].done = TRUE] /\ res_count' = res_count + 1
              /\ IF unres[i].kind = "typedef"
                 THEN base' = base \cup {unres[i].item.name} /\ UNCHANGED tree
                 ELSE tree' = [tree EXCEPT ![unres[i].item].res = TRUE] /\ UNCHANGED base
           \/ ~TypeKnown(name) /\ UNCHANGED <<unres, res_count, base, tree>>
    BY <2>1, <2>2 DEF ResolveType
  <2>4. CASE TypeKnown(name) /\ unres[i].kind = "typedef"
    <3>1. TypeKnown(unres[i].item.type)
      BY <2>2, <2>4
    <3> QED
      BY <1>1, <1>6, <2>1, <2>3, <2>4, <3>1, StepTypedefLater
  <2>5. CASE TypeKnown(name) /\ unres[i].kind = "type"
    <3>1. TypeKnown(tree[unres[i].item].arg)
      BY <2>2, <2>5
    <3> QED
      BY <1>1, <1>6, <2>1, <2>3, <2>5, <3>1, StepLeafLater
  <2>6. CASE ~TypeKnown(name)
    <3>1. Blocked(unres[i])
      BY <1>6, <2>2, <2>6 DEF Blocked
    <3> QED
      BY <1>1, <1>6, <2>1, <2>3, <2>6, <3>1, StepPassed
  <2> QED
    BY <1>3, <1>6, <2>4, <2>5, <2>6
<1> QED
  BY <1>4, <1>5, <1>6

\* Every step keeps the invariant.
LEMMA NextInv ==
  ASSUME CountersSuffice, Inv, [Next]_vars
  PROVE  Inv'
<1> USE DEF Inv
<1>1. CASE fill_yin_typedef
  BY <1>1, StepTypedef
<1>2. CASE read_yin_grouping \/ read_data
  BY <1>2, StepSection
<1>3. CASE read_yin_node
  BY <1>3, StepNode
<1>4. CASE AddNode
  BY <1>4, StepAddNode
<1>5. CASE UsesResolved
  BY <1>5, StepUsesResolved
<1>6. CASE ReadEnds
  BY <1>6, StepReadEnds
<1>7. CASE ResolveItem
  BY <1>7, StepResolveItem
<1>8. CASE PassEnds
  BY <1>8, StepPassEnds
<1>9. CASE UNCHANGED vars
  BY <1>9, StepNone DEF vars
<1>10. CASE Done
  BY <1>9, <1>10 DEF Done
<1> QED
  BY <1>1, <1>2, <1>3, <1>4, <1>5, <1>6, <1>7, <1>8, <1>9, <1>10 DEF Next

\* In every reachable state the invariant holds.
LEMMA SpecInv == ASSUME CountersSuffice PROVE Spec => []Inv
<1>1. Init => Inv
  BY InitInv
<1>2. Inv /\ [Next]_vars => Inv'
  BY NextInv
<1> QED
  BY <1>1, <1>2, PTL DEF Spec
-----------------------------------------------------------------------------
(* Copies                                                                  *)

\* The invariant gives what the counters and the copies are for.
LEMMA InvCopies == Inv => CopiesExact
<1> SUFFICES ASSUME Inv PROVE CopiesExact
  OBVIOUS
<1>1. /\ ReadInv /\ TreeInv /\ TodoInv /\ UnresInv /\ Covered /\ CopyInv /\ NacmInv /\ TypeInv /\ CountInv
      /\ schema \in Schemas
  BY DEF Inv, CopyInvs, ReadInv
<1>2. TypeOK
  <2>1. at \in 0..DataAt /\ pos \in 0..Len(Section(at)) /\ status \in {"parse", "resolve", "ok", "error", "lost"}
    BY <1>1 DEF ReadInv
  <2>2. base \subseteq Tpdfs
    BY <1>1 DEF TypeInv, Tpdfs
  <2>3. grps \subseteq Grps
    <3>1. /\ Len(schema.grps) \in Nat /\ DataAt = Len(schema.grps) + 1
          /\ \A k \in 1..Len(schema.grps) : Root(k) \in Grps
      BY <1>1, SchemaFacts
    <3>2. (1..at) \ {DataAt} \subseteq 1..Len(schema.grps)
      BY <2>1, <3>1
    <3> QED
      BY <1>1, <3>1, <3>2 DEF ReadInv
  <2>4. \A p \in DOMAIN tree : tree[p].kind \in {"leaf", "uses"} /\ tree[p].res \in BOOLEAN
    <3>1. \A p \in DOMAIN tree : tree[p] \in NodeRec
      BY <1>1 DEF TreeInv
    <3> QED
      BY <3>1 DEF NodeRec
  <2>5. \A k \in DOMAIN unres : unres[k].kind \in {"typedef", "type", "uses"}
    BY <1>1, ListFacts
  <2>6. \A k \in DOMAIN todo : todo[k].path \in DOMAIN tree
    <3>1. todo \in Seq([op : {"try", "end"}, path : DOMAIN tree, first : BOOLEAN])
      BY <1>1 DEF TodoInv
    <3>2. \A k \in DOMAIN todo : todo[k] \in [op : {"try", "end"}, path : DOMAIN tree, first : BOOLEAN]
      BY <3>1, LenProperties, ElementOfSeq
    <3> QED
      BY <3>2
  <2>7. nacm \in [Grps -> 0..(NacmMod - 1)] /\ i \in Nat /\ unres_count \in Nat /\ res_count \in 0..unres_count
    BY <1>1 DEF NacmInv, CountInv
  <2> QED
    BY <2>1, <2>2, <2>3, <2>4, <2>5, <2>6, <2>7 DEF TypeOK
<1>3. NacmExact
  <2> SUFFICES ASSUME NEW g \in Grps PROVE nacm[g] = Cardinality(Waiting(g)) % NacmMod
    BY DEF NacmExact
  <2>1. nacm[g] = Cardinality(Waiting(g)) /\ nacm[g] \in 0..(NacmMod - 1)
    BY <1>1 DEF NacmInv
  <2>2. nacm[g] \in Nat /\ nacm[g] < NacmMod
    BY <2>1, NacmType
  <2>3. nacm[g] % NacmMod = nacm[g]
    BY <2>2, SmallMod, NacmType
  <2> QED
    BY <2>1, <2>3
<1>4. CopyExact
  <2> SUFFICES ASSUME NEW p \in DOMAIN tree, tree[p].kind = "uses", tree[p].res, NEW a, a = tree[p].arg
               PROVE  {SubSeq(q, Len(p) + 1, Len(q)) : q \in Below(p)} = {Tail(q) : q \in Below(<<a>>)}
    BY DEF CopyExact
  <2>1. Copied(p)
    BY DEF Copied
  <2>2. Complete(a) /\ Same(p)
    BY <1>1, <2>1 DEF CopyInv
  <2>3. a \in Elem
    <3>1. a \in Grps /\ Roots \subseteq Elem
      BY <1>1, <2>2, CompleteRead, SchemaFacts
    <3> QED
      BY <3>1 DEF Roots
  <2>4. <<a>> \in Seq(Elem) /\ Len(<<a>>) = 1 /\ p \in Seq(Elem) /\ \A q \in DOMAIN tree : q \in Seq(Elem)
    <3>1. \A q \in DOMAIN tree : q \in Seq(Elem)
      BY <1>1 DEF TreeInv, IsPath
    <3>2. <<a>> \in Seq(Elem) /\ Len(<<a>>) = 1
      BY <2>3
    <3> QED
      BY <3>1, <3>2
  <2>5. ASSUME NEW s \in Rest PROVE Tail(<<a>> \o s) = s /\ SubSeq(p \o s, Len(p) + 1, Len(p \o s)) = s
    <3>1. PICK q : q = <<a>> \o s
      OBVIOUS
    <3>2. q \in Seq(Elem) /\ q # << >> /\ SubSeq(q, 2, Len(q)) = s
      BY <2>4, <3>1, RestFacts, EmptySeq
    <3>3. Tail(q) = s
      BY <3>2, TailIsSubSeq
    <3>4. SubSeq(p \o s, Len(p) + 1, Len(p \o s)) = s
      BY <2>4, RestFacts
    <3> QED
      BY <3>1, <3>3, <3>4
  <2>6. \A s \in Rest : p \o s \in DOMAIN tree <=> <<a>> \o s \in DOMAIN tree
    BY <2>2 DEF Same
  <2>7. ASSUME NEW q \in Below(p)
        PROVE  SubSeq(q, Len(p) + 1, Len(q)) \in {Tail(x) : x \in Below(<<a>>)}
    <3>1. q \in DOMAIN tree
      BY <2>7 DEF Below
    <3>2. PICK s \in Rest : q = p \o s
      BY <2>4, <2>7, <3>1, BelowFacts
    <3>3. <<a>> \o s \in Below(<<a>>)
      <4>1. <<a>> \o s \in DOMAIN tree
        BY <2>6, <3>1, <3>2
      <4> QED
        BY <2>4, <4>1, BelowFacts
    <3> QED
      BY <2>5, <3>2, <3>3
  <2>8. ASSUME NEW q \in Below(<<a>>)
        PROVE  Tail(q) \in {SubSeq(x, Len(p) + 1, Len(x)) : x \in Below(p)}
    <3>1. q \in DOMAIN tree
      BY <2>8 DEF Below
    <3>2. PICK s \in Rest : q = <<a>> \o s
      BY <2>4, <2>8, <3>1, BelowFacts
    <3>3. p \o s \in Below(p)
      <4>1. p \o s \in DOMAIN tree
        BY <2>6, <3>1, <3>2
      <4> QED
        BY <2>4, <4>1, BelowFacts
    <3> QED
      BY <2>5, <3>2, <3>3
  <2> QED
    BY <2>7, <2>8
<1> QED
  BY <1>2, <1>3, <1>4 DEF CopiesExact

\* Whatever the documents: a resolved uses has a copy of all its grouping has, and
\* a nacm byte is the number of the uses that wait, as long as no grouping has
\* more nodes than the byte can tell (resolve_unres_schema_uses, lys_node_dup).
THEOREM CopiesComplete == ASSUME CountersSuffice PROVE Spec => []CopiesExact
<1>1. Spec => []Inv
  BY SpecInv
<1> QED
  BY <1>1, InvCopies, PTL

-----------------------------------------------------------------------------
(* Acceptance                                                              *)

\* Where nothing leads back to itself something leads nowhere.
LEMMA Descent ==
  ASSUME NEW E, IsFiniteSet(E), NEW U, U # {}, \A x \in U : \E y \in U : y \in Targets(E, x)
  PROVE  \E x \in U : x \in Reach(E, x)
<1> SUFFICES ASSUME \A x \in U : x \notin Reach(E, x) PROVE FALSE
  OBVIOUS
<1> DEFINE Size(x) == Cardinality(Reach(E, x))
           S == {Size(x) : x \in U}
<1>1. \A x : IsFiniteSet(Reach(E, x))
  BY ReachFacts, FS_Subset
<1>2. \A x : Size(x) \in Nat
  BY <1>1, FS_CardinalityType
<1>3. S \in SUBSET Nat /\ S # {}
  BY <1>2
<1>4. \E m \in S : \A n \in S : m <= n
  <2> HIDE DEF S
  <2> QED
    BY <1>3, LeastNumber
<1>5. PICK x \in U : \A z \in U : Size(x) <= Size(z)
  BY <1>4
<1>6. PICK y \in U : y \in Targets(E, x)
  OBVIOUS
<1>7. y \in Reach(E, x)
  <2>1. Targets(E, x) \subseteq Reach(E, x)
    BY ReachFacts
  <2> QED
    BY <1>6, <2>1
<1>8. Reach(E, y) \subseteq Reach(E, x)
  <2>1. PICK T : T = Reach(E, x)
    OBVIOUS
  <2>2. Targets(E, y) \subseteq T /\ \A z \in T : Targets(E, z) \subseteq T
    BY <1>7, <2>1, ReachFacts
  <2>3. Reach(E, y) \subseteq T
    BY <2>2, ReachFacts
  <2> QED
    BY <2>1, <2>3
<1>9. y \notin Reach(E, y)
  BY <1>6
<1>10. Size(y) < Size(x)
  <2>1. /\ Cardinality(Reach(E, y)) <= Cardinality(Reach(E, x))
        /\ Cardinality(Reach(E, x)) = Cardinality(Reach(E, y)) => Reach(E, x) = Reach(E, y)
    BY <1>1, <1>8, FS_Subset
  <2>2. Cardinality(Reach(E, x)) # Cardinality(Reach(E, y))
    BY <1>7, <1>9, <2>1
  <2> QED
    BY <1>2, <2>1, <2>2
<1> QED
  BY <1>2, <1>5, <1>6, <1>10

\* All of the document has been read when the list is resolved.
LEMMA AllRead ==
  ASSUME ReadInv, TreeInv, status \in {"ok", "error"}
  PROVE  /\ \A k \in 1..DataAt : \A j \in DOMAIN Section(k) :
              /\ <<Root(k), j>> \in DOMAIN tree
              /\ tree[<<Root(k), j>>].kind = Section(k)[j].kind
              /\ tree[<<Root(k), j>>].arg = Section(k)[j].arg
         /\ \A j : HasRead(j)
         /\ grps = Grps
         /\ \A g \in Grps : \E k \in 1..(at - 1) : Root(k) = g
<1>1. at = DataAt /\ pos = Len(schema.data) /\ schema \in Schemas
  BY DEF ReadInv
<1>2. /\ Len(schema.grps) \in Nat /\ DataAt = Len(schema.grps) + 1 /\ Section(DataAt) = schema.data
      /\ \A k \in 1..DataAt : Len(Section(k)) \in Nat /\ DOMAIN Section(k) = 1..Len(Section(k))
      /\ \A k \in 1..Len(schema.grps) : Root(k) \in Grps
      /\ \A g \in Grps : \E k \in 1..Len(schema.grps) : Root(k) = g
  BY <1>1, SchemaFacts
<1>3. ASSUME NEW k \in 1..DataAt, NEW j \in DOMAIN Section(k) PROVE IsRead(k, j)
  <2>1. j \in 1..Len(Section(k)) /\ Len(Section(k)) \in Nat
    BY <1>2
  <2>2. CASE k = DataAt
    BY <1>1, <1>2, <2>1, <2>2 DEF IsRead
  <2>3. CASE k # DataAt
    <3>1. k < DataAt
      BY <1>2, <2>3
    <3> QED
      BY <1>1, <3>1 DEF IsRead
  <2> QED
    BY <2>2, <2>3
<1>4. at > 0 /\ at - 1 = Len(schema.grps) /\ (1..at) \ {DataAt} = 1..Len(schema.grps)
  BY <1>1, <1>2
<1>5. grps = Grps
  <2>1. grps = {Root(k) : k \in 1..Len(schema.grps)}
    BY <1>4 DEF ReadInv
  <2> QED
    BY <1>2, <2>1
<1> QED
  BY <1>2, <1>3, <1>4, <1>5 DEF TreeInv, HasRead

\* The bodies are the sections behind the typedefs.
LEMMA BodyFacts ==
  ASSUME schema \in Schemas
  PROVE  /\ \A b \in Bodies : \E k \in 1..DataAt : b = Section(k)
         /\ \A k \in 1..DataAt : Section(k) \in Bodies
<1>1. /\ Len(schema.grps) \in Nat /\ DataAt = Len(schema.grps) + 1 /\ Section(DataAt) = schema.data
      /\ DOMAIN schema.grps = 1..Len(schema.grps)
      /\ \A k \in 1..Len(schema.grps) : Section(k) = schema.grps[k].body /\ k \in 1..DataAt
  BY SchemaFacts
<1>2. DataAt \in 1..DataAt /\ \A k \in 1..DataAt : k = DataAt \/ k \in 1..Len(schema.grps)
  BY <1>1
<1> QED
  BY <1>1, <1>2 DEF Bodies

\* What is accepted is sound.
LEMMA OkSound ==
  ASSUME Inv, status = "ok"
  PROVE  Sound
<1>1. /\ ReadInv /\ TreeInv /\ TodoInv /\ UnresInv /\ Covered /\ CopyInv /\ NacmInv /\ TypeInv /\ CountInv
      /\ schema \in Schemas
  BY DEF Inv, CopyInvs, ReadInv
<1>2. /\ \A k \in 1..DataAt : \A j \in DOMAIN Section(k) :
           /\ <<Root(k), j>> \in DOMAIN tree
           /\ tree[<<Root(k), j>>].kind = Section(k)[j].kind
           /\ tree[<<Root(k), j>>].arg = Section(k)[j].arg
      /\ \A j : HasRead(j)
      /\ \A g \in Grps : \E k \in 1..(at - 1) : Root(k) = g
  BY <1>1, AllRead
<1>3. \A q \in DOMAIN tree : tree[q].res
  <2>1. \A k \in DOMAIN unres : unres[k].done
    BY <1>1 DEF CountInv
  <2>2. DOMAIN todo = {}
    BY <1>1 DEF TodoInv
  <2> QED
    BY <1>1, <2>1, <2>2 DEF Covered
<1>4. \A q \in DOMAIN tree : tree[q].kind = "uses" =>
        Complete(tree[q].arg) /\ tree[q].arg \in Grps /\ q[1] \notin {tree[q].arg} \cup Reach(UsesEdges, tree[q].arg)
  <2> SUFFICES ASSUME NEW q \in DOMAIN tree, tree[q].kind = "uses", NEW a, a = tree[q].arg
               PROVE  Complete(a) /\ a \in Grps /\ q[1] \notin {a} \cup Reach(UsesEdges, a)
    OBVIOUS
  <2>1. Copied(q)
    BY <1>3 DEF Copied
  <2>2. Complete(a) /\ q[1] \notin {a} \cup Reach(UsesEdges, a)
    BY <1>1, <2>1 DEF CopyInv
  <2> QED
    BY <1>1, <2>2, CompleteRead
<1>5. Tpdfs = base
  <2>1. base \subseteq Tpdfs
    BY <1>1 DEF TypeInv, Tpdfs
  <2>2. \A k \in DOMAIN unres : unres[k].done
    BY <1>1 DEF CountInv
  <2>3. \A k \in DOMAIN schema.tpdfs : schema.tpdfs[k].name \in base
    BY <1>1, <1>2, <2>2 DEF TypeInv
  <2> QED
    BY <2>1, <2>3 DEF Tpdfs
<1>6. \A t \in Tpdfs : t \notin Reach(TypeEdges, t) /\ Reach(TypeEdges, t) \subseteq Tpdfs \cup Builtin
  BY <1>1, <1>5 DEF TypeInv
<1>7. ASSUME NEW b \in Bodies PROVE Nodes("uses", b) \subseteq Grps /\ Nodes("leaf", b) \subseteq Tpdfs \cup Builtin
  <2>1. PICK k \in 1..DataAt : b = Section(k)
    BY <1>1, BodyFacts
  <2>2. ASSUME NEW j \in DOMAIN b, b[j].kind = "uses" PROVE b[j].arg \in Grps
    <3>1. PICK q \in DOMAIN tree : tree[q].kind = "uses" /\ tree[q].arg = b[j].arg
      BY <1>2, <2>1, <2>2
    <3> QED
      BY <1>4, <3>1
  <2>3. ASSUME NEW j \in DOMAIN b, b[j].kind = "leaf" PROVE b[j].arg \in Tpdfs \cup Builtin
    <3>1. PICK q \in DOMAIN tree : tree[q].kind = "leaf" /\ tree[q].arg = b[j].arg
      BY <1>2, <2>1, <2>3
    <3> QED
      BY <1>1, <1>3, <1>5, <3>1 DEF TypeInv
  <2> QED
    BY <2>2, <2>3 DEF Nodes
<1>8. ASSUME NEW g \in Grps PROVE g \notin Reach(UsesEdges, g)
  <2>1. /\ IsFiniteSet(UsesEdges)
        /\ \A k \in 1..Len(schema.grps) : \A a : a \in Targets(UsesEdges, Root(k)) <=>
             \E j \in DOMAIN Section(k) : Section(k)[j].kind = "uses" /\ Section(k)[j].arg = a
    BY <1>1, EdgeFacts
  <2>2. PICK n \in 1..Len(schema.grps) : Root(n) = g /\ n \in 1..DataAt
    BY <1>1, SchemaFacts
  <2> DEFINE A == Targets(UsesEdges, g)
             T == A \cup UNION {Reach(UsesEdges, a) : a \in A}
  <2>3. \A a \in A : g # a /\ g \notin Reach(UsesEdges, a)
    <3> SUFFICES ASSUME NEW a \in A PROVE g \notin {a} \cup Reach(UsesEdges, a)
      OBVIOUS
    <3>1. PICK j \in DOMAIN Section(n) : Section(n)[j].kind = "uses" /\ Section(n)[j].arg = a
      BY <2>1, <2>2
    <3>2. PICK q \in DOMAIN tree : q = <<g, j>> /\ tree[q].kind = "uses" /\ tree[q].arg = a
      BY <1>2, <2>2, <3>1
    <3>3. q[1] = g
      BY <3>2
    <3> QED
      BY <1>4, <3>2, <3>3
  <2>4. \A a : Targets(UsesEdges, a) \subseteq Reach(UsesEdges, a) /\ \A x \in Reach(UsesEdges, a) : Targets(UsesEdges, x) \subseteq Reach(UsesEdges, a)
    BY <2>1, ReachFacts
  <2>5. Targets(UsesEdges, g) \subseteq T /\ \A x \in T : Targets(UsesEdges, x) \subseteq T
    BY <2>4
  <2>6. g \notin T
    BY <2>3
  <2> HIDE DEF T
  <2>7. Reach(UsesEdges, g) \subseteq T
    BY <2>1, <2>5, ReachFacts
  <2> QED
    BY <2>6, <2>7
<1> QED
  BY <1>6, <1>7, <1>8 DEF Sound

\* What is refused is not sound.
LEMMA ErrorUnsound ==
  ASSUME Inv, status = "error"
  PROVE  ~Sound
<1> SUFFICES ASSUME Sound PROVE FALSE
  OBVIOUS
<1>1. /\ ReadInv /\ TreeInv /\ TodoInv /\ UnresInv /\ Covered /\ CopyInv /\ NacmInv /\ TypeInv /\ CountInv
      /\ schema \in Schemas
  BY DEF Inv, CopyInvs, ReadInv
<1>2. /\ \A j : HasRead(j)
      /\ grps = Grps
  BY <1>1, AllRead
<1>3. /\ \A k \in DOMAIN unres : unres[k].done \/ Blocked(unres[k])
      /\ \E k \in DOMAIN unres : ~unres[k].done
  BY <1>1 DEF CountInv
<1>4. /\ IsFiniteSet(UsesEdges) /\ IsFiniteSet(TypeEdges)
      /\ \A k \in 1..Len(schema.grps) : \A a : a \in Targets(UsesEdges, Root(k)) <=>
           \E j \in DOMAIN Section(k) : Section(k)[j].kind = "uses" /\ Section(k)[j].arg = a
      /\ \A k \in DOMAIN schema.tpdfs : Targets(TypeEdges, schema.tpdfs[k].name) = {schema.tpdfs[k].type}
  BY <1>1, EdgeFacts
<1>5. \A q \in DOMAIN tree : /\ tree[q].kind = "uses" => tree[q].arg \in Grps
                             /\ tree[q].kind = "leaf" => tree[q].arg \in Tpdfs \cup Builtin
  <2> SUFFICES ASSUME NEW q \in DOMAIN tree
               PROVE  /\ tree[q].kind = "uses" => tree[q].arg \in Grps
                      /\ tree[q].kind = "leaf" => tree[q].arg \in Tpdfs \cup Builtin
    OBVIOUS
  <2>1. PICK k \in 1..DataAt : \E j \in DOMAIN Section(k) :
          tree[q].kind = Section(k)[j].kind /\ tree[q].arg = Section(k)[j].arg
    BY <1>1 DEF TreeInv
  <2>2. PICK j \in DOMAIN Section(k) : tree[q].kind = Section(k)[j].kind /\ tree[q].arg = Section(k)[j].arg
    BY <2>1
  <2>3. PICK b \in Bodies : b = Section(k)
    BY <1>1, BodyFacts
  <2>4. Nodes("uses", b) \subseteq Grps /\ Nodes("leaf", b) \subseteq Tpdfs \cup Builtin
    BY DEF Sound
  <2>5. b[j].arg \in Nodes(b[j].kind, b)
    BY <2>2, <2>3 DEF Nodes
  <2> QED
    BY <2>2, <2>3, <2>4, <2>5
<1>6. Tpdfs \ base = {}
  <2> DEFINE U == Tpdfs \ base
  <2> SUFFICES ASSUME U # {} PROVE FALSE
    OBVIOUS
  <2>1. ASSUME NEW t \in U PROVE \E y \in U : y \in Targets(TypeEdges, t)
    <3>1. PICK k \in DOMAIN schema.tpdfs : schema.tpdfs[k].name = t
      BY DEF Tpdfs
    <3>2. PICK l \in DOMAIN unres : unres[l].kind = "typedef" /\ ~unres[l].done /\ unres[l].item = schema.tpdfs[k]
      BY <1>1, <1>2, <2>1, <3>1 DEF TypeInv
    <3>3. ~TypeKnown(schema.tpdfs[k].type)
      BY <1>3, <3>2 DEF Blocked
    <3>4. schema.tpdfs[k].type \in Targets(TypeEdges, t)
      BY <1>4, <3>1
    <3>5. schema.tpdfs[k].type \in Tpdfs \cup Builtin
      <4>1. Reach(TypeEdges, t) \subseteq Tpdfs \cup Builtin
        BY <2>1 DEF Sound
      <4>2. Targets(TypeEdges, t) \subseteq Reach(TypeEdges, t)
        BY <1>4, ReachFacts
      <4> QED
        BY <3>4, <4>1, <4>2
    <3> QED
      BY <3>3, <3>4, <3>5 DEF TypeKnown
  <2>2. \A t \in U : t \notin Reach(TypeEdges, t)
    BY DEF Sound
  <2> HIDE DEF U
  <2> QED
    BY <1>4, <2>1, <2>2, Descent
<1>7. \A k \in DOMAIN unres : ~unres[k].done => unres[k].kind = "uses"
  <2> SUFFICES ASSUME NEW k \in DOMAIN unres, ~unres[k].done, unres[k].kind # "uses" PROVE FALSE
    OBVIOUS
  <2>1. unres[k].kind = "typedef" \/ unres[k].kind = "type"
    BY <1>1, ListFacts
  <2>2. CASE unres[k].kind = "typedef"
    <3>1. unres[k].item.name \notin base /\ \E j \in DOMAIN schema.tpdfs : unres[k].item = schema.tpdfs[j]
      BY <1>1, <2>2, ListFacts
    <3> QED
      BY <1>6, <3>1 DEF Tpdfs
  <2>3. CASE unres[k].kind = "type"
    <3>1. PICK q \in DOMAIN tree : q = unres[k].item /\ tree[q].kind = "leaf"
      BY <1>1, <2>3, ListFacts
    <3>2. ~TypeKnown(tree[q].arg)
      BY <1>3, <2>3, <3>1 DEF Blocked
    <3> QED
      BY <1>5, <1>6, <3>1, <3>2 DEF TypeKnown
  <2> QED
    BY <2>1, <2>2, <2>3
<1>8. ASSUME NEW k \in DOMAIN unres, ~unres[k].done
      PROVE  \E a \in Grps : tree[unres[k].item].arg = a /\ Waiting(a) # {}
  <2>1. PICK q \in DOMAIN tree : q = unres[k].item /\ tree[q].kind = "uses"
    BY <1>1, <1>7, <1>8, ListFacts
  <2>2. PICK a \in Grps : a = tree[q].arg
    BY <1>5, <2>1
  <2>3. ~Copyable(q)
    BY <1>3, <1>7, <1>8, <2>1 DEF Blocked
  <2>4. nacm[a] # 0
    BY <1>2, <2>2, <2>3 DEF Copyable
  <2>5. Cardinality(Waiting(a)) # 0
    BY <1>1, <2>4 DEF NacmInv
  <2>6. Waiting(a) # {}
    BY <2>5, FS_EmptySet
  <2> QED
    BY <2>1, <2>2, <2>6
<1> DEFINE U == {g \in Grps : Waiting(g) # {}}
<1>9. U # {}
  BY <1>3, <1>8
<1>10. ASSUME NEW g \in U PROVE \E y \in U : y \in Targets(UsesEdges, g)
  <2>1. PICK k \in Waiting(g) : TRUE
    BY <1>10
  <2>2. /\ k \in DOMAIN unres /\ IsUses(k) /\ unres[k].item \in DOMAIN tree
        /\ tree[unres[k].item].kind = "uses" /\ unres[k].item[1] = g /\ Len(unres[k].item) = 2
    BY <1>1, <2>1, WaitingFacts
  <2>3. PICK q \in DOMAIN tree : q = unres[k].item
    BY <2>2
  <2>4. ~unres[k].done
    BY <2>2 DEF IsUses
  <2>5. PICK a \in Grps : tree[q].arg = a /\ Waiting(a) # {}
    BY <1>8, <2>2, <2>3, <2>4
  <2>6. PICK n \in 1..DataAt : \E j \in DOMAIN Section(n) : Stands(q, n, j)
    BY <1>1, <2>2, <2>3 DEF TreeInv
  <2>7. PICK j \in DOMAIN Section(n) : q = <<Root(n), j>> /\ IsRead(n, j)
    BY <2>6 DEF Stands
  <2>8. Section(n)[j].kind = "uses" /\ Section(n)[j].arg = a
    BY <1>1, <2>2, <2>3, <2>5, <2>7 DEF TreeInv
  <2>9. Root(n) = g
    BY <2>2, <2>3, <2>7
  <2>10. n \in 1..Len(schema.grps)
    <3>1. n # DataAt
      BY <1>1, <1>10, <2>9, SchemaFacts
    <3>2. Len(schema.grps) \in Nat /\ DataAt = Len(schema.grps) + 1
      BY <1>1, SchemaFacts
    <3> QED
      BY <3>1, <3>2
  <2>11. a \in Targets(UsesEdges, g)
    BY <1>4, <2>8, <2>9, <2>10
  <2> QED
    BY <2>5, <2>11
<1>11. \A g \in U : g \notin Reach(UsesEdges, g)
  BY DEF Sound
<1> HIDE DEF U
<1> QED
  BY <1>4, <1>9, <1>10, <1>11, Descent

\* Whatever the documents: one is accepted only when its references are sound and
\* refused only when they are not, in whatever order its groupings and typedefs
\* stand (resolve_unres_schema).
THEOREM OrderFree == ASSUME CountersSuffice PROVE Spec => []AcceptedIffSound
<1>1. Spec => []Inv
  BY SpecInv
<1>2. Inv => AcceptedIffSound
  BY OkSound, ErrorUnsound DEF AcceptedIffSound
<1> QED
  BY <1>1, <1>2, PTL
=============================================================================
