--------------------------- MODULE DataTreeProofs ---------------------------
(***************************************************************************)
(* Proofs about DataTree: whatever calls are made on trees of any size,    *)
(* the pointers of the nodes spell sibling lists.                          *)
(***************************************************************************)
EXTENDS DataTree, ClosureProofs, SequenceTheorems

Mem == [Nodes -> Node \cup {None}]

-----------------------------------------------------------------------------
(* Sequences                                                               *)

\* What is known of a list of nodes.
LEMMA ListFacts ==
  ASSUME NEW S, NEW s \in Seq(S)
  PROVE  /\ Len(s) \in Nat /\ s \in [1..Len(s) -> S] /\ DOMAIN s = 1..Len(s)
         /\ \A i \in 1..Len(s) : s[i] \in S
         /\ Range(s) = {s[i] : i \in 1..Len(s)}
         /\ s # << >> <=> Len(s) > 0
<1>1. Len(s) \in Nat /\ s \in [1..Len(s) -> S] /\ DOMAIN s = 1..Len(s)
  BY LenProperties
<1>2. s # << >> => Len(s) > 0
  BY EmptySeq
<1>3. s = << >> => Len(s) = 0
  BY EmptySeq
<1> QED
  BY <1>1, <1>2, <1>3 DEF Range

\* The empty list.
LEMMA EmptyList ==
  << >> \in Seq(Nodes) /\ Range(<< >>) = {} /\ Len(<< >>) = 0
<1>1. << >> \in Seq(Nodes) /\ Len(<< >>) = 0
  BY EmptySeq
<1>2. Range(<< >>) = {<< >>[i] : i \in 1..Len(<< >>)}
  BY <1>1, ListFacts
<1>3. 1..Len(<< >>) = {}
  BY <1>1
<1> QED
  BY <1>1, <1>2, <1>3

\* A function on 1..n is a sequence of length n.
LEMMA FunctionList ==
  ASSUME NEW S, NEW n \in Nat, NEW s \in [1..n -> S]
  PROVE  s \in Seq(S) /\ Len(s) = n
<1>1. s \in Seq(S)
  BY SeqDef
<1>2. Len(s) \in Nat /\ 1..Len(s) = 1..n
  BY <1>1, LenProperties
<1>3. n = Len(s)
  <2>1. Len(s) > n => FALSE
    <3>1. Len(s) > n => Len(s) \in 1..Len(s) /\ Len(s) \notin 1..n
      BY <1>2
    <3> QED
      BY <1>2, <3>1
  <2>2. n > Len(s) => FALSE
    <3>1. n > Len(s) => n \in 1..n /\ n \notin 1..Len(s)
      BY <1>2
    <3> QED
      BY <1>2, <3>1
  <2> QED
    BY <1>2, <2>1, <2>2
<1> QED
  BY <1>1, <1>3

\* What Append makes.
LEMMA AppendFacts ==
  ASSUME NEW S, NEW q \in Seq(S), NEW e \in S
  PROVE  /\ Append(q, e) \in Seq(S) /\ Len(Append(q, e)) = Len(q) + 1
         /\ \A j \in 1..Len(q) : Append(q, e)[j] = q[j]
         /\ Append(q, e)[Len(q) + 1] = e
BY AppendProperties, LenProperties

\* A list without repetitions is no longer than there are addresses.
LEMMA ListBound ==
  ASSUME NEW s \in Seq(Nodes), \A i, j \in 1..Len(s) : s[i] = s[j] => i = j
  PROVE  Cardinality(Nodes) \in Nat /\ Len(s) <= Cardinality(Nodes)
<1>1. Len(s) \in Nat /\ s \in [1..Len(s) -> Nodes]
  BY ListFacts
<1>2. s \in Injection(1..Len(s), Nodes)
  BY <1>1 DEF Injection, IsInjective
<1>3. Cardinality(1..Len(s)) <= Cardinality(Nodes)
  BY <1>2, FS_Injection, NodesFinite
<1>4. 1 \in Int /\ Len(s) \in Int
  BY <1>1
<1>5. Cardinality(1..Len(s)) = IF 1 > Len(s) THEN 0 ELSE Len(s) - 1 + 1
  BY <1>4, FS_Interval, Zenon
<1>6. Cardinality(Nodes) \in Nat
  BY NodesFinite, FS_CardinalityType
<1> QED
  BY <1>1, <1>3, <1>5, <1>6

-----------------------------------------------------------------------------
(* The loops                                                               *)

\* One turn of a loop, with e the element of the list it has come to.
Turn(loop, g, a, e) ==
  CASE loop = "pointer" -> g[a]
    [] loop = "leaf" -> FreeLeaf(a, e)
    [] loop = "tree" -> Freed(a, e)
    [] loop = "check" -> ValidateNode(a, e)
    [] OTHER -> ValidateTree(a, e)

\* h holds what a loop has made after each of its n turns, beginning with r.
Unfolds(h, loop, g, r, s, n) ==
  /\ h = [k \in 0..n |-> h[k]] /\ h[0] = r
  /\ \A k \in 1..n : h[k] = Turn(loop, g, h[k - 1], s[k])

\* There is such a function for every number of turns.
LEMMA UnfoldsExists ==
  ASSUME NEW loop, NEW g, NEW r, NEW s, NEW n \in Nat
  PROVE  \E h : Unfolds(h, loop, g, r, s, n)
<1> DEFINE A == {i \in Nat : \E h : Unfolds(h, loop, g, r, s, i)}
<1>1. 0 \in A
  <2>1. Unfolds([k \in 0..0 |-> r], loop, g, r, s, 0)
    BY DEF Unfolds
  <2> QED
    BY <2>1
<1>2. ASSUME NEW i \in Nat, i \in A PROVE i + 1 \in A
  <2>1. PICK h : Unfolds(h, loop, g, r, s, i)
    BY <1>2
  <2> DEFINE j == [k \in 0..(i + 1) |-> IF k <= i THEN h[k] ELSE Turn(loop, g, h[i], s[i + 1])]
  <2>2. j = [k \in 0..(i + 1) |-> j[k]] /\ j[0] = r
    BY <2>1 DEF Unfolds
  <2>3. ASSUME NEW k \in 1..(i + 1) PROVE j[k] = Turn(loop, g, j[k - 1], s[k])
    <3>1. CASE k = i + 1
      <4>1. k - 1 = i /\ k \in 0..(i + 1) /\ i \in 0..(i + 1) /\ ~(k <= i)
        BY <3>1
      <4>2. j[k] = Turn(loop, g, h[i], s[i + 1]) /\ j[k - 1] = h[i]
        BY <4>1
      <4> HIDE DEF j
      <4> QED
        BY <4>1, <4>2, <3>1
    <3>2. CASE k <= i
      <4>1. k - 1 \in 0..(i + 1) /\ k \in 0..(i + 1) /\ k - 1 <= i /\ k \in 1..i
        BY <3>2
      <4>2. j[k] = h[k] /\ j[k - 1] = h[k - 1]
        BY <4>1, <3>2
      <4>3. h[k] = Turn(loop, g, h[k - 1], s[k])
        BY <4>1, <2>1 DEF Unfolds
      <4> HIDE DEF j
      <4> QED
        BY <4>2, <4>3
    <3> QED
      BY <3>1, <3>2
  <2> HIDE DEF j
  <2>4. Unfolds(j, loop, g, r, s, i + 1)
    BY <2>2, <2>3 DEF Unfolds
  <2> QED
    BY <2>4
<1> HIDE DEF A
<1>3. Nat \subseteq A
  BY <1>1, <1>2, SetInduction
<1> QED
  BY <1>3 DEF A

\* The loop as a recursive function.
Recursion(loop, g, r, s, n) ==
  CHOOSE f : f = [k \in 0..n |-> IF k = 0 THEN r ELSE Turn(loop, g, f[k - 1], s[k])]

\* It is the function of the loop's turns.
LEMMA RecursionUnfolds ==
  ASSUME NEW loop, NEW g, NEW r, NEW s, NEW n \in Nat
  PROVE  Unfolds(Recursion(loop, g, r, s, n), loop, g, r, s, n)
<1> DEFINE Body(f) == [k \in 0..n |-> IF k = 0 THEN r ELSE Turn(loop, g, f[k - 1], s[k])]
           up == CHOOSE f : f = Body(f)
<1>1. Recursion(loop, g, r, s, n) = up
  BY DEF Recursion
<1>3. PICK h : Unfolds(h, loop, g, r, s, n)
  BY UnfoldsExists
<1>4. h = Body(h)
  <2>1. h = [k \in 0..n |-> h[k]] /\ h[0] = r /\ \A k \in 1..n : h[k] = Turn(loop, g, h[k - 1], s[k])
    BY <1>3 DEF Unfolds
  <2>2. ASSUME NEW k \in 0..n PROVE h[k] = IF k = 0 THEN r ELSE Turn(loop, g, h[k - 1], s[k])
    <3>1. k # 0 => k \in 1..n
      OBVIOUS
    <3> QED
      BY <2>1, <3>1
  <2> QED
    BY <2>1, <2>2, Zenon
<1>5. up = Body(up)
  BY <1>4
<1> HIDE DEF up
<1>6. Unfolds(up, loop, g, r, s, n)
  <2>1. up = [k \in 0..n |-> up[k]] /\ \A k \in 0..n : up[k] = IF k = 0 THEN r ELSE Turn(loop, g, up[k - 1], s[k])
    BY <1>5
  <2>2. 0 \in 0..n /\ \A k \in 1..n : k \in 0..n /\ k # 0
    OBVIOUS
  <2> QED
    BY <2>1, <2>2 DEF Unfolds
<1> QED
  BY <1>1, <1>6

\* What the walk to the right adds to the nodes it has seen.
More(m) ==
  [s \in Seq(Nodes) |->
     IF s = << >> \/ m[Last(s)] = None \/ m[Last(s)].next = None THEN s
     ELSE Append(s, m[Last(s)].next)]

\* Where the walk to the left comes from a node.
Left(m) == [x \in Nodes |-> IF m[m[x].prev].next = None THEN x ELSE m[x].prev]

\* The walks and loops of the model are such recursions.
LEMMA FollowLoop ==
  ASSUME NEW m, NEW n, Cardinality(Nodes) \in Nat
  PROVE  \E h : /\ Unfolds(h, "pointer", More(m), IF n = None THEN << >> ELSE <<n>>, << >>, Cardinality(Nodes))
                /\ FollowFrom(m, n) = h[Cardinality(Nodes)]
<1> DEFINE r == IF n = None THEN << >> ELSE <<n>>
           h == Recursion("pointer", More(m), r, << >>, Cardinality(Nodes))
<1>1. FollowFrom(m, n) = h[Cardinality(Nodes)]
  BY DEF FollowFrom, Recursion, Turn, More
<1>2. Unfolds(h, "pointer", More(m), r, << >>, Cardinality(Nodes))
  BY RecursionUnfolds
<1> QED
  BY <1>1, <1>2

\* The walk to the first sibling.
LEMMA FirstLoop ==
  ASSUME NEW m, NEW n, Cardinality(Nodes) \in Nat
  PROVE  \E h : /\ Unfolds(h, "pointer", Left(m), n, << >>, Cardinality(Nodes))
                /\ FirstSibling(m, n) = h[Cardinality(Nodes)]
<1> DEFINE h == Recursion("pointer", Left(m), n, << >>, Cardinality(Nodes))
<1>1. FirstSibling(m, n) = h[Cardinality(Nodes)]
  BY DEF FirstSibling, Recursion, Turn, Left
<1>2. Unfolds(h, "pointer", Left(m), n, << >>, Cardinality(Nodes))
  BY RecursionUnfolds
<1> QED
  BY <1>1, <1>2

\* The children that lyd_free frees.
LEMMA LeafLoop ==
  ASSUME NEW m, NEW s, Len(s) \in Nat
  PROVE  \E h : Unfolds(h, "leaf", 0, m, s, Len(s)) /\ FreedLeafs(m, s) = h[Len(s)]
<1> DEFINE h == Recursion("leaf", 0, m, s, Len(s))
<1>1. FreedLeafs(m, s) = h[Len(s)]
  BY DEF FreedLeafs, Recursion, Turn
<1>2. Unfolds(h, "leaf", 0, m, s, Len(s))
  BY RecursionUnfolds
<1> QED
  BY <1>1, <1>2

\* The trees that lyd_free_withsiblings frees.
LEMMA TreeLoop ==
  ASSUME NEW m, NEW s, Len(s) \in Nat
  PROVE  \E h : Unfolds(h, "tree", 0, m, s, Len(s)) /\ FreedAll(m, s) = h[Len(s)]
<1> DEFINE h == Recursion("tree", 0, m, s, Len(s))
<1>1. FreedAll(m, s) = h[Len(s)]
  BY DEF FreedAll, Recursion, Turn
<1>2. Unfolds(h, "tree", 0, m, s, Len(s))
  BY RecursionUnfolds
<1> QED
  BY <1>1, <1>2

\* The nodes of a tree that lyd_validate checks.
LEMMA CheckLoop ==
  ASSUME NEW a, NEW s, Len(s) \in Nat
  PROVE  \E h : Unfolds(h, "check", 0, a, s, Len(s)) /\ ValidatedNodes(a, s) = h[Len(s)]
<1> DEFINE h == Recursion("check", 0, a, s, Len(s))
<1>1. ValidatedNodes(a, s) = h[Len(s)]
  BY DEF ValidatedNodes, Recursion, Turn
<1>2. Unfolds(h, "check", 0, a, s, Len(s))
  BY RecursionUnfolds
<1> QED
  BY <1>1, <1>2

\* The trees of a list that it checks.
LEMMA CheckTreeLoop ==
  ASSUME NEW a, NEW s, Len(s) \in Nat
  PROVE  \E h : Unfolds(h, "checks", 0, a, s, Len(s)) /\ ValidatedTrees(a, s) = h[Len(s)]
<1> DEFINE h == Recursion("checks", 0, a, s, Len(s))
<1>1. ValidatedTrees(a, s) = h[Len(s)]
  BY DEF ValidatedTrees, Recursion, Turn
<1>2. Unfolds(h, "checks", 0, a, s, Len(s))
  BY RecursionUnfolds
<1> QED
  BY <1>1, <1>2
-----------------------------------------------------------------------------
(* The lists that the pointers spell                                       *)

\* s is a sibling list: its nodes are linked to their neighbours, the first one
\* back to the last, and have the same parent.
Ring(m, s) ==
  \A i \in 1..Len(s) :
    /\ s[i] \in Live(m)
    /\ m[s[i]].next = IF i = Len(s) THEN None ELSE s[i + 1]
    /\ m[s[i]].prev = IF i = 1 THEN s[Len(s)] ELSE s[i - 1]
    /\ m[s[i]].parent = m[s[1]].parent
    /\ (KindOf[s[i]] = "c") <=> (KindOf[s[1]] = "c")

\* The lists in L have no node in common, and none twice.
Apart(L) ==
  \A s, t \in L : \A i \in 1..Len(s), j \in 1..Len(t) : s[i] = t[j] => s = t /\ i = j

\* Every allocated node is in a list.
Cover(m, L) == \A n \in Live(m) : \E s \in L : \E i \in 1..Len(s) : s[i] = n

\* The parent of a list points to its first node, and every child pointer is
\* that of the parent of a list.
OwnList(m, s) ==
  m[s[1]].parent # None =>
    /\ m[s[1]].parent \in Live(m)
    /\ KindOf[m[s[1]].parent] = "c" /\ KindOf[s[1]] # "c"
    /\ m[m[s[1]].parent].child = s[1]
OwnChild(m, L, p) ==
  m[p].child # None => \E s \in L : s[1] = m[p].child /\ m[s[1]].parent = p

\* L is the set of the sibling lists in the memory m.
Repr(m, L) ==
  /\ m \in Mem
  /\ \A s \in L : s \in Seq(Nodes) /\ s # << >>
  /\ Apart(L) /\ Cover(m, L)
  /\ \A s \in L : Ring(m, s) /\ OwnList(m, s)
  /\ \A p \in Live(m) : OwnChild(m, L, p)

\* What the list of a node has to do with the memory.
LEMMA ReprList ==
  ASSUME NEW m, NEW L, Repr(m, L), NEW s \in L
  PROVE  /\ s \in Seq(Nodes) /\ Len(s) \in Nat /\ Len(s) > 0 /\ DOMAIN s = 1..Len(s)
         /\ 1 \in 1..Len(s) /\ Len(s) \in 1..Len(s)
         /\ \A i \in 1..Len(s) : s[i] \in Nodes /\ s[i] \in Live(m) /\ s[i] # None
         /\ \A i, j \in 1..Len(s) : s[i] = s[j] => i = j
         /\ Range(s) = {s[i] : i \in 1..Len(s)}
<1>1. s \in Seq(Nodes) /\ s # << >>
  BY DEF Repr
<1>2. Len(s) \in Nat /\ Len(s) > 0 /\ DOMAIN s = 1..Len(s) /\ Range(s) = {s[i] : i \in 1..Len(s)}
  BY <1>1, ListFacts
<1>3. 1 \in 1..Len(s) /\ Len(s) \in 1..Len(s)
  BY <1>2
<1>4. \A i \in 1..Len(s) : s[i] \in Nodes /\ s[i] \in Live(m) /\ s[i] # None
  BY <1>1, <1>2, ListFacts, NoneIsNothing DEF Repr, Ring
<1>5. \A i, j \in 1..Len(s) : s[i] = s[j] => i = j
  BY DEF Repr, Apart
<1> QED
  BY <1>1, <1>2, <1>3, <1>4, <1>5

\* The end of a list from position i on.
Suffix(s, i) == [j \in 1..(Len(s) - i + 1) |-> s[i + j - 1]]

\* LY_TREE_FOR goes over the rest of the list.
LEMMA FollowList ==
  ASSUME NEW m, NEW L, Repr(m, L), NEW s \in L, NEW i \in 1..Len(s)
  PROVE  FollowFrom(m, s[i]) = Suffix(s, i)
<1> DEFINE C == Cardinality(Nodes)
<1>1. /\ s \in Seq(Nodes) /\ Len(s) \in Nat /\ Len(s) > 0
      /\ \A j \in 1..Len(s) : s[j] \in Nodes /\ s[j] \in Live(m) /\ s[j] # None
      /\ \A j, k \in 1..Len(s) : s[j] = s[k] => j = k
  BY ReprList
<1>2. C \in Nat /\ Len(s) <= C
  BY <1>1, ListBound
<1>3. Ring(m, s)
  BY DEF Repr
<1>4. PICK h : /\ Unfolds(h, "pointer", More(m), IF s[i] = None THEN << >> ELSE <<s[i]>>, << >>, C)
               /\ FollowFrom(m, s[i]) = h[C]
  BY <1>2, FollowLoop
<1> HIDE DEF C
<1> DEFINE W(k) == IF i + k <= Len(s) THEN k + 1 ELSE Len(s) - i + 1
           A == {k \in Nat : k <= C => /\ h[k] \in Seq(Nodes) /\ Len(h[k]) = W(k)
                                       /\ \A j \in 1..W(k) : h[k][j] = s[i + j - 1]}
<1>5. 0 \in A
  <2>1. h[0] = <<s[i]>>
    BY <1>1, <1>4 DEF Unfolds
  <2>2. h[0] \in Seq(Nodes) /\ Len(h[0]) = 1 /\ h[0][1] = s[i]
    BY <1>1, <2>1
  <2>3. W(0) = 1
    BY <1>1
  <2> QED
    BY <2>2, <2>3, <1>1
<1>6. ASSUME NEW k \in Nat, k \in A PROVE k + 1 \in A
  <2>1. SUFFICES ASSUME k + 1 <= C
                 PROVE  /\ h[k + 1] \in Seq(Nodes) /\ Len(h[k + 1]) = W(k + 1)
                        /\ \A j \in 1..W(k + 1) : h[k + 1][j] = s[i + j - 1]
    OBVIOUS
  <2>2. h[k] \in Seq(Nodes) /\ Len(h[k]) = W(k) /\ \A j \in 1..W(k) : h[k][j] = s[i + j - 1]
    BY <1>2, <1>6, <2>1
  <2>3. k + 1 \in 1..C /\ (k + 1) - 1 = k
    BY <2>1, <1>2
  <2>4. h[k + 1] = More(m)[h[k]]
    BY <1>4, <2>3 DEF Unfolds, Turn
  <2>5. PICK w : w = W(k)
    OBVIOUS
  <2>6. w \in Nat /\ w > 0 /\ i + w - 1 \in 1..Len(s)
        /\ (i + w - 1 = Len(s) => W(k + 1) = w) /\ (i + w - 1 # Len(s) => W(k + 1) = w + 1 /\ i + w \in 1..Len(s))
    BY <2>5, <1>1
  <2>7. h[k] # << >> /\ Last(h[k]) = s[i + w - 1]
    <3>1. h[k] # << >>
      BY <2>2, <2>5, <2>6, ListFacts
    <3>2. w \in 1..w
      BY <2>6
    <3> QED
      BY <2>2, <2>5, <2>6, <3>1, <3>2 DEF Last
  <2> DEFINE x == s[i + w - 1]
  <2>8. m[x] # None /\ m[x].next = IF i + w - 1 = Len(s) THEN None ELSE s[i + w - 1 + 1]
    BY <1>1, <1>3, <2>6 DEF Ring, Live
  <2>9. More(m)[h[k]] = IF m[x].next = None THEN h[k] ELSE Append(h[k], m[x].next)
    BY <2>2, <2>7, <2>8 DEF More
  <2>10. CASE i + w - 1 = Len(s)
    BY <2>2, <2>4, <2>5, <2>6, <2>8, <2>9, <2>10
  <2>11. CASE i + w - 1 # Len(s)
    <3>1. i + w - 1 + 1 = i + w /\ s[i + w] \in Nodes /\ s[i + w] # None
      BY <1>1, <2>6, <2>11
    <3>2. h[k + 1] = Append(h[k], s[i + w])
      BY <3>1, <2>4, <2>8, <2>9, <2>11
    <3>3. /\ h[k + 1] \in Seq(Nodes) /\ Len(h[k + 1]) = w + 1
          /\ \A j \in 1..w : h[k + 1][j] = h[k][j]
          /\ h[k + 1][w + 1] = s[i + w]
      <4>1. h[k] \in Seq(Nodes) /\ Len(h[k]) = w
        BY <2>2, <2>5
      <4> QED
        BY <4>1, <3>1, <3>2, AppendFacts
    <3>4. ASSUME NEW j \in 1..(w + 1) PROVE h[k + 1][j] = s[i + j - 1]
      <4>1. CASE j \in 1..w
        BY <4>1, <3>3, <2>2, <2>5
      <4>2. CASE j = w + 1
        <5>1. i + j - 1 = i + w /\ 1 \in 1..w
          BY <4>2, <2>6
        <5> QED
          BY <4>2, <3>3, <5>1
      <4> QED
        BY <4>1, <4>2, <2>6
    <3> QED
      BY <3>3, <3>4, <2>6, <2>11
  <2> QED
    BY <2>10, <2>11
<1> HIDE DEF A
<1>7. C \in A
  BY <1>2, <1>5, <1>6, SetInduction
<1>8. h[C] \in Seq(Nodes) /\ Len(h[C]) = W(C) /\ \A j \in 1..W(C) : h[C][j] = s[i + j - 1]
  BY <1>2, <1>7 DEF A
<1>9. W(C) = Len(s) - i + 1 /\ Len(s) - i + 1 \in Nat
  BY <1>1, <1>2
<1> HIDE DEF W
<1>10. h[C] = [j \in 1..(Len(s) - i + 1) |-> h[C][j]]
  BY <1>8, <1>9, ListFacts
<1> QED
  BY <1>4, <1>8, <1>9, <1>10 DEF Suffix

\* The walk along prev ends at the first node of the list.
LEMMA FirstOfList ==
  ASSUME NEW m, NEW L, Repr(m, L), NEW s \in L, NEW i \in 1..Len(s)
  PROVE  FirstSibling(m, s[i]) = s[1]
<1> DEFINE C == Cardinality(Nodes)
<1>1. /\ s \in Seq(Nodes) /\ Len(s) \in Nat /\ Len(s) > 0
      /\ \A j \in 1..Len(s) : s[j] \in Nodes /\ s[j] \in Live(m) /\ s[j] # None
      /\ \A j, k \in 1..Len(s) : s[j] = s[k] => j = k
  BY ReprList
<1>2. C \in Nat /\ Len(s) <= C
  BY <1>1, ListBound
<1>3. Ring(m, s)
  BY DEF Repr
<1>4. PICK h : Unfolds(h, "pointer", Left(m), s[i], << >>, C) /\ FirstSibling(m, s[i]) = h[C]
  BY <1>2, FirstLoop
<1> HIDE DEF C
<1> DEFINE W(k) == IF k < i THEN i - k ELSE 1
           A == {k \in Nat : k <= C => h[k] = s[W(k)]}
<1>5. 0 \in A
  BY <1>4 DEF Unfolds
<1>6. ASSUME NEW k \in Nat, k \in A PROVE k + 1 \in A
  <2>1. SUFFICES ASSUME k + 1 <= C PROVE h[k + 1] = s[W(k + 1)]
    OBVIOUS
  <2>2. h[k] = s[W(k)]
    BY <1>2, <1>6, <2>1
  <2>3. k + 1 \in 1..C /\ (k + 1) - 1 = k
    BY <2>1, <1>2
  <2>4. h[k + 1] = Left(m)[h[k]]
    BY <1>4, <2>3 DEF Unfolds, Turn
  <2>5. PICK w : w = W(k)
    OBVIOUS
  <2>6. w \in 1..Len(s) /\ (w = 1 => W(k + 1) = 1) /\ (w # 1 => W(k + 1) = w - 1 /\ w - 1 \in 1..Len(s))
    BY <2>5, <1>1
  <2> HIDE DEF W
  <2>7. h[k + 1] = IF m[m[s[w]].prev].next = None THEN s[w] ELSE m[s[w]].prev
    BY <2>2, <2>4, <2>5, <2>6, <1>1 DEF Left
  <2>8. CASE w = 1
    <3>1. Len(s) \in 1..Len(s) /\ 1 \in 1..Len(s)
      BY <1>1
    <3>2. m[s[1]].prev = s[Len(s)] /\ m[s[Len(s)]].next = None
      BY <3>1, <1>3 DEF Ring
    <3> QED
      BY <2>6, <2>7, <2>8, <3>2
  <2>9. CASE w # 1
    <3>1. m[s[w]].prev = s[w - 1]
      BY <1>3, <2>6, <2>9 DEF Ring
    <3>2. w - 1 # Len(s) /\ w - 1 + 1 = w
      BY <2>6, <2>9, <1>1
    <3>3. m[s[w - 1]].next = s[w]
      BY <1>3, <2>6, <2>9, <3>2 DEF Ring
    <3> QED
      BY <3>1, <3>3, <1>1, <2>6, <2>7, <2>9
  <2> QED
    BY <2>8, <2>9
<1> HIDE DEF A
<1>7. C \in A
  BY <1>2, <1>5, <1>6, SetInduction
<1>8. W(C) = 1
  BY <1>1, <1>2
<1> QED
  BY <1>2, <1>4, <1>7, <1>8 DEF A
\* A list from its first node on is the list.
LEMMA SuffixAll ==
  ASSUME NEW S, NEW s \in Seq(S)
  PROVE  Suffix(s, 1) = s
<1>1. Len(s) \in Nat /\ s = [j \in 1..Len(s) |-> s[j]]
  BY ListFacts
<1>2. Len(s) - 1 + 1 = Len(s) /\ \A j \in 1..Len(s) : 1 + j - 1 = j
  BY <1>1
<1> QED
  BY <1>1, <1>2 DEF Suffix

\* The nodes of the end of a list.
LEMMA SuffixFacts ==
  ASSUME NEW S, NEW s \in Seq(S), NEW i \in 1..Len(s)
  PROVE  /\ Suffix(s, i) \in Seq(S) /\ Len(Suffix(s, i)) = Len(s) - i + 1
         /\ Suffix(s, i)[Len(s) - i + 1] = s[Len(s)]
         /\ Range(Suffix(s, i)) = {s[j] : j \in i..Len(s)}
<1>1. Len(s) \in Nat /\ s \in [1..Len(s) -> S] /\ Len(s) - i + 1 \in Nat
  BY ListFacts
<1>2. \A j \in 1..(Len(s) - i + 1) : i + j - 1 \in 1..Len(s)
  BY <1>1
<1>3. Suffix(s, i) \in [1..(Len(s) - i + 1) -> S]
  BY <1>1, <1>2 DEF Suffix
<1>4. Suffix(s, i) \in Seq(S) /\ Len(Suffix(s, i)) = Len(s) - i + 1
  BY <1>1, <1>3, FunctionList
<1>5. Suffix(s, i)[Len(s) - i + 1] = s[Len(s)]
  <2>1. Len(s) - i + 1 \in 1..(Len(s) - i + 1) /\ i + (Len(s) - i + 1) - 1 = Len(s)
    BY <1>1
  <2> QED
    BY <2>1 DEF Suffix
<1>6. Range(Suffix(s, i)) = {s[j] : j \in i..Len(s)}
  <2>1. Range(Suffix(s, i)) = {s[i + j - 1] : j \in 1..(Len(s) - i + 1)}
    BY DEF Suffix, Range
  <2>2. ASSUME NEW j \in i..Len(s) PROVE s[j] \in {s[i + k - 1] : k \in 1..(Len(s) - i + 1)}
    <3>1. j - i + 1 \in 1..(Len(s) - i + 1) /\ i + (j - i + 1) - 1 = j
      BY <1>1
    <3> QED
      BY <3>1
  <2>3. ASSUME NEW k \in 1..(Len(s) - i + 1) PROVE s[i + k - 1] \in {s[j] : j \in i..Len(s)}
    <3>1. i + k - 1 \in i..Len(s)
      BY <1>1
    <3> QED
      BY <3>1
  <2> QED
    BY <2>1, <2>2, <2>3
<1> QED
  BY <1>4, <1>5, <1>6

\* There is nothing to follow from NULL.
LEMMA FollowNone ==
  ASSUME NEW m
  PROVE  FollowFrom(m, None) = << >>
<1> DEFINE C == Cardinality(Nodes)
<1>1. C \in Nat
  BY NodesFinite, FS_CardinalityType
<1>2. PICK h : /\ Unfolds(h, "pointer", More(m), IF None = None THEN << >> ELSE <<None>>, << >>, C)
               /\ FollowFrom(m, None) = h[C]
  BY <1>1, FollowLoop
<1> HIDE DEF C
<1> DEFINE A == {k \in Nat : k <= C => h[k] = << >>}
<1>3. 0 \in A
  BY <1>2 DEF Unfolds
<1>4. ASSUME NEW k \in Nat, k \in A PROVE k + 1 \in A
  <2>1. SUFFICES ASSUME k + 1 <= C PROVE h[k + 1] = << >>
    OBVIOUS
  <2>2. h[k] = << >> /\ k + 1 \in 1..C /\ (k + 1) - 1 = k
    BY <1>1, <1>4, <2>1
  <2>3. h[k + 1] = More(m)[<< >>]
    BY <1>2, <2>2 DEF Unfolds, Turn
  <2> QED
    BY <2>3, EmptySeq DEF More
<1> HIDE DEF A
<1>5. C \in A
  BY <1>1, <1>3, <1>4, SetInduction
<1> QED
  BY <1>1, <1>2, <1>5 DEF A

\* The fields of an allocated node.
LEMMA NodeFields ==
  ASSUME NEW m \in Mem, NEW n \in Live(m)
  PROVE  /\ n \in Nodes /\ n # None /\ m[n] \in Node /\ m[n] # None
         /\ m[n].parent \in Link /\ m[n].child \in Link /\ m[n].next \in Link /\ m[n].prev \in Nodes
         /\ m[n].leafref \in Link /\ m[n].val \in Values \cup {None} /\ m[n].valid \in BOOLEAN
<1>1. n \in Nodes /\ n # None /\ m[n] \in Node /\ m[n] # None
  BY NoneIsNothing DEF Mem, Live
<1> QED
  BY <1>1 DEF Node

\* The list a node is in.
LEMMA ListOf ==
  ASSUME NEW m, NEW L, Repr(m, L), NEW n \in Live(m)
  PROVE  \E s \in L : \E i \in 1..Len(s) : s[i] = n
BY DEF Repr, Cover

\* A node has at most one list of children.
LEMMA OneList ==
  ASSUME NEW m, NEW L, Repr(m, L), NEW s \in L, NEW t \in L,
         m[s[1]].parent = m[t[1]].parent, m[s[1]].parent # None
  PROVE  s = t
<1>1. s[1] = t[1]
  BY DEF Repr, OwnList
<1>2. 1 \in 1..Len(s) /\ 1 \in 1..Len(t)
  BY ReprList
<1> QED
  BY <1>1, <1>2 DEF Repr, Apart

\* Children goes over the list whose parent is the node.
LEMMA ChildrenList ==
  ASSUME NEW m, NEW L, Repr(m, L), NEW p \in Live(m)
  PROVE  /\ \A s \in L : m[s[1]].parent = p => Children(m, p) = s /\ m[p].child = s[1]
         /\ m[p].child = None => Children(m, p) = << >> /\ \A s \in L : m[s[1]].parent # p
         /\ m[p].child # None => \E s \in L : m[s[1]].parent = p /\ s[1] = m[p].child
<1>1. p # None
  BY NodeFields DEF Repr
<1>2. ASSUME NEW s \in L, m[s[1]].parent = p PROVE Children(m, p) = s /\ m[p].child = s[1] /\ s[1] # None
  <2>1. m[p].child = s[1]
    BY <1>1, <1>2 DEF Repr, OwnList
  <2>2. 1 \in 1..Len(s) /\ s \in Seq(Nodes) /\ s[1] # None
    BY ReprList
  <2>3. FollowFrom(m, s[1]) = s
    BY <2>2, FollowList, SuffixAll
  <2> QED
    BY <2>1, <2>2, <2>3 DEF Children
<1>3. m[p].child = None => Children(m, p) = << >>
  BY FollowNone DEF Children
<1>4. m[p].child # None => \E s \in L : m[s[1]].parent = p /\ s[1] = m[p].child
  BY DEF Repr, OwnChild
<1> QED
  BY <1>2, <1>3, <1>4

\* Siblings is the list of a node.
LEMMA SiblingsList ==
  ASSUME NEW m, NEW L, Repr(m, L), NEW s \in L, NEW i \in 1..Len(s)
  PROVE  Siblings(m, s[i]) = s /\ FollowFrom(m, s[1]) = s
<1>1. 1 \in 1..Len(s) /\ s \in Seq(Nodes) /\ s[i] \in Live(m)
  BY ReprList
<1>2. FollowFrom(m, s[1]) = s
  BY <1>1, FollowList, SuffixAll
<1>3. m[s[i]].parent = m[s[1]].parent
  BY DEF Repr, Ring
<1>4. CASE m[s[i]].parent = None
  BY <1>2, <1>4, FirstOfList DEF Siblings
<1>5. CASE m[s[i]].parent # None
  <2>1. m[m[s[i]].parent].child = s[1]
    BY <1>3, <1>5 DEF Repr, OwnList
  <2> QED
    BY <1>2, <1>5, <2>1 DEF Siblings
<1> QED
  BY <1>2, <1>4, <1>5

\* The children of a node are allocated, and so are its siblings and the nodes
\* of the top level of its tree.
LEMMA WalksLive ==
  ASSUME NEW m, NEW L, Repr(m, L), NEW n \in Live(m)
  PROVE  /\ Children(m, n) \in Seq(Nodes) /\ Range(Children(m, n)) \subseteq Live(m)
         /\ Siblings(m, n) \in Seq(Nodes) /\ Range(Siblings(m, n)) \subseteq Live(m)
         /\ TopList(m, n) \in Seq(Nodes) /\ Range(TopList(m, n)) \subseteq Live(m)
<1>1. \A s \in L : s \in Seq(Nodes) /\ Range(s) \subseteq Live(m)
  BY ReprList
<1>2. Children(m, n) \in Seq(Nodes) /\ Range(Children(m, n)) \subseteq Live(m)
  <2>1. CASE m[n].child = None
    <3>1. Children(m, n) = << >>
      BY <2>1, ChildrenList
    <3> QED
      BY <3>1, EmptyList
  <2>2. CASE m[n].child # None
    BY <1>1, <2>2, ChildrenList
  <2> QED
    BY <2>1, <2>2
<1>3. ASSUME NEW x \in Live(m) PROVE \E s \in L : FollowFrom(m, FirstSibling(m, x)) = s /\ Siblings(m, x) = s
  <2>1. PICK s \in L : \E i \in 1..Len(s) : s[i] = x
    BY ListOf
  <2>2. PICK i \in 1..Len(s) : s[i] = x
    BY <2>1
  <2> QED
    BY <2>2, SiblingsList, FirstOfList
<1>4. m[n].parent # None => m[n].parent \in Live(m)
  <2>1. PICK s \in L : \E i \in 1..Len(s) : s[i] = n
    BY ListOf
  <2>2. PICK i \in 1..Len(s) : s[i] = n
    BY <2>1
  <2> QED
    BY <2>2 DEF Repr, Ring, OwnList
<1> QED
  BY <1>1, <1>2, <1>3, <1>4 DEF TopList
\* A memory that spells lists has the properties of TreeWhole.
LEMMA ReprWhole ==
  ASSUME NEW L, Repr(d, L)
  PROVE  TreeWhole
<1>1. TypeOK
  BY DEF Repr, TypeOK, Mem
<1>2. ASSUME NEW n \in Live(d)
      PROVE  /\ d[n].next # None => d[n].next \in Live(d) /\ d[d[n].next].prev = n
             /\ d[n].prev \in Live(d)
             /\ IF d[d[n].prev].next = None THEN d[n].prev = Last(FollowFrom(d, n)) ELSE d[d[n].prev].next = n
             /\ d[n].parent # None =>
                  /\ d[n].parent \in Live(d)
                  /\ n \in Range(Children(d, d[n].parent))
                  /\ KindOf[n] # "c" /\ KindOf[d[n].parent] = "c"
             /\ \A x \in Range(Children(d, n)) : x \in Live(d) /\ d[x].parent = n
  <2>1. PICK s \in L : \E i \in 1..Len(s) : s[i] = n
    BY <1>2, ListOf
  <2>2. PICK i \in 1..Len(s) : s[i] = n
    BY <2>1
  <2>3. /\ s \in Seq(Nodes) /\ Len(s) \in Nat /\ Len(s) > 0 /\ 1 \in 1..Len(s) /\ Len(s) \in 1..Len(s)
        /\ \A j \in 1..Len(s) : s[j] \in Nodes /\ s[j] \in Live(d) /\ s[j] # None
        /\ Range(s) = {s[j] : j \in 1..Len(s)}
    BY ReprList
  <2>4. Ring(d, s) /\ OwnList(d, s)
    BY DEF Repr
  <2>5. d[n].next # None => d[n].next \in Live(d) /\ d[d[n].next].prev = n
    <3>1. SUFFICES ASSUME d[n].next # None PROVE d[n].next \in Live(d) /\ d[d[n].next].prev = n
      OBVIOUS
    <3>2. i # Len(s) /\ d[n].next = s[i + 1]
      BY <2>2, <2>4, <3>1 DEF Ring
    <3>3. i + 1 \in 1..Len(s) /\ i + 1 # 1 /\ (i + 1) - 1 = i
      BY <2>3, <3>2
    <3>4. d[s[i + 1]].prev = s[i]
      BY <2>4, <3>3 DEF Ring
    <3> QED
      BY <2>2, <2>3, <3>2, <3>3, <3>4
  <2>6. d[n].prev \in Live(d) /\ IF d[d[n].prev].next = None THEN d[n].prev = Last(FollowFrom(d, n)) ELSE d[d[n].prev].next = n
    <3>1. CASE i = 1
      <4>1. d[n].prev = s[Len(s)]
        BY <2>2, <2>4, <3>1 DEF Ring
      <4>2. FollowFrom(d, n) = s
        BY <2>2, <3>1, SiblingsList
      <4>3. Last(s) = s[Len(s)]
        BY DEF Last
      <4>4. d[s[Len(s)]].next = None
        BY <2>3, <2>4 DEF Ring
      <4> QED
        BY <2>3, <4>1, <4>2, <4>3, <4>4
    <3>2. CASE i # 1
      <4>1. i - 1 \in 1..Len(s) /\ i - 1 # Len(s) /\ (i - 1) + 1 = i
        BY <2>3, <3>2
      <4>2. d[n].prev = s[i - 1]
        BY <2>2, <2>4, <3>2 DEF Ring
      <4>3. d[s[i - 1]].next = s[(i - 1) + 1]
        BY <2>4, <4>1 DEF Ring
      <4> QED
        BY <2>2, <2>3, <4>1, <4>2, <4>3
    <3> QED
      BY <3>1, <3>2
  <2>7. d[n].parent # None =>
          /\ d[n].parent \in Live(d)
          /\ n \in Range(Children(d, d[n].parent))
          /\ KindOf[n] # "c" /\ KindOf[d[n].parent] = "c"
    <3>1. SUFFICES ASSUME d[n].parent # None
                   PROVE  /\ d[n].parent \in Live(d)
                          /\ n \in Range(Children(d, d[n].parent))
                          /\ KindOf[n] # "c" /\ KindOf[d[n].parent] = "c"
      OBVIOUS
    <3>2. d[s[1]].parent = d[n].parent /\ ((KindOf[n] = "c") <=> (KindOf[s[1]] = "c"))
      BY <2>2, <2>4 DEF Ring
    <3>3. d[n].parent \in Live(d) /\ KindOf[s[1]] # "c" /\ KindOf[d[n].parent] = "c"
      BY <2>4, <3>1, <3>2 DEF OwnList
    <3>4. Children(d, d[n].parent) = s
      BY <3>2, <3>3, ChildrenList
    <3> QED
      BY <2>2, <2>3, <3>2, <3>3, <3>4
  <2>8. ASSUME NEW x \in Range(Children(d, n)) PROVE x \in Live(d) /\ d[x].parent = n
    <3>1. d[n].child # None
      BY <1>2, <2>8, ChildrenList, EmptyList
    <3>2. PICK t \in L : d[t[1]].parent = n
      BY <1>2, <3>1, ChildrenList
    <3>3. Children(d, n) = t
      BY <1>2, <3>2, ChildrenList
    <3>4. PICK j \in 1..Len(t) : x = t[j]
      BY <2>8, <3>3, ReprList
    <3> QED
      BY <3>2, <3>4 DEF Repr, Ring
  <2> QED
    BY <2>5, <2>6, <2>7, <2>8
<1>3. SiblingRing
  BY <1>2 DEF SiblingRing
<1>4. Family
  BY <1>2 DEF Family
<1> QED
  BY <1>1, <1>3, <1>4 DEF TreeWhole

-----------------------------------------------------------------------------
(* Writing to the memory                                                   *)

\* Two memories with the same nodes and the same links.
SameLinks(m, q) ==
  /\ q \in Mem /\ Live(q) = Live(m)
  /\ \A x \in Live(m) : /\ q[x].parent = m[x].parent /\ q[x].child = m[x].child
                        /\ q[x].next = m[x].next /\ q[x].prev = m[x].prev

\* They spell the same lists.
LEMMA SameLinksRepr ==
  ASSUME NEW m, NEW L, Repr(m, L), NEW q, SameLinks(m, q)
  PROVE  Repr(q, L)
<1>1. \A s \in L : 1 \in 1..Len(s) /\ \A i \in 1..Len(s) : s[i] \in Live(m)
  BY ReprList
<1>2. q \in Mem /\ Live(q) = Live(m)
  BY DEF SameLinks
<1>3. \A s \in L : s \in Seq(Nodes) /\ s # << >>
  BY DEF Repr
<1>4. Apart(L) /\ Cover(q, L)
  BY <1>2 DEF Repr, Cover
<1>5. ASSUME NEW s \in L PROVE Ring(q, s) /\ OwnList(q, s)
  <2>1. Ring(m, s) /\ OwnList(m, s)
    BY DEF Repr
  <2>2. \A i \in 1..Len(s) : /\ q[s[i]].next = m[s[i]].next /\ q[s[i]].prev = m[s[i]].prev
                             /\ q[s[i]].parent = m[s[i]].parent
    BY <1>1 DEF SameLinks
  <2>3. q[s[1]].parent = m[s[1]].parent
    BY <1>1, <2>2
  <2>4. Ring(q, s)
    BY <1>2, <2>1, <2>2, <2>3 DEF Ring
  <2>5. OwnList(q, s)
    BY <1>2, <2>1, <2>3 DEF OwnList, SameLinks
  <2> QED
    BY <2>4, <2>5
<1>6. ASSUME NEW p \in Live(q) PROVE OwnChild(q, L, p)
  <2>1. OwnChild(m, L, p) /\ q[p].child = m[p].child
    BY <1>2, <1>6 DEF Repr, SameLinks
  <2>2. \A s \in L : q[s[1]].parent = m[s[1]].parent
    BY <1>1 DEF SameLinks
  <2> QED
    BY <2>1, <2>2 DEF OwnChild
<1> QED
  BY <1>2, <1>3, <1>4, <1>5, <1>6 DEF Repr

\* What stays the same between two memories.
KeepParent(m, q) == \A y \in Live(m) : q[y].parent = m[y].parent
KeepChild(m, q) == \A y \in Live(m) : q[y].child = m[y].child
KeepNext(m, q) == \A y \in Live(m) : q[y].next = m[y].next
KeepPrev(m, q) == \A y \in Live(m) : q[y].prev = m[y].prev
KeepData(m, q) ==
  \A y \in Live(m) : q[y].leafref = m[y].leafref /\ q[y].val = m[y].val /\ q[y].valid = m[y].valid

\* One assignment to a field of a node.
PutParent(m, x, v) == [m EXCEPT ![x].parent = v]
PutChild(m, x, v) == [m EXCEPT ![x].child = v]
PutNext(m, x, v) == [m EXCEPT ![x].next = v]
PutPrev(m, x, v) == [m EXCEPT ![x].prev = v]

\* Assigning to parent.
LEMMA SetParent ==
  ASSUME NEW m \in Mem, NEW x \in Live(m), NEW v \in Link, NEW q, q = PutParent(m, x, v)
  PROVE  /\ q \in Mem /\ Live(q) = Live(m)
         /\ \A y \in Live(m) : q[y].parent = IF y = x THEN v ELSE m[y].parent
         /\ KeepChild(m, q) /\ KeepNext(m, q) /\ KeepPrev(m, q) /\ KeepData(m, q)
<1>1. x \in Nodes /\ m[x] \in Node /\ m[x] # None /\ None \notin Node
  BY NodeFields, NoneIsNothing
<1> DEFINE r == [m[x] EXCEPT !.parent = v]
<1>2. r \in Node
  BY <1>1 DEF Node, Link
<1>3. r # None
  BY <1>1, <1>2
<1>4. r.parent = v /\ r.child = m[x].child /\ r.next = m[x].next /\ r.prev = m[x].prev /\ r.leafref = m[x].leafref /\ r.val = m[x].val /\ r.valid = m[x].valid
  BY <1>1 DEF Node
<1>5. q = [m EXCEPT ![x] = r]
  BY DEF PutParent
<1> HIDE DEF r
<1>6. q \in Mem
  BY <1>1, <1>2, <1>5 DEF Mem
<1>7. q[x] = r /\ \A y \in Nodes \ {x} : q[y] = m[y]
  BY <1>1, <1>5 DEF Mem
<1>8. Live(q) = Live(m)
  BY <1>1, <1>3, <1>7 DEF Live
<1>9. \A y \in Live(m) : y \in Nodes
  BY DEF Live
<1> QED
  BY <1>4, <1>6, <1>7, <1>8, <1>9 DEF KeepChild, KeepNext, KeepPrev, KeepData

\* Assigning to child.
LEMMA SetChild ==
  ASSUME NEW m \in Mem, NEW x \in Live(m), NEW v \in Link, NEW q, q = PutChild(m, x, v)
  PROVE  /\ q \in Mem /\ Live(q) = Live(m)
         /\ \A y \in Live(m) : q[y].child = IF y = x THEN v ELSE m[y].child
         /\ KeepParent(m, q) /\ KeepNext(m, q) /\ KeepPrev(m, q) /\ KeepData(m, q)
<1>1. x \in Nodes /\ m[x] \in Node /\ m[x] # None /\ None \notin Node
  BY NodeFields, NoneIsNothing
<1> DEFINE r == [m[x] EXCEPT !.child = v]
<1>2. r \in Node
  BY <1>1 DEF Node, Link
<1>3. r # None
  BY <1>1, <1>2
<1>4. r.child = v /\ r.parent = m[x].parent /\ r.next = m[x].next /\ r.prev = m[x].prev /\ r.leafref = m[x].leafref /\ r.val = m[x].val /\ r.valid = m[x].valid
  BY <1>1 DEF Node
<1>5. q = [m EXCEPT ![x] = r]
  BY DEF PutChild
<1> HIDE DEF r
<1>6. q \in Mem
  BY <1>1, <1>2, <1>5 DEF Mem
<1>7. q[x] = r /\ \A y \in Nodes \ {x} : q[y] = m[y]
  BY <1>1, <1>5 DEF Mem
<1>8. Live(q) = Live(m)
  BY <1>1, <1>3, <1>7 DEF Live
<1>9. \A y \in Live(m) : y \in Nodes
  BY DEF Live
<1> QED
  BY <1>4, <1>6, <1>7, <1>8, <1>9 DEF KeepParent, KeepNext, KeepPrev, KeepData

\* Assigning to next.
LEMMA SetNext ==
  ASSUME NEW m \in Mem, NEW x \in Live(m), NEW v \in Link, NEW q, q = PutNext(m, x, v)
  PROVE  /\ q \in Mem /\ Live(q) = Live(m)
         /\ \A y \in Live(m) : q[y].next = IF y = x THEN v ELSE m[y].next
         /\ KeepParent(m, q) /\ KeepChild(m, q) /\ KeepPrev(m, q) /\ KeepData(m, q)
<1>1. x \in Nodes /\ m[x] \in Node /\ m[x] # None /\ None \notin Node
  BY NodeFields, NoneIsNothing
<1> DEFINE r == [m[x] EXCEPT !.next = v]
<1>2. r \in Node
  BY <1>1 DEF Node, Link
<1>3. r # None
  BY <1>1, <1>2
<1>4. r.next = v /\ r.parent = m[x].parent /\ r.child = m[x].child /\ r.prev = m[x].prev /\ r.leafref = m[x].leafref /\ r.val = m[x].val /\ r.valid = m[x].valid
  BY <1>1 DEF Node
<1>5. q = [m EXCEPT ![x] = r]
  BY DEF PutNext
<1> HIDE DEF r
<1>6. q \in Mem
  BY <1>1, <1>2, <1>5 DEF Mem
<1>7. q[x] = r /\ \A y \in Nodes \ {x} : q[y] = m[y]
  BY <1>1, <1>5 DEF Mem
<1>8. Live(q) = Live(m)
  BY <1>1, <1>3, <1>7 DEF Live
<1>9. \A y \in Live(m) : y \in Nodes
  BY DEF Live
<1> QED
  BY <1>4, <1>6, <1>7, <1>8, <1>9 DEF KeepParent, KeepChild, KeepPrev, KeepData

\* Assigning to prev.
LEMMA SetPrev ==
  ASSUME NEW m \in Mem, NEW x \in Live(m), NEW v \in Nodes, NEW q, q = PutPrev(m, x, v)
  PROVE  /\ q \in Mem /\ Live(q) = Live(m)
         /\ \A y \in Live(m) : q[y].prev = IF y = x THEN v ELSE m[y].prev
         /\ KeepParent(m, q) /\ KeepChild(m, q) /\ KeepNext(m, q) /\ KeepData(m, q)
<1>1. x \in Nodes /\ m[x] \in Node /\ m[x] # None /\ None \notin Node
  BY NodeFields, NoneIsNothing
<1> DEFINE r == [m[x] EXCEPT !.prev = v]
<1>2. r \in Node
  BY <1>1 DEF Node, Link
<1>3. r # None
  BY <1>1, <1>2
<1>4. r.prev = v /\ r.parent = m[x].parent /\ r.child = m[x].child /\ r.next = m[x].next /\ r.leafref = m[x].leafref /\ r.val = m[x].val /\ r.valid = m[x].valid
  BY <1>1 DEF Node
<1>5. q = [m EXCEPT ![x] = r]
  BY DEF PutPrev
<1> HIDE DEF r
<1>6. q \in Mem
  BY <1>1, <1>2, <1>5 DEF Mem
<1>7. q[x] = r /\ \A y \in Nodes \ {x} : q[y] = m[y]
  BY <1>1, <1>5 DEF Mem
<1>8. Live(q) = Live(m)
  BY <1>1, <1>3, <1>7 DEF Live
<1>9. \A y \in Live(m) : y \in Nodes
  BY DEF Live
<1> QED
  BY <1>4, <1>6, <1>7, <1>8, <1>9 DEF KeepParent, KeepChild, KeepNext, KeepData
\* The last assignments of lyd_unlink: the node stands alone.
PutAlone(m, n) == [m EXCEPT ![n].parent = None, ![n].next = None, ![n].prev = n]
LEMMA SetAlone ==
  ASSUME NEW m \in Mem, NEW n \in Live(m), NEW q, q = PutAlone(m, n)
  PROVE  /\ q \in Mem /\ Live(q) = Live(m)
         /\ \A y \in Live(m) : /\ q[y].parent = IF y = n THEN None ELSE m[y].parent
                               /\ q[y].next = IF y = n THEN None ELSE m[y].next
                               /\ q[y].prev = IF y = n THEN n ELSE m[y].prev
         /\ KeepChild(m, q) /\ KeepData(m, q)
<1> DEFINE m1 == [m EXCEPT ![n].parent = None]
           m2 == [m1 EXCEPT ![n].next = None]
           m3 == [m2 EXCEPT ![n].prev = n]
<1>1. q = m3
  BY DEF PutAlone
<1>2. n \in Nodes /\ None \in Link
  BY NodeFields DEF Link
<1>d1. m1 = PutParent(m, n, None)
  BY DEF PutParent
<1>d2. m2 = PutNext(m1, n, None)
  BY DEF PutNext
<1>d3. m3 = PutPrev(m2, n, n)
  BY DEF PutPrev
<1> HIDE DEF m1, m2, m3
<1>3. /\ m1 \in Mem /\ Live(m1) = Live(m)
      /\ \A y \in Live(m) : m1[y].parent = IF y = n THEN None ELSE m[y].parent
      /\ KeepChild(m, m1) /\ KeepNext(m, m1) /\ KeepPrev(m, m1) /\ KeepData(m, m1)
  BY <1>d1, <1>2, SetParent
<1>3a. n \in Live(m1)
  BY <1>3
<1>4. /\ m2 \in Mem /\ Live(m2) = Live(m1)
      /\ \A y \in Live(m1) : m2[y].next = IF y = n THEN None ELSE m1[y].next
      /\ KeepParent(m1, m2) /\ KeepChild(m1, m2) /\ KeepPrev(m1, m2) /\ KeepData(m1, m2)
  BY <1>d2, <1>2, <1>3, <1>3a, SetNext
<1>4a. n \in Live(m2)
  BY <1>3, <1>4
<1>5. /\ m3 \in Mem /\ Live(m3) = Live(m2)
      /\ \A y \in Live(m2) : m3[y].prev = IF y = n THEN n ELSE m2[y].prev
      /\ KeepParent(m2, m3) /\ KeepChild(m2, m3) /\ KeepNext(m2, m3) /\ KeepData(m2, m3)
  BY <1>d3, <1>2, <1>4, <1>4a, SetPrev
<1> QED
  BY <1>1, <1>3, <1>4, <1>5 DEF KeepParent, KeepChild, KeepNext, KeepPrev, KeepData

\* What lyd_unlink assigns when it takes a node from its list: the neighbours
\* of the node and its parent.
LEMMA DetachFields ==
  ASSUME NEW m, NEW L, Repr(m, L), NEW s \in L, NEW i \in 1..Len(s), NEW n, n = s[i],
         NEW q, q = Detach(m, n)
  PROVE  /\ q \in Mem /\ Live(q) = Live(m) /\ KeepData(m, q)
         /\ \A y \in Live(m) :
              /\ q[y].parent = IF y = n THEN None ELSE m[y].parent
              /\ q[y].child = IF y = m[n].parent /\ i = 1 THEN m[n].next ELSE m[y].child
              /\ q[y].next = IF y = n THEN None ELSE IF i # 1 /\ y = s[i - 1] THEN m[n].next ELSE m[y].next
              /\ q[y].prev = IF y = n THEN n
                             ELSE IF y = (IF i = Len(s) THEN s[1] ELSE s[i + 1]) THEN m[n].prev ELSE m[y].prev
<1> DEFINE x == m[n]
           m1 == IF m[x.prev].next = None THEN m ELSE [m EXCEPT ![x.prev].next = x.next]
           fix == IF x.next # None THEN x.next
                  ELSE IF x.parent # None THEN m1[x.parent].child ELSE FirstSibling(m, n)
           m2 == [m1 EXCEPT ![fix].prev = x.prev]
           m3 == IF x.parent = None \/ m2[x.parent].child # n THEN m2
                 ELSE [m2 EXCEPT ![x.parent].child = x.next]
           m4 == [m3 EXCEPT ![n].parent = None, ![n].next = None, ![n].prev = n]
           fx == IF i = Len(s) THEN s[1] ELSE s[i + 1]
<1>1. q = m4
  BY Zenon DEF Detach
<1>2. /\ s \in Seq(Nodes) /\ Len(s) \in Nat /\ Len(s) > 0 /\ 1 \in 1..Len(s) /\ Len(s) \in 1..Len(s)
      /\ \A j \in 1..Len(s) : s[j] \in Nodes /\ s[j] \in Live(m) /\ s[j] # None
      /\ \A j, k \in 1..Len(s) : s[j] = s[k] => j = k
  BY ReprList
<1>3. Ring(m, s) /\ OwnList(m, s) /\ m \in Mem
  BY DEF Repr
<1>4. /\ n \in Live(m) /\ n # None /\ x.parent \in Link /\ x.next \in Link /\ x.prev \in Nodes
      /\ x.next = IF i = Len(s) THEN None ELSE s[i + 1]
      /\ x.prev = IF i = 1 THEN s[Len(s)] ELSE s[i - 1]
      /\ x.parent = m[s[1]].parent
  <2>1. n \in Live(m)
    BY <1>2
  <2> QED
    BY <1>3, <2>1, NodeFields DEF Ring
<1>5. (m[x.prev].next = None) <=> (i = 1)
  <2>1. CASE i = 1
    BY <1>2, <1>3, <1>4, <2>1 DEF Ring
  <2>2. CASE i # 1
    <3>1. i - 1 \in 1..Len(s) /\ i - 1 # Len(s) /\ (i - 1) + 1 = i
      BY <1>2, <2>2
    <3>2. m[s[i - 1]].next = s[(i - 1) + 1]
      BY <3>1, <1>3 DEF Ring
    <3> QED
      BY <1>2, <1>4, <2>2, <3>1, <3>2
  <2> QED
    BY <2>1, <2>2
<1>6. x.parent # None => x.parent \in Live(m) /\ m[x.parent].child = s[1]
  BY <1>3, <1>4 DEF OwnList
<1>7. /\ i # 1 => s[i - 1] \in Live(m)
      /\ i # Len(s) => s[i + 1] \in Live(m) /\ s[i + 1] # None
      /\ s[1] \in Live(m) /\ fx \in Live(m) /\ x.prev \in Live(m)
  <2>1. i # 1 => i - 1 \in 1..Len(s)
    BY <1>2
  <2>2. i # Len(s) => i + 1 \in 1..Len(s)
    BY <1>2
  <2> QED
    BY <1>2, <1>4, <2>1, <2>2
<1>8. FirstSibling(m, n) = s[1]
  BY FirstOfList
<1> HIDE DEF x
<1>9. /\ m1 \in Mem /\ Live(m1) = Live(m)
      /\ \A y \in Live(m) : m1[y].next = IF i # 1 /\ y = s[i - 1] THEN x.next ELSE m[y].next
      /\ KeepParent(m, m1) /\ KeepChild(m, m1) /\ KeepPrev(m, m1) /\ KeepData(m, m1)
  <2>1. CASE i = 1
    <3>1. m1 = m
      BY <2>1, <1>5
    <3> HIDE DEF m1
    <3> QED
      BY <2>1, <3>1, <1>3 DEF KeepParent, KeepChild, KeepPrev, KeepData
  <2>2. CASE i # 1
    <3>1. m1 = PutNext(m, s[i - 1], x.next)
      BY <2>2, <1>4, <1>5 DEF PutNext
    <3> HIDE DEF m1
    <3> QED
      <4>1. s[i - 1] \in Live(m) /\ x.next \in Link /\ m \in Mem
        BY <2>2, <1>3, <1>4, <1>7
      <4>2. /\ m1 \in Mem /\ Live(m1) = Live(m)
            /\ \A y \in Live(m) : m1[y].next = IF y = s[i - 1] THEN x.next ELSE m[y].next
            /\ KeepParent(m, m1) /\ KeepChild(m, m1) /\ KeepPrev(m, m1) /\ KeepData(m, m1)
        BY <3>1, <4>1, SetNext
      <4> QED
        BY <2>2, <4>2
  <2> QED
    BY <2>1, <2>2
<1> HIDE DEF m1
<1>10. fix = fx
  BY <1>4, <1>6, <1>7, <1>8, <1>9 DEF KeepChild
<1> HIDE DEF fix
<1>11. /\ m2 \in Mem /\ Live(m2) = Live(m1)
       /\ \A y \in Live(m1) : m2[y].prev = IF y = fx THEN x.prev ELSE m1[y].prev
       /\ KeepParent(m1, m2) /\ KeepChild(m1, m2) /\ KeepNext(m1, m2) /\ KeepData(m1, m2)
  <2>1. m2 = PutPrev(m1, fx, x.prev)
    BY <1>10 DEF PutPrev
  <2>2. fx \in Live(m1) /\ x.prev \in Nodes /\ m1 \in Mem
    BY <1>4, <1>7, <1>9
  <2> HIDE DEF m2, fx
  <2> QED
    BY <2>1, <2>2, SetPrev
<1> HIDE DEF m2, fx
<1>12. /\ m3 \in Mem /\ Live(m3) = Live(m2)
       /\ \A y \in Live(m2) : m3[y].child = IF y = x.parent /\ i = 1 THEN x.next ELSE m2[y].child
       /\ KeepParent(m2, m3) /\ KeepNext(m2, m3) /\ KeepPrev(m2, m3) /\ KeepData(m2, m3)
  <2>1. x.parent # None => m2[x.parent].child = s[1]
    BY <1>6, <1>9, <1>11 DEF KeepChild
  <2>2. (s[1] # n) <=> (i # 1)
    BY <1>2
  <2>3. CASE x.parent = None \/ i # 1
    <3>1. m3 = m2
      BY <2>1, <2>2, <2>3
    <3> HIDE DEF m3
    <3>2. \A y \in Live(m2) : y = x.parent => i # 1
      BY <2>3, NoneIsNothing DEF Live
    <3> QED
      BY <3>1, <3>2, <1>11 DEF KeepParent, KeepNext, KeepPrev, KeepData
  <2>4. CASE x.parent # None /\ i = 1
    <3>1. m3 = PutChild(m2, x.parent, x.next)
      BY <2>1, <2>2, <2>4 DEF PutChild
    <3> HIDE DEF m3
    <3> QED
      <4>1. x.parent \in Live(m2) /\ x.next \in Link /\ m2 \in Mem
        BY <2>4, <1>4, <1>6, <1>9, <1>11
      <4>2. /\ m3 \in Mem /\ Live(m3) = Live(m2)
            /\ \A y \in Live(m2) : m3[y].child = IF y = x.parent THEN x.next ELSE m2[y].child
            /\ KeepParent(m2, m3) /\ KeepNext(m2, m3) /\ KeepPrev(m2, m3) /\ KeepData(m2, m3)
        BY <3>1, <4>1, SetChild
      <4> QED
        BY <2>4, <4>2
  <2> QED
    BY <2>3, <2>4
<1> HIDE DEF m3
<1>13. /\ m4 \in Mem /\ Live(m4) = Live(m3)
       /\ \A y \in Live(m3) : /\ m4[y].parent = IF y = n THEN None ELSE m3[y].parent
                              /\ m4[y].next = IF y = n THEN None ELSE m3[y].next
                              /\ m4[y].prev = IF y = n THEN n ELSE m3[y].prev
       /\ KeepChild(m3, m4) /\ KeepData(m3, m4)
  <2>1. n \in Live(m3) /\ m3 \in Mem
    BY <1>4, <1>9, <1>11, <1>12
  <2>2. m4 = PutAlone(m3, n)
    BY DEF PutAlone
  <2> HIDE DEF m4
  <2> QED
    BY <2>1, <2>2, SetAlone
<1> HIDE DEF m4
<1>14. Live(m1) = Live(m) /\ Live(m2) = Live(m) /\ Live(m3) = Live(m) /\ Live(m4) = Live(m)
  BY <1>9, <1>11, <1>12, <1>13
<1>15. KeepData(m, m4)
  BY <1>9, <1>11, <1>12, <1>13, <1>14 DEF KeepData
<1>16. ASSUME NEW y \in Live(m)
       PROVE  /\ m4[y].parent = IF y = n THEN None ELSE m[y].parent
              /\ m4[y].child = IF y = x.parent /\ i = 1 THEN x.next ELSE m[y].child
              /\ m4[y].next = IF y = n THEN None ELSE IF i # 1 /\ y = s[i - 1] THEN x.next ELSE m[y].next
              /\ m4[y].prev = IF y = n THEN n ELSE IF y = fx THEN x.prev ELSE m[y].prev
  BY <1>9, <1>11, <1>12, <1>13, <1>14 DEF KeepParent, KeepChild, KeepNext, KeepPrev
<1> QED
  BY <1>1, <1>13, <1>14, <1>15, <1>16 DEF x, fx
-----------------------------------------------------------------------------
(* Taking a node out of a list                                             *)

\* u has the same links in m and in q.
Untouched(m, q, u) ==
  \A i \in 1..Len(u) : /\ u[i] \in Live(q) /\ q[u[i]].next = m[u[i]].next
                       /\ q[u[i]].prev = m[u[i]].prev /\ q[u[i]].parent = m[u[i]].parent

\* The lists of A replaced by those of B, with all other lists as they were.
LEMMA Relink ==
  ASSUME NEW m, NEW L, Repr(m, L), NEW q \in Mem, NEW A, NEW B,
         \A t \in B : t \in Seq(Nodes) /\ t # << >> /\ Ring(q, t) /\ OwnList(q, t),
         Apart(B),
         \A u \in L \ A, t \in B : \A i \in 1..Len(u), j \in 1..Len(t) : u[i] # t[j],
         \A u \in L \ A : Untouched(m, q, u) /\ OwnList(q, u),
         Cover(q, (L \ A) \cup B),
         \A p \in Live(q) : OwnChild(q, (L \ A) \cup B, p)
  PROVE  Repr(q, (L \ A) \cup B)
<1>1. \A s \in (L \ A) \cup B : s \in Seq(Nodes) /\ s # << >>
  BY DEF Repr
<1>2. Apart((L \ A) \cup B)
  <2>1. Apart(L)
    BY DEF Repr
  <2>2. SUFFICES ASSUME NEW s \in (L \ A) \cup B, NEW t \in (L \ A) \cup B,
                        NEW i \in 1..Len(s), NEW j \in 1..Len(t), s[i] = t[j]
                 PROVE  s = t /\ i = j
    BY DEF Apart
  <2>3. CASE s \in L \ A /\ t \in L \ A
    BY <2>1, <2>2, <2>3 DEF Apart
  <2>4. CASE s \in B /\ t \in B
    BY <2>2, <2>4 DEF Apart
  <2>5. CASE s \in L \ A /\ t \in B
    BY <2>2, <2>5
  <2>6. CASE s \in B /\ t \in L \ A
    BY <2>2, <2>6
  <2> QED
    BY <2>3, <2>4, <2>5, <2>6
<1>3. ASSUME NEW u \in L \ A PROVE Ring(q, u)
  <2>1. Ring(m, u) /\ 1 \in 1..Len(u)
    BY ReprList DEF Repr
  <2>2. q[u[1]].parent = m[u[1]].parent
    BY <2>1 DEF Untouched
  <2> QED
    BY <2>1, <2>2 DEF Ring, Untouched
<1> QED
  BY <1>1, <1>2, <1>3 DEF Repr

\* A list without the node at position i.
Drop(s, i) == [j \in 1..(Len(s) - 1) |-> IF j < i THEN s[j] ELSE s[j + 1]]

\* Where the node at position j of it was before.
Skip(i, j) == IF j < i THEN j ELSE j + 1

\* It has the other nodes in their order.
LEMMA DropFacts ==
  ASSUME NEW S, NEW s \in Seq(S), NEW i \in 1..Len(s)
  PROVE  /\ Drop(s, i) \in Seq(S) /\ Len(Drop(s, i)) = Len(s) - 1 /\ Len(s) \in Nat
         /\ \A j \in 1..(Len(s) - 1) : Drop(s, i)[j] = s[Skip(i, j)]
         /\ \A j \in 1..(Len(s) - 1) : Skip(i, j) \in 1..Len(s) /\ Skip(i, j) # i
         /\ \A k \in 1..Len(s) : k # i => \E j \in 1..(Len(s) - 1) : k = Skip(i, j) /\ Drop(s, i)[j] = s[k]
<1>1. Len(s) \in Nat /\ s \in [1..Len(s) -> S] /\ Len(s) - 1 \in Nat
  BY ListFacts
<1>2. \A j \in 1..(Len(s) - 1) : Skip(i, j) \in 1..Len(s) /\ Skip(i, j) # i
  BY <1>1 DEF Skip
<1>3. \A j \in 1..(Len(s) - 1) : Drop(s, i)[j] = s[Skip(i, j)]
  BY DEF Drop, Skip
<1>4. Drop(s, i) = [j \in 1..(Len(s) - 1) |-> s[Skip(i, j)]]
  BY DEF Drop, Skip
<1>5. Drop(s, i) \in [1..(Len(s) - 1) -> S]
  BY <1>1, <1>2, <1>4
<1>6. Drop(s, i) \in Seq(S) /\ Len(Drop(s, i)) = Len(s) - 1
  BY <1>1, <1>5, FunctionList, Zenon
<1>7. ASSUME NEW k \in 1..Len(s), k # i
      PROVE  \E j \in 1..(Len(s) - 1) : k = Skip(i, j) /\ Drop(s, i)[j] = s[k]
  <2>1. CASE k < i
    <3>1. k \in 1..(Len(s) - 1) /\ k = Skip(i, k)
      BY <1>1, <2>1 DEF Skip
    <3> QED
      BY <3>1, <1>3
  <2>2. CASE ~(k < i)
    <3>1. k - 1 \in 1..(Len(s) - 1) /\ k = Skip(i, k - 1)
      BY <1>1, <1>7, <2>2 DEF Skip
    <3> QED
      BY <3>1, <1>3
  <2> QED
    BY <2>1, <2>2
<1> QED
  BY <1>1, <1>2, <1>3, <1>6, <1>7

\* What is left of a list: nothing of a list with one node.
Rest(s, i) == IF Len(s) = 1 THEN {} ELSE {Drop(s, i)}

\* A list with one node.
LEMMA Single ==
  ASSUME NEW S, NEW n \in S
  PROVE  <<n>> \in Seq(S) /\ <<n>> # << >> /\ Len(<<n>>) = 1 /\ <<n>>[1] = n /\ Range(<<n>>) = {n}
<1>1. <<n>> \in Seq(S) /\ <<n>> # << >> /\ Len(<<n>>) = 1 /\ <<n>>[1] = n
  OBVIOUS
<1>2. Range(<<n>>) = {<<n>>[i] : i \in 1..Len(<<n>>)}
  BY <1>1, ListFacts
<1>3. 1..1 = {1}
  OBVIOUS
<1> QED
  BY <1>1, <1>2, <1>3
\* The fields of the other nodes of the list, by their positions.
LEMMA DetachRing ==
  ASSUME NEW m, NEW L, Repr(m, L), NEW s \in L, NEW i \in 1..Len(s), NEW n, n = s[i],
         NEW q, q = Detach(m, n), NEW k \in 1..Len(s), k # i
  PROVE  /\ s[k] \in Live(q) /\ q[s[k]].parent = m[s[1]].parent
         /\ q[s[k]].next = IF k = Len(s) \/ (k = Len(s) - 1 /\ i = Len(s)) THEN None
                           ELSE IF k + 1 = i THEN s[i + 1] ELSE s[k + 1]
         /\ q[s[k]].prev = IF k = 1 \/ (k = 2 /\ i = 1) THEN (IF i = Len(s) THEN s[Len(s) - 1] ELSE s[Len(s)])
                           ELSE IF k - 1 = i THEN s[i - 1] ELSE s[k - 1]
<1>1. /\ s \in Seq(Nodes) /\ Len(s) \in Nat /\ Len(s) > 0
      /\ \A j \in 1..Len(s) : s[j] \in Nodes /\ s[j] \in Live(m) /\ s[j] # None
      /\ \A j, l \in 1..Len(s) : s[j] = s[l] => j = l
  BY ReprList
<1>2. Ring(m, s)
  BY DEF Repr
<1>3. /\ Live(q) = Live(m)
      /\ q[s[k]].parent = IF s[k] = n THEN None ELSE m[s[k]].parent
      /\ q[s[k]].next = IF s[k] = n THEN None ELSE IF i # 1 /\ s[k] = s[i - 1] THEN m[n].next ELSE m[s[k]].next
      /\ q[s[k]].prev = IF s[k] = n THEN n
                        ELSE IF s[k] = (IF i = Len(s) THEN s[1] ELSE s[i + 1]) THEN m[n].prev ELSE m[s[k]].prev
  BY <1>1, DetachFields
<1>4. s[k] # n
  BY <1>1
<1>5. /\ m[n].next = IF i = Len(s) THEN None ELSE s[i + 1]
      /\ m[n].prev = IF i = 1 THEN s[Len(s)] ELSE s[i - 1]
      /\ m[s[k]].next = IF k = Len(s) THEN None ELSE s[k + 1]
      /\ m[s[k]].prev = IF k = 1 THEN s[Len(s)] ELSE s[k - 1]
      /\ m[s[k]].parent = m[s[1]].parent
  BY <1>2 DEF Ring
<1>6. PICK l \in Nat : l = Len(s)
  BY <1>1
<1>7. i # 1 => i - 1 \in 1..l /\ (s[k] = s[i - 1] <=> k = i - 1)
  BY <1>1, <1>6
<1>8. /\ i = l => (s[k] = s[1] <=> k = 1)
      /\ i # l => i + 1 \in 1..l /\ (s[k] = s[i + 1] <=> k = i + 1)
  BY <1>1, <1>6
<1>9. q[s[k]].next = IF k = l \/ (k = l - 1 /\ i = l) THEN None
                     ELSE IF k + 1 = i THEN s[i + 1] ELSE s[k + 1]
  <2>1. CASE k = i - 1
    <3>1. i # 1 /\ k # l /\ k + 1 = i /\ (k = l - 1 <=> i = l)
      BY <2>1, <1>6
    <3>2. q[s[k]].next = m[n].next
      BY <3>1, <2>1, <1>3, <1>4, <1>7
    <3> QED
      BY <3>1, <3>2, <1>5, <1>6
  <2>2. CASE k # i - 1
    <3>1. k + 1 # i /\ ~(k = l - 1 /\ i = l)
      BY <2>2, <1>6
    <3>2. q[s[k]].next = m[s[k]].next
      BY <2>2, <1>3, <1>4, <1>7
    <3> QED
      BY <3>1, <3>2, <1>5, <1>6
  <2> QED
    BY <2>1, <2>2
<1>10. q[s[k]].prev = IF k = 1 \/ (k = 2 /\ i = 1) THEN (IF i = l THEN s[l - 1] ELSE s[l])
                      ELSE IF k - 1 = i THEN s[i - 1] ELSE s[k - 1]
  <2>1. CASE i = l /\ k = 1
    <3>1. q[s[k]].prev = m[n].prev /\ i # 1
      BY <2>1, <1>3, <1>4, <1>6, <1>8
    <3> QED
      BY <3>1, <2>1, <1>5, <1>6
  <2>2. CASE i = l /\ k # 1
    <3>1. q[s[k]].prev = m[s[k]].prev /\ ~(k = 2 /\ i = 1) /\ k - 1 # i
      BY <2>2, <1>3, <1>4, <1>6, <1>8
    <3> QED
      BY <3>1, <2>2, <1>5, <1>6
  <2>3. CASE i # l /\ k = i + 1
    <3>1. q[s[k]].prev = m[n].prev /\ k # 1 /\ k - 1 = i /\ (k = 2 <=> i = 1)
      BY <2>3, <1>3, <1>4, <1>6, <1>8
    <3> QED
      BY <3>1, <2>3, <1>5, <1>6
  <2>4. CASE i # l /\ k # i + 1
    <3>1. q[s[k]].prev = m[s[k]].prev /\ k - 1 # i /\ ~(k = 2 /\ i = 1)
      BY <2>4, <1>3, <1>4, <1>6, <1>8
    <3> QED
      BY <3>1, <2>4, <1>5, <1>6
  <2> QED
    BY <2>1, <2>2, <2>3, <2>4
<1> QED
  BY <1>1, <1>3, <1>4, <1>5, <1>6, <1>9, <1>10

\* The rest of the list is a ring again.
LEMMA DropRing ==
  ASSUME NEW m, NEW L, Repr(m, L), NEW s \in L, NEW i \in 1..Len(s), NEW n, n = s[i],
         NEW q, q = Detach(m, n), Len(s) # 1
  PROVE  Ring(q, Drop(s, i)) /\ q[Drop(s, i)[1]].parent = m[s[1]].parent
<1> DEFINE t == Drop(s, i)
<1>1. /\ s \in Seq(Nodes) /\ Len(s) \in Nat /\ Len(s) > 0
      /\ \A j \in 1..Len(s) : s[j] \in Nodes /\ s[j] \in Live(m) /\ s[j] # None
  BY ReprList
<1>2. /\ t \in Seq(Nodes) /\ Len(t) = Len(s) - 1
      /\ \A j \in 1..(Len(s) - 1) : t[j] = s[Skip(i, j)]
      /\ \A j \in 1..(Len(s) - 1) : Skip(i, j) \in 1..Len(s) /\ Skip(i, j) # i
  BY <1>1, DropFacts
<1> HIDE DEF t
<1>3. PICK l \in Nat : l = Len(s)
  BY <1>1
<1>4. l > 1 /\ i \in 1..l /\ Len(t) = l - 1 /\ 1 \in 1..(l - 1)
  BY <1>1, <1>2, <1>3
<1>5. \A j \in 1..(l - 1) : (KindOf[t[j]] = "c") <=> (KindOf[s[1]] = "c")
  <2>1. Ring(m, s)
    BY DEF Repr
  <2> QED
    BY <2>1, <1>2, <1>3 DEF Ring
<1>6. ASSUME NEW j \in 1..(l - 1)
      PROVE  /\ t[j] \in Live(q) /\ q[t[j]].parent = m[s[1]].parent
             /\ q[t[j]].next = IF j = l - 1 THEN None ELSE t[j + 1]
             /\ q[t[j]].prev = IF j = 1 THEN t[l - 1] ELSE t[j - 1]
  <2>a. PICK k \in 1..l : k # i /\ k = Skip(i, j)
    BY <1>2, <1>3
  <2>2. t[j] = s[k]
    BY <2>a, <1>2, <1>3
  <2>1. k \in 1..l /\ k # i /\ k = IF j < i THEN j ELSE j + 1
    BY <2>a DEF Skip
  <2>3. /\ s[k] \in Live(q) /\ q[s[k]].parent = m[s[1]].parent
        /\ q[s[k]].next = IF k = l \/ (k = l - 1 /\ i = l) THEN None
                          ELSE IF k + 1 = i THEN s[i + 1] ELSE s[k + 1]
        /\ q[s[k]].prev = IF k = 1 \/ (k = 2 /\ i = 1) THEN (IF i = l THEN s[l - 1] ELSE s[l])
                          ELSE IF k - 1 = i THEN s[i - 1] ELSE s[k - 1]
    <3>1. k \in 1..Len(s) /\ k # i
      BY <2>1, <1>3
    <3>2. /\ s[k] \in Live(q) /\ q[s[k]].parent = m[s[1]].parent
          /\ q[s[k]].next = IF k = Len(s) \/ (k = Len(s) - 1 /\ i = Len(s)) THEN None
                            ELSE IF k + 1 = i THEN s[i + 1] ELSE s[k + 1]
          /\ q[s[k]].prev = IF k = 1 \/ (k = 2 /\ i = 1) THEN (IF i = Len(s) THEN s[Len(s) - 1] ELSE s[Len(s)])
                            ELSE IF k - 1 = i THEN s[i - 1] ELSE s[k - 1]
      BY <3>1, DetachRing
    <3> QED
      BY <3>2, <1>3, Zenon
  <2>4. q[s[k]].next = IF j = l - 1 THEN None ELSE t[j + 1]
    <3>1. CASE j = l - 1
      <4>1. k = l \/ (k = l - 1 /\ i = l)
        BY <3>1, <2>1, <1>4
      <4> QED
        BY <3>1, <4>1, <2>3
    <3>2. CASE j # l - 1
      <4>1. j + 1 \in 1..(l - 1) /\ ~(k = l \/ (k = l - 1 /\ i = l))
        BY <3>2, <2>1, <1>4
      <4>2. t[j + 1] = s[Skip(i, j + 1)]
        BY <4>1, <1>2, <1>3
      <4>3. (IF k + 1 = i THEN i + 1 ELSE k + 1) = Skip(i, j + 1)
        BY <2>1, <1>4 DEF Skip
      <4> QED
        BY <3>2, <4>1, <4>2, <4>3, <2>3
    <3> QED
      BY <3>1, <3>2
  <2>5. q[s[k]].prev = IF j = 1 THEN t[l - 1] ELSE t[j - 1]
    <3>1. CASE j = 1
      <4>1. (k = 1 \/ (k = 2 /\ i = 1)) /\ l - 1 \in 1..(l - 1)
        BY <3>1, <2>1, <1>4
      <4>2. t[l - 1] = s[Skip(i, l - 1)]
        BY <4>1, <1>2, <1>3
      <4>3. (IF i = l THEN l - 1 ELSE l) = Skip(i, l - 1)
        BY <1>4 DEF Skip
      <4> QED
        BY <3>1, <4>1, <4>2, <4>3, <2>3
    <3>2. CASE j # 1
      <4>1. j - 1 \in 1..(l - 1) /\ ~(k = 1 \/ (k = 2 /\ i = 1))
        BY <3>2, <2>1, <1>4
      <4>2. t[j - 1] = s[Skip(i, j - 1)]
        BY <4>1, <1>2, <1>3
      <4>3. (IF k - 1 = i THEN i - 1 ELSE k - 1) = Skip(i, j - 1)
        BY <3>2, <2>1, <1>4 DEF Skip
      <4> QED
        BY <3>2, <4>1, <4>2, <4>3, <2>3
    <3> QED
      BY <3>1, <3>2
  <2> QED
    BY <2>2, <2>3, <2>4, <2>5
<1>7. q[t[1]].parent = m[s[1]].parent
  BY <1>4, <1>6
<1>8. Ring(q, t)
  BY <1>4, <1>5, <1>6, <1>7 DEF Ring
<1> QED
  BY <1>7, <1>8 DEF t

\* lyd_unlink takes the node out of its list and makes it a list of its own.
LEMMA DetachRepr ==
  ASSUME NEW m, NEW L, Repr(m, L), NEW s \in L, NEW i \in 1..Len(s), NEW n, n = s[i],
         NEW q, q = Detach(m, n)
  PROVE  Repr(q, (L \ {s}) \cup (Rest(s, i) \cup {<<n>>}))
<1> DEFINE B == Rest(s, i) \cup {<<n>>}
           t == Drop(s, i)
<1>1. /\ s \in Seq(Nodes) /\ Len(s) \in Nat /\ Len(s) > 0 /\ 1 \in 1..Len(s)
      /\ \A j \in 1..Len(s) : s[j] \in Nodes /\ s[j] \in Live(m) /\ s[j] # None
      /\ \A j, k \in 1..Len(s) : s[j] = s[k] => j = k
  BY ReprList
<1>2. /\ q \in Mem /\ Live(q) = Live(m)
      /\ \A y \in Live(m) :
           /\ q[y].parent = IF y = n THEN None ELSE m[y].parent
           /\ q[y].child = IF y = m[n].parent /\ i = 1 THEN m[n].next ELSE m[y].child
           /\ q[y].next = IF y = n THEN None ELSE IF i # 1 /\ y = s[i - 1] THEN m[n].next ELSE m[y].next
           /\ q[y].prev = IF y = n THEN n
                          ELSE IF y = (IF i = Len(s) THEN s[1] ELSE s[i + 1]) THEN m[n].prev ELSE m[y].prev
  BY DetachFields
<1>3. Ring(m, s) /\ OwnList(m, s) /\ Apart(L) /\ Cover(m, L)
  BY DEF Repr
<1>4. n \in Nodes /\ n \in Live(m) /\ m[n].parent = m[s[1]].parent /\ m[n].next = IF i = Len(s) THEN None ELSE s[i + 1]
  BY <1>1, <1>3 DEF Ring
<1>5. <<n>> \in Seq(Nodes) /\ <<n>> # << >> /\ Len(<<n>>) = 1 /\ <<n>>[1] = n
  BY <1>4, Single
<1>6. /\ t \in Seq(Nodes) /\ Len(t) = Len(s) - 1
      /\ \A j \in 1..(Len(s) - 1) : t[j] = s[Skip(i, j)]
      /\ \A j \in 1..(Len(s) - 1) : Skip(i, j) \in 1..Len(s) /\ Skip(i, j) # i
      /\ \A k \in 1..Len(s) : k # i => \E j \in 1..(Len(s) - 1) : k = Skip(i, j) /\ t[j] = s[k]
  BY <1>1, DropFacts, ZenonT(20)
<1>7. Len(s) # 1 => Ring(q, t) /\ q[t[1]].parent = m[s[1]].parent
  BY DropRing
<1>8. B = (IF Len(s) = 1 THEN {} ELSE {t}) \cup {<<n>>}
  BY DEF Rest
<1>9. Len(s) # 1 => /\ t # << >> /\ 1 \in 1..(Len(s) - 1)
                    /\ i # 1 => t[1] = s[1]
                    /\ i = 1 => t[1] = s[i + 1] /\ i # Len(s)
  <2>1. SUFFICES ASSUME Len(s) # 1
                 PROVE  /\ t # << >> /\ 1 \in 1..(Len(s) - 1)
                        /\ i # 1 => t[1] = s[1]
                        /\ i = 1 => t[1] = s[i + 1] /\ i # Len(s)
    OBVIOUS
  <2>2. /\ 1 \in 1..(Len(s) - 1)
        /\ i # 1 => Skip(i, 1) = 1
        /\ i = 1 => i # Len(s) /\ Skip(i, 1) = i + 1
    <3>1. PICK l \in Nat : l = Len(s)
      BY <1>1
    <3>2. l > 1 /\ i \in 1..l
      BY <1>1, <2>1, <3>1
    <3> QED
      BY <3>1, <3>2 DEF Skip
  <2>3. t # << >>
    BY <1>1, <1>6, <2>2, ListFacts
  <2> QED
    BY <1>1, <1>6, <2>2, <2>3, Zenon
<1> HIDE DEF B, t
<1>10. Ring(q, <<n>>) /\ OwnList(q, <<n>>) /\ q[n].parent = None /\ q[n].next = None /\ q[n].prev = n
  <2>1. q[n].parent = None /\ q[n].next = None /\ q[n].prev = n /\ n \in Live(q)
    BY <1>2, <1>4
  <2> QED
    BY <2>1, <1>5 DEF Ring, OwnList
<1>11. Len(s) # 1 => OwnList(q, t)
  <2>1. SUFFICES ASSUME Len(s) # 1, m[s[1]].parent # None
                 PROVE  /\ m[s[1]].parent \in Live(q)
                        /\ KindOf[m[s[1]].parent] = "c" /\ KindOf[t[1]] # "c"
                        /\ q[m[s[1]].parent].child = t[1]
    BY <1>7 DEF OwnList
  <2>2. m[s[1]].parent \in Live(m) /\ KindOf[m[s[1]].parent] = "c" /\ KindOf[s[1]] # "c" /\ m[m[s[1]].parent].child = s[1]
    BY <1>3, <2>1 DEF OwnList
  <2>3. KindOf[t[1]] # "c"
    <3>1. Skip(i, 1) \in 1..Len(s) /\ t[1] = s[Skip(i, 1)]
      BY <1>6, <1>9, <2>1
    <3> QED
      BY <1>3, <2>2, <3>1 DEF Ring
  <2>4. q[m[s[1]].parent].child = t[1]
    BY <1>2, <1>4, <1>9, <2>1, <2>2
  <2> QED
    BY <1>2, <2>2, <2>3, <2>4
<1>12. \A u \in B : u \in Seq(Nodes) /\ u # << >> /\ Ring(q, u) /\ OwnList(q, u)
  BY <1>5, <1>6, <1>7, <1>8, <1>9, <1>10, <1>11
<1>13. \A j \in 1..(Len(s) - 1) : t[j] # n /\ \A k \in 1..(Len(s) - 1) : t[j] = t[k] => j = k
  <2>1. ASSUME NEW j \in 1..(Len(s) - 1) PROVE t[j] # n
    <3>1. t[j] = s[Skip(i, j)] /\ Skip(i, j) \in 1..Len(s) /\ Skip(i, j) # i
      BY <1>6
    <3> QED
      BY <1>1, <3>1
  <2>2. ASSUME NEW j \in 1..(Len(s) - 1), NEW k \in 1..(Len(s) - 1), t[j] = t[k] PROVE j = k
    <3>1. Skip(i, j) = Skip(i, k)
      <4>1. s[Skip(i, j)] = s[Skip(i, k)] /\ Skip(i, j) \in 1..Len(s) /\ Skip(i, k) \in 1..Len(s)
        BY <1>6, <2>2
      <4> QED
        BY <1>1, <4>1
    <3> QED
      BY <3>1, <1>1 DEF Skip
  <2> QED
    BY <2>1, <2>2
<1>14. Apart(B)
  <2>1. SUFFICES ASSUME NEW u \in B, NEW v \in B, NEW j \in 1..Len(u), NEW k \in 1..Len(v), u[j] = v[k]
                 PROVE  u = v /\ j = k
    BY DEF Apart
  <2>2. CASE u = <<n>> /\ v = <<n>>
    BY <2>1, <2>2, <1>5
  <2>3. CASE u = t /\ v = t
    BY <2>1, <2>3, <1>6, <1>13
  <2>4. CASE u = t /\ v = <<n>>
    <3>1. k = 1
      BY <2>1, <2>4, <1>5
    <3> QED
      BY <2>1, <2>4, <3>1, <1>5, <1>6, <1>13
  <2>5. CASE u = <<n>> /\ v = t
    <3>1. j = 1
      BY <2>1, <2>5, <1>5
    <3> QED
      BY <2>1, <2>5, <3>1, <1>5, <1>6, <1>13
  <2> QED
    BY <1>8, <2>1, <2>2, <2>3, <2>4, <2>5
<1>15. \A u \in B : \A j \in 1..Len(u) : \E k \in 1..Len(s) : u[j] = s[k]
  <2>1. ASSUME NEW u \in B, NEW j \in 1..Len(u) PROVE \E k \in 1..Len(s) : u[j] = s[k]
    <3>1. CASE u = t
      BY <2>1, <3>1, <1>6
    <3>2. CASE u = <<n>>
      <4>1. j = 1
        BY <2>1, <3>2, <1>5
      <4> QED
        BY <4>1, <3>2, <1>5
    <3> QED
      BY <3>1, <3>2, <1>8, <2>1
  <2> QED
    BY <2>1
<1>16. \A u \in L \ {s} : \A j \in 1..Len(u), k \in 1..Len(s) : u[j] # s[k]
  BY <1>3 DEF Apart
<1>17. \A u \in L \ {s}, v \in B : \A j \in 1..Len(u), k \in 1..Len(v) : u[j] # v[k]
  BY <1>15, <1>16
<1>18. ASSUME NEW u \in L \ {s} PROVE Untouched(m, q, u) /\ OwnList(q, u)
  <2>1. 1 \in 1..Len(u) /\ \A j \in 1..Len(u) : u[j] \in Live(m)
    BY ReprList
  <2>2. i # 1 => i - 1 \in 1..Len(s)
    BY <1>1
  <2>3. i # Len(s) => i + 1 \in 1..Len(s)
    BY <1>1
  <2>4. \A j \in 1..Len(u) : /\ u[j] # n /\ u[j] # s[1]
                             /\ i # 1 => u[j] # s[i - 1]
                             /\ i # Len(s) => u[j] # s[i + 1]
    BY <1>1, <1>16, <2>2, <2>3
  <2>5. Untouched(m, q, u)
    BY <1>2, <2>1, <2>4 DEF Untouched
  <2>6. OwnList(q, u)
    <3>1. q[u[1]].parent = m[u[1]].parent /\ OwnList(m, u)
      BY <2>1, <2>5 DEF Untouched, Repr
    <3>2. SUFFICES ASSUME m[u[1]].parent # None
                   PROVE  /\ m[u[1]].parent \in Live(q) /\ KindOf[m[u[1]].parent] = "c" /\ KindOf[u[1]] # "c"
                          /\ q[m[u[1]].parent].child = u[1]
      BY <3>1 DEF OwnList
    <3>3. m[u[1]].parent # m[n].parent
      BY <1>4, <3>2, OneList
    <3>4. /\ m[u[1]].parent \in Live(m) /\ KindOf[m[u[1]].parent] = "c" /\ KindOf[u[1]] # "c"
          /\ m[m[u[1]].parent].child = u[1]
      BY <3>1, <3>2 DEF OwnList
    <3> QED
      BY <1>2, <3>3, <3>4
  <2> QED
    BY <2>5, <2>6
<1>19. Cover(q, (L \ {s}) \cup B)
  <2>1. SUFFICES ASSUME NEW y \in Live(m) PROVE \E u \in (L \ {s}) \cup B : \E j \in 1..Len(u) : u[j] = y
    BY <1>2 DEF Cover
  <2>2. PICK u \in L : \E j \in 1..Len(u) : u[j] = y
    BY <1>3 DEF Cover
  <2>3. CASE u # s
    BY <2>2, <2>3
  <2>4. CASE u = s
    <3>1. PICK k \in 1..Len(s) : s[k] = y
      BY <2>2, <2>4
    <3>2. CASE k = i
      <4>1. <<n>> \in B /\ 1 \in 1..Len(<<n>>)
        BY <1>5, <1>8
      <4>2. <<n>>[1] = y
        BY <3>1, <3>2, <1>5
      <4> QED
        BY <4>1, <4>2
    <3>3. CASE k # i
      <4>1. Len(s) # 1
        <5>1. Len(s) = 1 => k = 1 /\ i = 1
          BY <1>1
        <5> QED
          BY <3>3, <5>1
      <4>2. t \in B
        BY <1>8, <4>1
      <4>3. \E j \in 1..Len(t) : t[j] = y
        BY <3>1, <3>3, <1>6
      <4> QED
        BY <4>2, <4>3
    <3> QED
      BY <3>2, <3>3
  <2> QED
    BY <2>3, <2>4
<1>20. ASSUME NEW p \in Live(q) PROVE OwnChild(q, (L \ {s}) \cup B, p)
  <2>1. SUFFICES ASSUME q[p].child # None
                 PROVE  \E u \in (L \ {s}) \cup B : u[1] = q[p].child /\ q[u[1]].parent = p
    BY DEF OwnChild
  <2>2. p \in Live(m) /\ q[p].child = IF p = m[n].parent /\ i = 1 THEN m[n].next ELSE m[p].child
    BY <1>2, <1>20
  <2>3. CASE p = m[n].parent /\ i = 1
    <3>1. i # Len(s) /\ q[p].child = s[i + 1]
      BY <1>4, <2>1, <2>2, <2>3
    <3>2. Len(s) # 1
      BY <2>3, <3>1
    <3>3. t \in B /\ t[1] = s[i + 1] /\ q[t[1]].parent = p
      BY <1>4, <1>7, <1>8, <1>9, <2>3, <3>2
    <3> QED
      BY <3>1, <3>3
  <2>4. CASE ~(p = m[n].parent /\ i = 1)
    <3>1. q[p].child = m[p].child
      BY <2>2, <2>4
    <3>2. PICK u \in L : u[1] = m[p].child /\ m[u[1]].parent = p
      BY <2>1, <2>2, <3>1 DEF Repr, OwnChild
    <3>3. CASE u # s
      <4>1. u \in L \ {s} /\ 1 \in 1..Len(u)
        BY <3>3, ReprList
      <4>2. q[u[1]].parent = m[u[1]].parent
        BY <4>1, <1>18 DEF Untouched
      <4> QED
        BY <3>1, <3>2, <4>1, <4>2
    <3>4. CASE u = s
      <4>1. i # 1
        BY <1>4, <2>4, <3>2, <3>4
      <4>2. Len(s) # 1
        BY <1>1, <4>1
      <4>3. t \in B /\ t[1] = s[1] /\ q[t[1]].parent = p
        BY <1>7, <1>8, <1>9, <3>2, <3>4, <4>1, <4>2
      <4> QED
        BY <3>1, <3>2, <3>4, <4>3
    <3> QED
      BY <3>3, <3>4
  <2> QED
    BY <2>3, <2>4
<1>21. Repr(q, (L \ {s}) \cup B)
  BY <1>2, <1>12, <1>14, <1>17, <1>18, <1>19, <1>20, Relink
<1> QED
  BY <1>21 DEF B
-----------------------------------------------------------------------------
(* lyd_unlink                                                              *)

\* The subtree of a node: the node and its children.
LEMMA SubtreeFacts ==
  ASSUME NEW m, NEW L, Repr(m, L), NEW n \in Live(m)
  PROVE  /\ Subtree(m, n) \in Seq(Nodes) /\ Range(Subtree(m, n)) = {n} \cup Range(Children(m, n))
         /\ Range(Subtree(m, n)) \subseteq Live(m)
<1> DEFINE c == Children(m, n)
<1>1. c \in Seq(Nodes) /\ Range(c) \subseteq Live(m)
  BY WalksLive
<1>2. n \in Nodes
  BY DEF Live
<1>3. <<n>> \in Seq(Nodes) /\ Len(<<n>>) = 1 /\ <<n>>[1] = n
  BY <1>2, Single
<1>4. Subtree(m, n) = <<n>> \o c
  BY DEF Subtree
<1> HIDE DEF c
<1>5. /\ Subtree(m, n) \in Seq(Nodes) /\ Len(Subtree(m, n)) = 1 + Len(c)
      /\ \A i \in 1..(1 + Len(c)) : Subtree(m, n)[i] = IF i <= 1 THEN <<n>>[i] ELSE c[i - 1]
  BY <1>1, <1>3, <1>4, ConcatProperties
<1>6. Len(c) \in Nat /\ Range(c) = {c[i] : i \in 1..Len(c)}
  BY <1>1, ListFacts
<1>7. Range(Subtree(m, n)) = {Subtree(m, n)[i] : i \in 1..(1 + Len(c))}
  BY <1>5, ListFacts
<1>8. ASSUME NEW i \in 1..(1 + Len(c)) PROVE Subtree(m, n)[i] \in {n} \cup Range(c)
  <2>1. CASE i = 1
    BY <1>3, <1>5, <2>1
  <2>2. CASE i # 1
    <3>1. ~(i <= 1) /\ i - 1 \in 1..Len(c)
      BY <1>6, <2>2
    <3>2. Subtree(m, n)[i] = c[i - 1]
      BY <3>1, <1>5
    <3> QED
      BY <3>1, <3>2, <1>6
  <2> QED
    BY <2>1, <2>2
<1>9. n \in Range(Subtree(m, n))
  <2>1. 1 \in 1..(1 + Len(c)) /\ Subtree(m, n)[1] = n
    BY <1>3, <1>5, <1>6
  <2> QED
    BY <2>1, <1>7
<1>10. ASSUME NEW i \in 1..Len(c) PROVE c[i] \in Range(Subtree(m, n))
  <2>1. i + 1 \in 1..(1 + Len(c)) /\ ~(i + 1 <= 1) /\ (i + 1) - 1 = i
    BY <1>6
  <2>2. Subtree(m, n)[i + 1] = c[i]
    BY <2>1, <1>5
  <2> QED
    BY <2>1, <2>2, <1>7
<1>11. Range(Subtree(m, n)) = {n} \cup Range(c)
  BY <1>6, <1>7, <1>8, <1>9, <1>10
<1> QED
  BY <1>1, <1>5, <1>11 DEF c

\* lyd_get_node2 finds allocated nodes.
LEMMA Node2Live ==
  ASSUME NEW m, NEW L, Repr(m, L), NEW n \in Live(m), NEW kind
  PROVE  lyd_get_node2(m, n, kind) \subseteq Live(m)
<1>1. Range(TopList(m, n)) \subseteq Live(m)
  BY WalksLive
<1>2. \A p \in Range(TopList(m, n)) : Range(Children(m, p)) \subseteq Live(m)
  BY <1>1, WalksLive
<1> QED
  BY <1>2 DEF lyd_get_node2

\* The leafrefs that lose their pointer when n is unlinked.
Losers(m, n) ==
  {s \in Nodes : \E x \in {y \in Range(Subtree(m, n)) : KindOf[y] = "t"} :
     s \in lyd_get_node2(m, x, "r") \cup lyd_get_node2(m, x, "m") /\ m[s].leafref = x}

\* They do, and nothing else changes.
LEMMA ClearFacts ==
  ASSUME NEW m, NEW L, Repr(m, L), NEW n \in Live(m), NEW q, q = ClearLeafrefs(m, n)
  PROVE  /\ SameLinks(m, q)
         /\ \A y \in Live(m) : /\ q[y].leafref = IF y \in Losers(m, n) THEN None ELSE m[y].leafref
                               /\ q[y].val = m[y].val /\ q[y].valid = m[y].valid
<1>1. Losers(m, n) \subseteq Live(m)
  <2>1. Range(Subtree(m, n)) \subseteq Live(m)
    BY SubtreeFacts
  <2>2. \A x \in Range(Subtree(m, n)) : lyd_get_node2(m, x, "r") \cup lyd_get_node2(m, x, "m") \subseteq Live(m)
    BY <2>1, Node2Live
  <2> QED
    BY <2>2 DEF Losers
<1>2. q = [s \in Nodes |-> IF s \in Losers(m, n) THEN [m[s] EXCEPT !.leafref = None] ELSE m[s]]
  BY DEF ClearLeafrefs, Losers
<1>3. m \in Mem
  BY DEF Repr
<1> DEFINE r(x) == [m[x] EXCEPT !.leafref = None]
<1>4. ASSUME NEW x \in Live(m)
      PROVE  /\ r(x) \in Node /\ r(x) # None /\ r(x).leafref = None
             /\ r(x).parent = m[x].parent /\ r(x).child = m[x].child /\ r(x).next = m[x].next /\ r(x).prev = m[x].prev
             /\ r(x).val = m[x].val /\ r(x).valid = m[x].valid
  <2>1. m[x] \in Node /\ None \notin Node
    BY <1>3, <1>4, NodeFields, NoneIsNothing
  <2>2. r(x) \in Node
    BY <2>1 DEF Node, Link
  <2>3. /\ r(x).leafref = None
        /\ r(x).parent = m[x].parent /\ r(x).child = m[x].child /\ r(x).next = m[x].next /\ r(x).prev = m[x].prev
        /\ r(x).val = m[x].val /\ r(x).valid = m[x].valid
    BY <2>1 DEF Node
  <2> QED
    BY <2>1, <2>2, <2>3
<1>5. \A s \in Nodes : q[s] = IF s \in Losers(m, n) THEN r(s) ELSE m[s]
  BY <1>2
<1>6. q = [s \in Nodes |-> q[s]]
  BY <1>2
<1> HIDE DEF r
<1>7. ASSUME NEW s \in Nodes
      PROVE  q[s] \in Node \cup {None} /\ (q[s] # None <=> m[s] # None)
  <2>1. CASE s \in Losers(m, n)
    BY <1>1, <1>4, <1>5, <2>1 DEF Live
  <2>2. CASE s \notin Losers(m, n)
    BY <1>3, <1>5, <2>2 DEF Mem
  <2> QED
    BY <2>1, <2>2
<1>8. q \in Mem
  BY <1>6, <1>7, Zenon DEF Mem
<1>9. Live(q) = Live(m)
  BY <1>7 DEF Live
<1>10. ASSUME NEW y \in Live(m)
       PROVE  /\ q[y].parent = m[y].parent /\ q[y].child = m[y].child
              /\ q[y].next = m[y].next /\ q[y].prev = m[y].prev
              /\ q[y].leafref = IF y \in Losers(m, n) THEN None ELSE m[y].leafref
              /\ q[y].val = m[y].val /\ q[y].valid = m[y].valid
  <2>1. y \in Nodes
    BY DEF Live
  <2>2. CASE y \in Losers(m, n)
    BY <1>4, <1>5, <2>1, <2>2
  <2>3. CASE y \notin Losers(m, n)
    BY <1>5, <2>1, <2>3
  <2> QED
    BY <2>2, <2>3
<1> QED
  BY <1>8, <1>9, <1>10 DEF SameLinks

\* q is m after the node at position i of the list s was unlinked.
UnlinkDone(m, L, s, i, q) ==
  /\ Repr(q, (L \ {s}) \cup (Rest(s, i) \cup {<<s[i]>>})) /\ Live(q) = Live(m) /\ s[i] \in Live(m)
  /\ \A y \in Live(m) :
       /\ q[y].parent = IF y = s[i] THEN None ELSE m[y].parent
       /\ q[y].leafref = IF y \in Losers(m, s[i]) THEN None ELSE m[y].leafref
       /\ q[y].val = m[y].val /\ q[y].valid = m[y].valid
  /\ q[s[i]].child = m[s[i]].child /\ q[s[i]].next = None /\ q[s[i]].prev = s[i]

\* lyd_unlink as a whole.
LEMMA UnlinkRepr ==
  ASSUME NEW m, NEW L, Repr(m, L), NEW s \in L, NEW i \in 1..Len(s)
  PROVE  UnlinkDone(m, L, s, i, Unlinked(m, s[i]))
<1> DEFINE n == s[i]
           q == Unlinked(m, n)
<1>d. n = s[i] /\ q = Unlinked(m, n)
  OBVIOUS
<1>3a. q = Detach(ClearLeafrefs(m, n), n)
  BY DEF Unlinked
<1> HIDE DEF n, q
<1> DEFINE c == ClearLeafrefs(m, n)
<1>1. n \in Live(m)
  BY <1>d, ReprList
<1>2. /\ SameLinks(m, c)
      /\ \A y \in Live(m) : /\ c[y].leafref = IF y \in Losers(m, n) THEN None ELSE m[y].leafref
                            /\ c[y].val = m[y].val /\ c[y].valid = m[y].valid
  BY <1>1, ClearFacts
<1>3. q = Detach(c, n)
  BY <1>3a
<1> HIDE DEF c
<1>4. Repr(c, L) /\ Live(c) = Live(m)
  BY <1>2, SameLinksRepr DEF SameLinks
<1>5. Repr(q, (L \ {s}) \cup (Rest(s, i) \cup {<<n>>}))
  BY <1>d, <1>3, <1>4, DetachRepr
<1>6. /\ Live(q) = Live(c) /\ KeepData(c, q)
      /\ \A y \in Live(c) :
           /\ q[y].parent = IF y = n THEN None ELSE c[y].parent
           /\ q[y].child = IF y = c[n].parent /\ i = 1 THEN c[n].next ELSE c[y].child
           /\ q[y].next = IF y = n THEN None ELSE IF i # 1 /\ y = s[i - 1] THEN c[n].next ELSE c[y].next
           /\ q[y].prev = IF y = n THEN n
                          ELSE IF y = (IF i = Len(s) THEN s[1] ELSE s[i + 1]) THEN c[n].prev ELSE c[y].prev
  BY <1>d, <1>3, <1>4, DetachFields
<1>7. n # c[n].parent
  <2>1. c[n].parent = c[s[1]].parent /\ ((KindOf[n] = "c") <=> (KindOf[s[1]] = "c")) /\ OwnList(c, s)
    BY <1>d, <1>4 DEF Repr, Ring
  <2>2. c[n].parent # None => KindOf[n] # "c" /\ KindOf[c[n].parent] = "c"
    BY <2>1 DEF OwnList
  <2>3. n # None
    BY <1>1, NodeFields DEF Repr
  <2> QED
    BY <2>2, <2>3
<1>8. q[n].child = m[n].child /\ q[n].next = None /\ q[n].prev = n
  BY <1>1, <1>2, <1>4, <1>6, <1>7 DEF SameLinks
<1>9. \A y \in Live(m) :
        /\ q[y].parent = IF y = n THEN None ELSE m[y].parent
        /\ q[y].leafref = IF y \in Losers(m, n) THEN None ELSE m[y].leafref
        /\ q[y].val = m[y].val /\ q[y].valid = m[y].valid
  BY <1>2, <1>4, <1>6 DEF SameLinks, KeepData
<1>10. UnlinkDone(m, L, s, i, q)
  BY <1>d, <1>1, <1>4, <1>5, <1>6, <1>8, <1>9 DEF UnlinkDone
<1> QED
  BY <1>d, <1>10
-----------------------------------------------------------------------------
(* lyd_free                                                                *)

\* The nodes that are left in q are as they were in m, except for leafref
\* pointers that were taken away.
Survive(m, q) ==
  \A y \in Live(q) : /\ y \in Live(m) /\ q[y].parent = m[y].parent
                     /\ q[y].leafref = m[y].leafref \/ q[y].leafref = None
                     /\ q[y].val = m[y].val /\ q[y].valid = m[y].valid

\* s refers to its sibling t.
RefersTo(m, s, t) ==
  /\ s \in Live(m) /\ t \in Live(m) /\ KindOf[s] = "r" /\ KindOf[t] = "t"
  /\ m[s].leafref = t /\ m[s].parent # None /\ m[s].parent = m[t].parent

\* A leafref of which the target has gone has lost its pointer.
NoDangling(m, q) ==
  \A s, t \in Nodes : RefersTo(m, s, t) /\ s \in Live(q) /\ t \notin Live(q) => q[s].leafref = None

\* What lyd_free leaves behind.
Left2(m, q) == Survive(m, q) /\ NoDangling(m, q)

\* Nothing has gone.
LEMMA LeftRefl ==
  ASSUME NEW m
  PROVE  Left2(m, m)
BY DEF Left2, Survive, NoDangling, RefersTo

\* One node after the other.
LEMMA LeftTrans ==
  ASSUME NEW m, NEW q, NEW r, Left2(m, q), Left2(q, r)
  PROVE  Left2(m, r)
<1>1. Survive(m, r)
  BY DEF Left2, Survive
<1>2. ASSUME NEW s \in Nodes, NEW t \in Nodes, RefersTo(m, s, t), s \in Live(r), t \notin Live(r)
      PROVE  r[s].leafref = None
  <2>1. s \in Live(q) /\ (r[s].leafref = q[s].leafref \/ r[s].leafref = None)
    BY <1>2 DEF Left2, Survive
  <2>2. CASE t \notin Live(q)
    BY <1>2, <2>1, <2>2 DEF Left2, NoDangling
  <2>3. CASE t \in Live(q)
    <3>1. q[s].parent = m[s].parent /\ q[t].parent = m[t].parent /\ (q[s].leafref = t \/ q[s].leafref = None)
      BY <1>2, <2>1, <2>3 DEF Left2, Survive, RefersTo
    <3>2. q[s].leafref = t => RefersTo(q, s, t)
      BY <1>2, <2>1, <2>3, <3>1 DEF RefersTo
    <3>3. q[s].leafref = t => r[s].leafref = None
      BY <1>2, <3>2 DEF Left2, NoDangling
    <3> QED
      BY <2>1, <3>1, <3>3
  <2> QED
    BY <2>2, <2>3
<1> QED
  BY <1>1, <1>2 DEF Left2, NoDangling

\* lyd_unlink of the target finds the leafrefs among its siblings.
LEMMA LoserFact ==
  ASSUME NEW m, NEW L, Repr(m, L), NEW s, NEW t, RefersTo(m, s, t)
  PROVE  s \in Losers(m, t)
<1> DEFINE p == m[t].parent
<1>1. s \in Live(m) /\ t \in Live(m) /\ p # None /\ m[s].parent = p /\ m[s].leafref = t
      /\ KindOf[s] = "r" /\ KindOf[t] = "t" /\ s \in Nodes
  BY DEF RefersTo, Live
<1>2. PICK u \in L : \E i \in 1..Len(u) : u[i] = t
  BY <1>1, ListOf
<1>3. PICK i \in 1..Len(u) : u[i] = t
  BY <1>2
<1>4. m[u[1]].parent = p /\ p \in Live(m) /\ KindOf[p] = "c"
  BY <1>1, <1>3 DEF Repr, Ring, OwnList
<1>5. PICK v \in L : \E j \in 1..Len(v) : v[j] = s
  BY <1>1, ListOf
<1>6. PICK j \in 1..Len(v) : v[j] = s
  BY <1>5
<1>7. m[v[1]].parent = p
  BY <1>1, <1>6 DEF Repr, Ring
<1>8. s \in Range(Children(m, p))
  <2>1. Children(m, p) = v
    BY <1>4, <1>7, ChildrenList
  <2> QED
    BY <1>6, <2>1, ReprList
<1>9. p \in Range(TopList(m, t))
  <2>1. PICK w \in L : \E k \in 1..Len(w) : w[k] = p
    BY <1>4, ListOf
  <2>2. PICK k \in 1..Len(w) : w[k] = p
    BY <2>1
  <2>3. TopList(m, t) = w
    BY <1>1, <2>2, FirstOfList, SiblingsList DEF TopList
  <2> QED
    BY <2>2, <2>3, ReprList
<1>10. s \in lyd_get_node2(m, t, "r")
  BY <1>1, <1>4, <1>8, <1>9 DEF lyd_get_node2
<1>11. t \in Range(Subtree(m, t))
  BY <1>1, SubtreeFacts
<1> QED
  BY <1>1, <1>10, <1>11 DEF Losers

\* Freeing the memory of a node that stands alone.
Erase(m, n) == [m EXCEPT ![n] = None]
EraseDone(m, L, n, q) ==
  /\ Repr(q, L \ {<<n>>}) /\ Live(q) = Live(m) \ {n}
  /\ \A y \in Live(q) : q[y] = m[y]
LEMMA KillRepr ==
  ASSUME NEW m, NEW L, Repr(m, L), NEW n, <<n>> \in L, m[n].parent = None, m[n].child = None, n \in Live(m)
  PROVE  EraseDone(m, L, n, Erase(m, n))
<1> DEFINE q == Erase(m, n)
<1>1. m \in Mem /\ n \in Nodes
  BY DEF Repr, Live
<1>2. q \in Mem /\ q[n] = None /\ \A y \in Nodes : y # n => q[y] = m[y]
  BY <1>1 DEF Mem, Erase
<1> HIDE DEF q
<1>3. Live(q) = Live(m) \ {n} /\ \A y \in Live(q) : q[y] = m[y]
  BY <1>2 DEF Live
<1>4. Len(<<n>>) = 1 /\ <<n>>[1] = n
  BY <1>1, Single
<1>5. ASSUME NEW u \in L \ {<<n>>}, NEW i \in 1..Len(u) PROVE u[i] # n
  <2>1. 1 \in 1..Len(<<n>>)
    BY <1>4
  <2> QED
    BY <1>4, <1>5, <2>1 DEF Repr, Apart
<1>6. ASSUME NEW u \in L \ {<<n>>} PROVE Untouched(m, q, u) /\ OwnList(q, u)
  <2>1. 1 \in 1..Len(u) /\ \A i \in 1..Len(u) : u[i] \in Live(m) /\ u[i] \in Live(q)
    BY <1>3, <1>5, ReprList
  <2>2. Untouched(m, q, u)
    BY <1>3, <2>1 DEF Untouched
  <2>3. q[u[1]].parent = m[u[1]].parent /\ OwnList(m, u)
    BY <1>3, <2>1 DEF Repr
  <2>4. m[u[1]].parent # None => m[u[1]].parent # n /\ m[u[1]].parent \in Live(q) /\ q[m[u[1]].parent] = m[m[u[1]].parent]
    <3>1. SUFFICES ASSUME m[u[1]].parent # None
                   PROVE  m[u[1]].parent # n /\ m[u[1]].parent \in Live(q) /\ q[m[u[1]].parent] = m[m[u[1]].parent]
      OBVIOUS
    <3>2. m[u[1]].parent \in Live(m) /\ m[m[u[1]].parent].child = u[1] /\ u[1] # None
      BY <2>1, <2>3, <3>1, ReprList DEF OwnList
    <3> QED
      BY <1>3, <3>2
  <2>5. OwnList(q, u)
    BY <2>3, <2>4 DEF OwnList
  <2> QED
    BY <2>2, <2>5
<1>7. Cover(q, L \ {<<n>>})
  <2>1. SUFFICES ASSUME NEW y \in Live(q) PROVE \E u \in L \ {<<n>>} : \E j \in 1..Len(u) : u[j] = y
    BY DEF Cover
  <2>2. y \in Live(m) /\ y # n
    BY <1>3
  <2>3. PICK u \in L : \E j \in 1..Len(u) : u[j] = y
    BY <2>2, ListOf
  <2>4. PICK j \in 1..Len(u) : u[j] = y
    BY <2>3
  <2>5. u # <<n>>
    <3>1. u = <<n>> => j = 1
      BY <1>4, <2>4
    <3> QED
      BY <1>4, <2>2, <2>4, <3>1
  <2> QED
    BY <2>4, <2>5
<1>8. ASSUME NEW p \in Live(q) PROVE OwnChild(q, L \ {<<n>>}, p)
  <2>1. p \in Live(m) /\ q[p] = m[p]
    BY <1>3, <1>8
  <2>2. SUFFICES ASSUME m[p].child # None
                 PROVE  \E u \in L \ {<<n>>} : u[1] = m[p].child /\ q[u[1]].parent = p
    BY <2>1 DEF OwnChild
  <2>3. PICK u \in L : u[1] = m[p].child /\ m[u[1]].parent = p
    BY <2>1, <2>2 DEF Repr, OwnChild
  <2>4. u # <<n>>
    <3>1. p # None
      BY <1>1, <2>1, NodeFields
    <3> QED
      BY <1>4, <2>3, <3>1
  <2>5. 1 \in 1..Len(u) /\ q[u[1]].parent = m[u[1]].parent
    BY <1>6, <2>4, ReprList DEF Untouched
  <2> QED
    BY <2>3, <2>4, <2>5
<1>9. Apart({})
  BY DEF Apart
<1>10. (L \ {<<n>>}) \cup {} = L \ {<<n>>}
  OBVIOUS
<1>11. Repr(q, (L \ {<<n>>}) \cup {})
  <2> DEFINE A == {<<n>>}
             B == {}
  <2>1. Cover(q, (L \ A) \cup B) /\ \A p \in Live(q) : OwnChild(q, (L \ A) \cup B, p)
    BY <1>7, <1>8, <1>10
  <2>2. /\ \A t \in B : t \in Seq(Nodes) /\ t # << >> /\ Ring(q, t) /\ OwnList(q, t)
        /\ \A u \in L \ A, t \in B : \A i \in 1..Len(u), j \in 1..Len(t) : u[i] # t[j]
        /\ Apart(B)
    BY <1>9
  <2>3. \A u \in L \ A : Untouched(m, q, u) /\ OwnList(q, u)
    BY <1>6
  <2> HIDE DEF A, B
  <2>4. Repr(q, (L \ A) \cup B)
    BY <1>2, <2>1, <2>2, <2>3, Relink
  <2> QED
    BY <2>4 DEF A, B
<1>12. EraseDone(m, L, n, q)
  BY <1>3, <1>10, <1>11 DEF EraseDone
<1> QED
  BY <1>12 DEF q

\* lyd_free of a node without children.
FreeLeafDone(m, L, s, i, q) ==
  Repr(q, (L \ {s}) \cup Rest(s, i)) /\ Live(q) = Live(m) \ {s[i]} /\ Left2(m, q)
LEMMA FreeLeafRepr ==
  ASSUME NEW m, NEW L, Repr(m, L), NEW s \in L, NEW i \in 1..Len(s), m[s[i]].child = None
  PROVE  FreeLeafDone(m, L, s, i, FreeLeaf(m, s[i]))
<1>n. PICK n : n = s[i]
  OBVIOUS
<1>q. PICK q : q = FreeLeaf(m, n)
  OBVIOUS
<1> DEFINE u == Unlinked(m, n)
           M == (L \ {s}) \cup (Rest(s, i) \cup {<<n>>})
<1>0. u = Unlinked(m, n)
  OBVIOUS
<1>2. q = Erase(u, n)
  BY <1>q DEF FreeLeaf, Erase
<1> HIDE DEF u
<1>1. /\ Repr(u, M) /\ Live(u) = Live(m) /\ n \in Live(m)
      /\ \A y \in Live(m) :
           /\ u[y].parent = IF y = n THEN None ELSE m[y].parent
           /\ u[y].leafref = IF y \in Losers(m, n) THEN None ELSE m[y].leafref
           /\ u[y].val = m[y].val /\ u[y].valid = m[y].valid
      /\ u[n].child = m[n].child
  <2>1. UnlinkDone(m, L, s, i, u)
    BY <1>n, <1>0, UnlinkRepr
  <2> QED
    BY <1>n, <2>1 DEF UnlinkDone
<1>3. <<n>> \in M
  OBVIOUS
<1>4. M \ {<<n>>} = (L \ {s}) \cup Rest(s, i)
  <2>1. n \in Nodes
    BY <1>1 DEF Live
  <2>2. Len(<<n>>) = 1 /\ <<n>>[1] = n
    BY <2>1, Single
  <2>3. 1 \in 1..Len(<<n>>)
    BY <2>2
  <2>4. <<n>> \notin L \ {s}
    BY <1>n, <2>2, <2>3 DEF Repr, Apart
  <2>5. <<n>> \notin Rest(s, i)
    <3>1. SUFFICES ASSUME Len(s) # 1, <<n>> = Drop(s, i) PROVE FALSE
      BY DEF Rest
    <3>2. s \in Seq(Nodes) /\ \A j, k \in 1..Len(s) : s[j] = s[k] => j = k
      BY ReprList
    <3>3. /\ Len(Drop(s, i)) = Len(s) - 1
          /\ \A j \in 1..(Len(s) - 1) : Drop(s, i)[j] = s[Skip(i, j)]
          /\ \A j \in 1..(Len(s) - 1) : Skip(i, j) \in 1..Len(s) /\ Skip(i, j) # i
      BY <3>2, DropFacts
    <3>4. 1 \in 1..(Len(s) - 1)
      BY <2>3, <3>1, <3>3
    <3>5. n = s[Skip(i, 1)] /\ Skip(i, 1) \in 1..Len(s) /\ Skip(i, 1) # i
      BY <2>2, <3>1, <3>3, <3>4
    <3> QED
      BY <1>n, <3>2, <3>5
  <2> QED
    BY <2>4, <2>5
<1> HIDE DEF M
<1>5. u[n].parent = None /\ u[n].child = None /\ n \in Live(u)
  BY <1>n, <1>1
<1>6. /\ Repr(q, M \ {<<n>>}) /\ Live(q) = Live(u) \ {n}
      /\ \A y \in Live(q) : q[y] = u[y]
  <2>1. EraseDone(u, M, n, q)
    BY <1>1, <1>2, <1>3, <1>5, KillRepr
  <2> QED
    BY <2>1 DEF EraseDone
<1>7. Survive(m, q)
  BY <1>1, <1>6 DEF Survive
<1>8. NoDangling(m, q)
  <2>1. SUFFICES ASSUME NEW x \in Nodes, NEW t \in Nodes, RefersTo(m, x, t), x \in Live(q), t \notin Live(q)
                 PROVE  q[x].leafref = None
    BY DEF NoDangling
  <2>2. t = n
    BY <1>1, <1>6, <2>1 DEF RefersTo
  <2>3. x \in Losers(m, n)
    BY <2>1, <2>2, LoserFact
  <2>4. x \in Live(m) /\ q[x] = u[x]
    BY <1>6, <2>1 DEF RefersTo
  <2> QED
    BY <1>1, <2>3, <2>4
<1>9. FreeLeafDone(m, L, s, i, q)
  BY <1>n, <1>1, <1>4, <1>6, <1>7, <1>8 DEF Left2, FreeLeafDone
<1> QED
  BY <1>n, <1>q, <1>9
\* Only containers have children.
LEMMA LeafNoChild ==
  ASSUME NEW m, NEW L, Repr(m, L), NEW n \in Live(m), KindOf[n] # "c"
  PROVE  m[n].child = None
<1>1. SUFFICES ASSUME m[n].child # None PROVE FALSE
  OBVIOUS
<1>2. PICK s \in L : s[1] = m[n].child /\ m[s[1]].parent = n
  BY <1>1 DEF Repr, OwnChild
<1>3. n # None
  BY NodeFields DEF Repr
<1> QED
  BY <1>2, <1>3 DEF Repr, OwnList

\* The end of a list without its first node.
LEMMA SuffixDrop ==
  ASSUME NEW S, NEW s \in Seq(S), NEW i \in 1..Len(s), i # Len(s)
  PROVE  Drop(Suffix(s, i), 1) = Suffix(s, i + 1) /\ i + 1 \in 1..Len(s)
<1>1. Len(s) \in Nat
  BY ListFacts
<1>2. Len(Suffix(s, i)) = Len(s) - i + 1
  BY SuffixFacts
<1>3. i + 1 \in 1..Len(s) /\ (Len(s) - i + 1) - 1 = Len(s) - (i + 1) + 1
  BY <1>1
<1>4. Drop(Suffix(s, i), 1) = [j \in 1..(Len(s) - (i + 1) + 1) |-> IF j < 1 THEN Suffix(s, i)[j] ELSE Suffix(s, i)[j + 1]]
  BY <1>2, <1>3, Zenon DEF Drop
<1>5. ASSUME NEW j \in 1..(Len(s) - (i + 1) + 1)
      PROVE  (IF j < 1 THEN Suffix(s, i)[j] ELSE Suffix(s, i)[j + 1]) = s[i + 1 + j - 1]
  <2>1. ~(j < 1) /\ j + 1 \in 1..(Len(s) - i + 1) /\ i + (j + 1) - 1 = i + 1 + j - 1
    BY <1>1
  <2>2. Suffix(s, i)[j + 1] = s[i + (j + 1) - 1]
    BY <2>1 DEF Suffix
  <2> QED
    BY <2>1, <2>2
<1> QED
  BY <1>3, <1>4, <1>5, Zenon DEF Suffix

\* What is left of a list when its first k nodes are gone.
Tails(s, k) == IF k = Len(s) THEN {} ELSE {Suffix(s, k + 1)}

\* lyd_free of the children, one after the other.
LeafsDone(m, L, s, q) ==
  Repr(q, L \ {s}) /\ Live(q) = Live(m) \ Range(s) /\ Left2(m, q)
LEMMA LeafsRepr ==
  ASSUME NEW m, NEW L, Repr(m, L), NEW s \in L, KindOf[s[1]] # "c"
  PROVE  LeafsDone(m, L, s, FreedLeafs(m, s))
<1>1. /\ s \in Seq(Nodes) /\ Len(s) \in Nat /\ Len(s) > 0
      /\ \A j \in 1..Len(s) : s[j] \in Nodes /\ s[j] \in Live(m) /\ s[j] # None
      /\ \A j, l \in 1..Len(s) : s[j] = s[l] => j = l
      /\ Range(s) = {s[j] : j \in 1..Len(s)}
  BY ReprList
<1>2. PICK h : Unfolds(h, "leaf", 0, m, s, Len(s)) /\ FreedLeafs(m, s) = h[Len(s)]
  BY <1>1, LeafLoop
<1>3. \A j \in 1..Len(s) : KindOf[s[j]] # "c"
  BY DEF Repr, Ring
<1>4. Apart(L)
  BY DEF Repr
<1> DEFINE P(k) == /\ Repr(h[k], (L \ {s}) \cup Tails(s, k)) /\ Live(h[k]) = Live(m) \ {s[j] : j \in 1..k}
                   /\ Left2(m, h[k])
           A == {k \in Nat : k <= Len(s) => P(k)}
<1>5. 0 \in A
  <2>1. h[0] = m
    BY <1>2 DEF Unfolds
  <2>2. Tails(s, 0) = {s}
    <3>1. 0 # Len(s) /\ 0 + 1 = 1
      BY <1>1
    <3> QED
      BY <1>1, <3>1, SuffixAll DEF Tails
  <2>3. (L \ {s}) \cup {s} = L
    OBVIOUS
  <2>4. {s[j] : j \in 1..0} = {}
    OBVIOUS
  <2> QED
    BY <2>1, <2>2, <2>3, <2>4, LeftRefl
<1>6. ASSUME NEW k \in Nat, k \in A PROVE k + 1 \in A
  <2>1. SUFFICES ASSUME k + 1 <= Len(s) PROVE P(k + 1)
    OBVIOUS
  <2>2. P(k) /\ k + 1 \in 1..Len(s) /\ (k + 1) - 1 = k /\ k # Len(s)
    BY <1>1, <1>6, <2>1
  <2>3. h[k + 1] = FreeLeaf(h[k], s[k + 1])
    BY <1>2, <2>2 DEF Unfolds, Turn
  <2> DEFINE M == (L \ {s}) \cup {Suffix(s, k + 1)}
  <2>4. PICK u : u = Suffix(s, k + 1)
    OBVIOUS
  <2>5. Repr(h[k], M) /\ u \in M
    BY <2>2, <2>4 DEF Tails
  <2>6. 1 \in 1..Len(u) /\ u[1] = s[k + 1] /\ Len(u) = Len(s) - (k + 1) + 1
    <3>1. Len(u) = Len(s) - (k + 1) + 1
      BY <1>1, <2>2, <2>4, SuffixFacts
    <3>2. 1 \in 1..(Len(s) - (k + 1) + 1) /\ k + 1 + 1 - 1 = k + 1
      BY <1>1, <2>2
    <3>3. u[1] = s[k + 1 + 1 - 1]
      BY <2>4, <3>2 DEF Suffix
    <3> QED
      BY <3>1, <3>2, <3>3
  <2>7. M \ {u} = L \ {s}
    <3>1. u \notin L \ {s}
      BY <1>4, <2>2, <2>6 DEF Apart
    <3> QED
      BY <2>4, <3>1
  <2> HIDE DEF M
  <2>8. h[k][u[1]].child = None
    <3>1. u[1] \in Live(h[k]) /\ KindOf[u[1]] # "c"
      BY <1>3, <2>2, <2>5, <2>6, ReprList
    <3> QED
      BY <2>5, <3>1, LeafNoChild
  <2>9. FreeLeafDone(h[k], M, u, 1, FreeLeaf(h[k], u[1]))
    BY <2>5, <2>6, <2>8, FreeLeafRepr
  <2>10. /\ Repr(h[k + 1], (M \ {u}) \cup Rest(u, 1)) /\ Live(h[k + 1]) = Live(h[k]) \ {s[k + 1]}
         /\ Left2(h[k], h[k + 1])
    BY <2>3, <2>6, <2>9 DEF FreeLeafDone
  <2>11. Rest(u, 1) = Tails(s, k + 1)
    <3>1. CASE k + 1 = Len(s)
      <4>1. Len(u) = 1
        BY <1>1, <2>6, <3>1
      <4> QED
        BY <3>1, <4>1 DEF Rest, Tails
    <3>2. CASE k + 1 # Len(s)
      <4>1. Len(u) # 1
        BY <1>1, <2>6, <3>2
      <4>2. Drop(u, 1) = Suffix(s, k + 1 + 1)
        BY <1>1, <2>2, <2>4, <3>2, SuffixDrop
      <4> QED
        BY <3>2, <4>1, <4>2 DEF Rest, Tails
    <3> QED
      BY <3>1, <3>2
  <2>12. Live(h[k + 1]) = Live(m) \ {s[j] : j \in 1..(k + 1)}
    <3>1. 1..(k + 1) = (1..k) \cup {k + 1}
      OBVIOUS
    <3> QED
      BY <2>2, <2>10, <3>1
  <2>13. Left2(m, h[k + 1])
    BY <2>2, <2>10, LeftTrans
  <2> QED
    BY <2>7, <2>10, <2>11, <2>12, <2>13
<1> HIDE DEF A
<1>7. Len(s) \in A
  BY <1>1, <1>5, <1>6, SetInduction
<1>8. P(Len(s))
  BY <1>1, <1>7 DEF A
<1>9. Tails(s, Len(s)) = {} /\ (L \ {s}) \cup {} = L \ {s}
  BY DEF Tails
<1> QED
  BY <1>1, <1>2, <1>8, <1>9 DEF LeafsDone

\* The lists without the children of n.
Childless(m, L, n) == {t \in L : m[t[1]].parent # n}

\* lyd_free of a node with its children.
FreedDone(m, L, s, i, q) ==
  /\ Repr(q, (Childless(m, L, s[i]) \ {s}) \cup Rest(s, i))
  /\ Live(q) = Live(m) \ ({s[i]} \cup Range(Children(m, s[i]))) /\ Left2(m, q)
LEMMA FreedRepr ==
  ASSUME NEW m, NEW L, Repr(m, L), NEW s \in L, NEW i \in 1..Len(s)
  PROVE  FreedDone(m, L, s, i, Freed(m, s[i]))
<1>1. PICK n : n = s[i]
  OBVIOUS
<1>2. PICK c : c = Children(m, n)
  OBVIOUS
<1>3. PICK f : f = FreedLeafs(m, c)
  OBVIOUS
<1>4. Freed(m, n) = FreeLeaf(f, n)
  BY <1>2, <1>3 DEF Freed
<1>5. n \in Live(m) /\ n # None
  BY <1>1, ReprList
<1>6. s \in Childless(m, L, n) /\ n \notin Range(c)
  <2>1. m[n].parent # n
    <3>1. m[s[1]].parent = m[n].parent /\ ((KindOf[n] = "c") <=> (KindOf[s[1]] = "c")) /\ OwnList(m, s)
      BY <1>1 DEF Repr, Ring
    <3> QED
      BY <1>5, <3>1 DEF OwnList
  <2>2. m[s[1]].parent = m[n].parent
    BY <1>1 DEF Repr, Ring
  <2>3. CASE m[n].child = None
    <3>1. c = << >>
      BY <1>2, <1>5, <2>3, ChildrenList
    <3> QED
      BY <2>1, <2>2, <3>1, EmptyList DEF Childless
  <2>4. CASE m[n].child # None
    <3>1. PICK t \in L : m[t[1]].parent = n
      BY <1>5, <2>4, ChildrenList
    <3>2. c = t
      BY <1>2, <1>5, <3>1, ChildrenList
    <3>3. \A j \in 1..Len(t) : m[t[j]].parent = n
      BY <3>1 DEF Repr, Ring
    <3> QED
      BY <2>1, <2>2, <3>2, <3>3, ReprList DEF Childless
  <2> QED
    BY <2>3, <2>4
<1>7. Repr(f, Childless(m, L, n)) /\ Live(f) = Live(m) \ Range(c) /\ Left2(m, f)
  <2>1. CASE m[n].child = None
    <3>1. c = << >> /\ \A t \in L : m[t[1]].parent # n
      BY <1>2, <1>5, <2>1, ChildrenList
    <3>2. PICK h : Unfolds(h, "leaf", 0, m, c, Len(c)) /\ f = h[Len(c)]
      BY <1>3, <3>1, EmptyList, LeafLoop
    <3>3. f = m
      BY <3>1, <3>2, EmptyList DEF Unfolds
    <3>4. Childless(m, L, n) = L
      BY <3>1 DEF Childless
    <3> QED
      BY <3>1, <3>3, <3>4, LeftRefl, EmptyList
  <2>2. CASE m[n].child # None
    <3>1. PICK t \in L : m[t[1]].parent = n
      BY <1>5, <2>2, ChildrenList
    <3>2. c = t
      BY <1>2, <1>5, <3>1, ChildrenList
    <3>3. KindOf[t[1]] # "c"
      BY <1>5, <3>1 DEF Repr, OwnList
    <3>4. LeafsDone(m, L, t, f)
      BY <1>3, <3>2, <3>3, LeafsRepr
    <3>5. Childless(m, L, n) = L \ {t}
      <4>1. \A u \in L : m[u[1]].parent = n => u = t
        BY <1>5, <3>1, OneList
      <4> QED
        BY <3>1, <4>1 DEF Childless
    <3> QED
      BY <3>2, <3>4, <3>5 DEF LeafsDone
  <2> QED
    BY <2>1, <2>2
<1>8. n \in Live(f)
  BY <1>5, <1>6, <1>7
<1>9. f[n].child = None
  <2>1. SUFFICES ASSUME f[n].child # None PROVE FALSE
    OBVIOUS
  <2>2. PICK t \in Childless(m, L, n) : f[t[1]].parent = n
    BY <1>7, <1>8, <2>1, ChildrenList
  <2>3. t[1] \in Live(f)
    BY <1>7, ReprList
  <2>4. f[t[1]].parent = m[t[1]].parent
    BY <1>7, <2>3 DEF Left2, Survive
  <2> QED
    BY <2>2, <2>4 DEF Childless
<1>10. FreeLeafDone(f, Childless(m, L, n), s, i, FreeLeaf(f, n))
  BY <1>1, <1>6, <1>7, <1>9, FreeLeafRepr
<1>11. PICK q : q = FreeLeaf(f, n)
  OBVIOUS
<1>12. Repr(q, (Childless(m, L, n) \ {s}) \cup Rest(s, i)) /\ Live(q) = Live(f) \ {n} /\ Left2(f, q)
  BY <1>1, <1>10, <1>11 DEF FreeLeafDone
<1>13. Left2(m, q)
  BY <1>7, <1>12, LeftTrans
<1>14. Live(q) = Live(m) \ ({n} \cup Range(c))
  BY <1>7, <1>12
<1> QED
  BY <1>1, <1>2, <1>4, <1>11, <1>12, <1>13, <1>14 DEF FreedDone
\* The nodes of a list without one of them.
LEMMA DropRange ==
  ASSUME NEW S, NEW s \in Seq(S), NEW i \in 1..Len(s), \A j, k \in 1..Len(s) : s[j] = s[k] => j = k
  PROVE  Range(Drop(s, i)) = Range(s) \ {s[i]}
<1>1. /\ Drop(s, i) \in Seq(S) /\ Len(Drop(s, i)) = Len(s) - 1 /\ Len(s) \in Nat
      /\ \A j \in 1..(Len(s) - 1) : Drop(s, i)[j] = s[Skip(i, j)]
      /\ \A j \in 1..(Len(s) - 1) : Skip(i, j) \in 1..Len(s) /\ Skip(i, j) # i
      /\ \A k \in 1..Len(s) : k # i => \E j \in 1..(Len(s) - 1) : k = Skip(i, j) /\ Drop(s, i)[j] = s[k]
  BY DropFacts
<1>2. Range(s) = {s[j] : j \in 1..Len(s)}
  BY ListFacts
<1>3. Range(Drop(s, i)) = {Drop(s, i)[j] : j \in 1..(Len(s) - 1)}
  BY <1>1, ListFacts
<1>4. ASSUME NEW j \in 1..(Len(s) - 1) PROVE Drop(s, i)[j] \in Range(s) \ {s[i]}
  <2>1. Drop(s, i)[j] = s[Skip(i, j)] /\ Skip(i, j) \in 1..Len(s) /\ Skip(i, j) # i
    BY <1>1
  <2>2. s[Skip(i, j)] # s[i]
    BY <2>1
  <2> QED
    BY <1>2, <2>1, <2>2
<1>5. ASSUME NEW k \in 1..Len(s), s[k] # s[i] PROVE s[k] \in Range(Drop(s, i))
  BY <1>1, <1>3, <1>5, Zenon
<1>6. ASSUME NEW x \in Range(Drop(s, i)) PROVE x \in Range(s) \ {s[i]}
  <2>1. PICK j \in 1..(Len(s) - 1) : x = Drop(s, i)[j]
    BY <1>3
  <2> QED
    BY <1>4, <2>1
<1>7. ASSUME NEW x \in Range(s), x # s[i] PROVE x \in Range(Drop(s, i))
  <2>1. PICK k \in 1..Len(s) : x = s[k]
    BY <1>2
  <2> QED
    BY <1>5, <1>7, <2>1
<1> QED
  BY <1>6, <1>7

\* A list that is dropped when it is empty.
NonEmpty(r) == IF r = << >> THEN {} ELSE {r}

\* lyd_free of all nodes of a list, in any order.
AllDone(m, L, s, q) ==
  /\ Repr(q, {t \in L : t # s /\ m[t[1]].parent \notin Range(s)})
  /\ Left2(m, q) /\ Live(q) \cap Range(s) = {}
LEMMA AllRepr ==
  ASSUME NEW m, NEW L, Repr(m, L), NEW s \in L, NEW o \in Seq(Nodes), Range(o) = Range(s),
         \A j, k \in 1..Len(o) : o[j] = o[k] => j = k
  PROVE  AllDone(m, L, s, FreedAll(m, o))
<1>1. /\ s \in Seq(Nodes) /\ Len(s) \in Nat /\ Len(s) > 0 /\ s # << >> /\ 1 \in 1..Len(s)
      /\ Range(s) = {s[j] : j \in 1..Len(s)}
  BY ReprList, ListFacts
<1>2. Len(o) \in Nat /\ Range(o) = {o[j] : j \in 1..Len(o)} /\ \A j \in 1..Len(o) : o[j] \in Nodes
  BY ListFacts
<1>3. PICK h : Unfolds(h, "tree", 0, m, o, Len(o)) /\ FreedAll(m, o) = h[Len(o)]
  BY <1>2, TreeLoop
<1>4. Apart(L)
  BY DEF Repr
<1> DEFINE Others(k) == {t \in L : t # s /\ m[t[1]].parent \notin {o[j] : j \in 1..k}}
           P(k) == /\ \E r \in Seq(Nodes) : /\ Range(r) = {o[j] : j \in (k + 1)..Len(o)}
                                            /\ Repr(h[k], Others(k) \cup NonEmpty(r))
                   /\ Left2(m, h[k]) /\ Live(h[k]) \cap {o[j] : j \in 1..k} = {}
           A == {k \in Nat : k <= Len(o) => P(k)}
<1>5. 0 \in A
  <2>1. h[0] = m
    BY <1>3 DEF Unfolds
  <2>2. Others(0) = L \ {s} /\ {o[j] : j \in 1..0} = {}
    OBVIOUS
  <2>3. NonEmpty(s) = {s} /\ (L \ {s}) \cup {s} = L
    BY <1>1 DEF NonEmpty
  <2>4. Range(s) = {o[j] : j \in (0 + 1)..Len(o)}
    BY <1>2
  <2>5. Range(s) = {o[j] : j \in (0 + 1)..Len(o)} /\ Repr(h[0], Others(0) \cup NonEmpty(s))
    BY <2>1, <2>2, <2>3, <2>4
  <2>6. \E r \in Seq(Nodes) : Range(r) = {o[j] : j \in (0 + 1)..Len(o)} /\ Repr(h[0], Others(0) \cup NonEmpty(r))
    BY <1>1, <2>5
  <2>7. Left2(m, h[0])
    BY <2>1, LeftRefl
  <2>8. Live(h[0]) \cap {o[j] : j \in 1..0} = {}
    BY <2>2
  <2>9. P(0)
    BY <2>6, <2>7, <2>8
  <2> HIDE DEF P
  <2> QED
    BY <2>9
<1>6. ASSUME NEW k \in Nat, k \in A PROVE k + 1 \in A
  <2> HIDE DEF P
  <2>1. SUFFICES ASSUME k + 1 <= Len(o) PROVE P(k + 1)
    OBVIOUS
  <2>2. P(k) /\ k + 1 \in 1..Len(o) /\ (k + 1) - 1 = k
    BY <1>2, <1>6, <2>1
  <2> USE DEF P
  <2>3. PICK r \in Seq(Nodes) : Range(r) = {o[j] : j \in (k + 1)..Len(o)} /\ Repr(h[k], Others(k) \cup NonEmpty(r))
    BY <2>2
  <2>4. h[k + 1] = Freed(h[k], o[k + 1])
    BY <1>3, <2>2 DEF Unfolds, Turn
  <2>5. o[k + 1] \in Range(r)
    <3>1. k + 1 \in (k + 1)..Len(o)
      BY <1>2, <2>1
    <3> QED
      BY <2>3, <3>1
  <2>6. r # << >> /\ Range(r) = {r[j] : j \in 1..Len(r)} /\ Len(r) \in Nat
    BY <2>5, EmptyList, ListFacts
  <2>7. PICK i \in 1..Len(r) : r[i] = o[k + 1]
    BY <2>5, <2>6
  <2> DEFINE M == Others(k) \cup {r}
  <2>8. Repr(h[k], M) /\ r \in M
    BY <2>3, <2>6 DEF NonEmpty
  <2>9. r \notin Others(k)
    <3>1. SUFFICES ASSUME r \in L, r # s PROVE FALSE
      OBVIOUS
    <3>2. o[k + 1] \in Range(s)
      BY <1>2, <2>2
    <3>3. PICK j \in 1..Len(s) : s[j] = o[k + 1]
      BY <1>1, <3>2
    <3> QED
      BY <1>4, <2>7, <3>1, <3>3 DEF Apart
  <2>10. \A t \in Others(k) : h[k][t[1]].parent = m[t[1]].parent
    <3>1. \A t \in Others(k) : t[1] \in Live(h[k])
      BY <2>8, ReprList
    <3> QED
      BY <2>2, <3>1 DEF Left2, Survive
  <2>11. \A j, l \in 1..Len(r) : r[j] = r[l] => j = l
    BY <2>8, ReprList
  <2> HIDE DEF M
  <2>12. FreedDone(h[k], M, r, i, Freed(h[k], r[i]))
    BY <2>8, FreedRepr
  <2>13. /\ Repr(h[k + 1], (Childless(h[k], M, r[i]) \ {r}) \cup Rest(r, i)) /\ Left2(h[k], h[k + 1])
         /\ Live(h[k + 1]) \subseteq Live(h[k]) /\ o[k + 1] \notin Live(h[k + 1])
    BY <2>4, <2>7, <2>12 DEF FreedDone
  <2>14. 1..(k + 1) = (1..k) \cup {k + 1}
    OBVIOUS
  <2>15. Childless(h[k], M, r[i]) \ {r} = Others(k + 1)
    <3>1. {o[j] : j \in 1..(k + 1)} = {o[j] : j \in 1..k} \cup {o[k + 1]}
      BY <2>14
    <3>2. Others(k + 1) = {t \in Others(k) : m[t[1]].parent # o[k + 1]}
      BY <3>1
    <3> HIDE DEF Others
    <3>3. Childless(h[k], M, r[i]) \ {r} = {t \in Others(k) : h[k][t[1]].parent # o[k + 1]}
      BY <2>7, <2>9 DEF Childless, M
    <3> QED
      BY <2>10, <3>2, <3>3
  <2>16. PICK w : w = IF Len(r) = 1 THEN << >> ELSE Drop(r, i)
    OBVIOUS
  <2>17. w \in Seq(Nodes) /\ NonEmpty(w) = Rest(r, i) /\ Range(w) = Range(r) \ {r[i]}
    <3>1. Drop(r, i) \in Seq(Nodes) /\ Len(Drop(r, i)) = Len(r) - 1
      BY DropFacts
    <3>2. Range(Drop(r, i)) = Range(r) \ {r[i]}
      BY <2>11, DropRange
    <3>3. CASE Len(r) = 1
      <4>1. i = 1 /\ 1..Len(r) = {1}
        BY <3>3
      <4>2. Range(r) = {r[i]}
        BY <2>6, <4>1
      <4> QED
        BY <2>16, <3>3, <4>2, EmptyList DEF NonEmpty, Rest
    <3>4. CASE Len(r) # 1
      <4>1. Drop(r, i) # << >>
        BY <2>6, <3>1, <3>4, EmptyList
      <4> QED
        BY <2>16, <3>1, <3>2, <3>4, <4>1 DEF NonEmpty, Rest
    <3> QED
      BY <3>3, <3>4
  <2>18. Range(w) = {o[j] : j \in (k + 1 + 1)..Len(o)}
    <3>1. (k + 1)..Len(o) = ((k + 1 + 1)..Len(o)) \cup {k + 1} /\ k + 1 \notin (k + 1 + 1)..Len(o)
      BY <1>2, <2>1
    <3>2. \A j \in (k + 1 + 1)..Len(o) : j \in 1..Len(o) /\ o[j] # o[k + 1]
      BY <1>2, <2>2, <3>1
    <3> QED
      BY <2>3, <2>7, <2>17, <3>1, <3>2
  <2>19. Left2(m, h[k + 1])
    BY <2>2, <2>13, LeftTrans
  <2>20. Live(h[k + 1]) \cap {o[j] : j \in 1..(k + 1)} = {}
    BY <2>2, <2>13, <2>14
  <2>21. Repr(h[k + 1], Others(k + 1) \cup NonEmpty(w))
    BY <2>13, <2>15, <2>17
  <2> QED
    BY <2>17, <2>18, <2>19, <2>20, <2>21
<1> HIDE DEF A
<1>7. Len(o) \in A
  BY <1>2, <1>5, <1>6, SetInduction
<1>8. P(Len(o))
  <2> HIDE DEF P
  <2>1. Len(o) <= Len(o)
    BY <1>2
  <2> QED
    BY <1>7, <2>1 DEF A
<1>9. PICK r \in Seq(Nodes) : Range(r) = {o[j] : j \in (Len(o) + 1)..Len(o)} /\ Repr(h[Len(o)], Others(Len(o)) \cup NonEmpty(r))
  BY <1>8
<1>10. r = << >>
  <2>1. (Len(o) + 1)..Len(o) = {}
    BY <1>2
  <2>a. {o[j] : j \in {}} = {}
    OBVIOUS
  <2>b. Range(r) = {}
    BY <1>9, <2>1, <2>a
  <2>2. Range(r) = {} /\ Range(r) = {r[j] : j \in 1..Len(r)} /\ Len(r) \in Nat
    BY <2>b, ListFacts, Zenon
  <2>3. Len(r) # 0 => 1 \in 1..Len(r)
    BY <2>2
  <2>4. Len(r) = 0
    <3>1. Len(r) # 0 => r[1] \in {r[j] : j \in 1..Len(r)}
      BY <2>3
    <3> QED
      BY <2>2, <3>1
  <2> QED
    BY <2>4, EmptyList
<1>11. Others(Len(o)) \cup NonEmpty(r) = {t \in L : t # s /\ m[t[1]].parent \notin Range(s)}
  BY <1>2, <1>10 DEF NonEmpty
<1>12. Live(h[Len(o)]) \cap Range(s) = {}
  BY <1>2, <1>8
<1> QED
  BY <1>3, <1>8, <1>9, <1>11, <1>12 DEF AllDone

\* The order in which lyd_free_withsiblings goes over a list: from a node to the
\* first one, then from the node to the last one.
OrderFrom(s, i) == Reverse(SubSeq(s, 1, i - 1)) \o SubSeq(s, i, Len(s))

\* It comes to every node once.
LEMMA OrderFacts ==
  ASSUME NEW S, NEW s \in Seq(S), NEW i \in 1..Len(s), \A j, k \in 1..Len(s) : s[j] = s[k] => j = k
  PROVE  /\ OrderFrom(s, i) \in Seq(S) /\ Range(OrderFrom(s, i)) = Range(s)
         /\ \A j, k \in 1..Len(OrderFrom(s, i)) : OrderFrom(s, i)[j] = OrderFrom(s, i)[k] => j = k
<1>1. Len(s) \in Nat /\ Range(s) = {s[j] : j \in 1..Len(s)} /\ \A j \in 1..Len(s) : s[j] \in S
  BY ListFacts
<1>2. PICK l \in Nat : l = Len(s)
  BY <1>1
<1>3. PICK a : a = SubSeq(s, 1, i - 1)
  OBVIOUS
<1>4. PICK b : b = SubSeq(s, i, Len(s))
  OBVIOUS
<1>5. a \in Seq(S) /\ Len(a) = i - 1 /\ \A j \in 1..(i - 1) : a[j] = s[j]
  <2>1. 1 \in Int /\ i - 1 \in Int /\ \A j \in 1..(i - 1) : s[j] \in S
    BY <1>1
  <2>2. /\ SubSeq(s, 1, i - 1) \in Seq(S)
        /\ Len(SubSeq(s, 1, i - 1)) = IF 1 <= i - 1 THEN i - 1 - 1 + 1 ELSE 0
        /\ \A j \in 1..(i - 1 - 1 + 1) : SubSeq(s, 1, i - 1)[j] = s[1 + j - 1]
    BY <2>1, SubSeqProperties
  <2>3. (IF 1 <= i - 1 THEN i - 1 - 1 + 1 ELSE 0) = i - 1 /\ i - 1 - 1 + 1 = i - 1 /\ \A j \in 1..(i - 1) : 1 + j - 1 = j
    OBVIOUS
  <2> QED
    BY <1>3, <2>2, <2>3
<1>6. b \in Seq(S) /\ Len(b) = l - i + 1 /\ \A j \in 1..(l - i + 1) : b[j] = s[i + j - 1]
  <2>1. i \in Int /\ Len(s) \in Int /\ \A j \in i..Len(s) : s[j] \in S
    BY <1>1
  <2>2. /\ SubSeq(s, i, Len(s)) \in Seq(S)
        /\ Len(SubSeq(s, i, Len(s))) = IF i <= Len(s) THEN Len(s) - i + 1 ELSE 0
        /\ \A j \in 1..(Len(s) - i + 1) : SubSeq(s, i, Len(s))[j] = s[i + j - 1]
    BY <2>1, SubSeqProperties
  <2>3. i <= Len(s)
    BY <1>1
  <2> QED
    BY <1>2, <1>4, <2>2, <2>3
<1>7. PICK c : c = Reverse(a)
  OBVIOUS
<1>8. c \in Seq(S) /\ Len(c) = i - 1 /\ \A j \in 1..(i - 1) : c[j] = s[i - j]
  <2>1. \A j \in 1..(i - 1) : (i - 1 - j) + 1 \in 1..(i - 1) /\ (i - 1 - j) + 1 = i - j
    OBVIOUS
  <2>2. c = [j \in 1..(i - 1) |-> a[(i - 1 - j) + 1]]
    BY <1>5, <1>7 DEF Reverse
  <2>3. \A j \in 1..(i - 1) : c[j] = s[i - j]
    BY <1>5, <2>1, <2>2
  <2>4. \A j \in 1..(i - 1) : a[(i - 1 - j) + 1] \in S
    BY <1>5, <2>1, ListFacts
  <2>5. c \in [1..(i - 1) -> S] /\ i - 1 \in Nat
    BY <2>2, <2>4
  <2> QED
    BY <2>3, <2>5, FunctionList
<1>9. PICK o : o = OrderFrom(s, i)
  OBVIOUS
<1> DEFINE e(j) == IF j <= i - 1 THEN i - j ELSE j
<1>10. o \in Seq(S) /\ Len(o) = l /\ \A j \in 1..l : o[j] = s[e(j)]
  <2>1. o = c \o b
    BY <1>3, <1>4, <1>7, <1>9 DEF OrderFrom
  <2>2. /\ o \in Seq(S) /\ Len(o) = Len(c) + Len(b)
        /\ \A j \in 1..(Len(c) + Len(b)) : o[j] = IF j <= Len(c) THEN c[j] ELSE b[j - Len(c)]
    <3>1. c \in Seq(S) /\ b \in Seq(S)
      BY <1>6, <1>8
    <3>2. /\ c \o b \in Seq(S) /\ Len(c \o b) = Len(c) + Len(b)
          /\ \A j \in 1..(Len(c) + Len(b)) : (c \o b)[j] = IF j <= Len(c) THEN c[j] ELSE b[j - Len(c)]
      BY <3>1, ConcatProperties
    <3> QED
      BY <2>1, <3>2
  <2>3. Len(c) + Len(b) = l
    BY <1>2, <1>6, <1>8
  <2>4. ASSUME NEW j \in 1..l PROVE o[j] = s[e(j)]
    <3>1. CASE j <= i - 1
      <4>1. j \in 1..(i - 1)
        BY <3>1
      <4> QED
        BY <1>8, <2>2, <2>3, <3>1, <4>1
    <3>2. CASE ~(j <= i - 1)
      <4>1. j - (i - 1) \in 1..(l - i + 1) /\ i + (j - (i - 1)) - 1 = j
        BY <1>2, <3>2
      <4>2. b[j - (i - 1)] = s[j]
        BY <1>6, <4>1
      <4>3. o[j] = b[j - (i - 1)]
        BY <1>8, <2>2, <2>3, <3>2
      <4> QED
        BY <3>2, <4>2, <4>3
    <3> QED
      BY <3>1, <3>2
  <2> QED
    BY <2>2, <2>3, <2>4
<1>11. \A j \in 1..l : e(j) \in 1..l /\ \E k \in 1..l : e(k) = j
  <2>1. ASSUME NEW j \in 1..l PROVE e(j) \in 1..l
    BY <1>2
  <2>2. ASSUME NEW j \in 1..l PROVE \E k \in 1..l : e(k) = j
    <3>1. CASE j <= i - 1
      <4>1. i - j \in 1..l /\ i - j <= i - 1 /\ e(i - j) = j
        BY <1>2, <3>1
      <4> QED
        BY <4>1
    <3>2. CASE ~(j <= i - 1)
      BY <3>2
    <3> QED
      BY <3>1, <3>2
  <2> QED
    BY <2>1, <2>2
<1>12. \A j, k \in 1..l : e(j) = e(k) => j = k
  BY <1>2
<1> HIDE DEF e
<1>13. Range(o) = {o[j] : j \in 1..l}
  BY <1>10, ListFacts
<1>14. Range(o) = Range(s)
  <2>1. ASSUME NEW x \in Range(o) PROVE x \in Range(s)
    <3>1. PICK j \in 1..l : x = o[j]
      BY <1>13
    <3>2. x = s[e(j)] /\ e(j) \in 1..Len(s)
      BY <1>2, <1>10, <1>11, <3>1
    <3> QED
      BY <1>1, <3>2
  <2>2. ASSUME NEW x \in Range(s) PROVE x \in Range(o)
    <3>1. PICK j \in 1..Len(s) : x = s[j]
      BY <1>1
    <3>2. PICK k \in 1..l : e(k) = j
      BY <1>2, <1>11
    <3>3. x = o[k]
      BY <1>10, <3>1, <3>2
    <3> QED
      BY <1>13, <3>3
  <2> QED
    BY <2>1, <2>2
<1>15. \A j, k \in 1..l : o[j] = o[k] => j = k
  <2>1. SUFFICES ASSUME NEW j \in 1..l, NEW k \in 1..l, o[j] = o[k] PROVE e(j) = e(k)
    BY <1>12
  <2>2. s[e(j)] = s[e(k)] /\ e(j) \in 1..Len(s) /\ e(k) \in 1..Len(s)
    BY <1>2, <1>10, <1>11, <2>1
  <2> QED
    BY <2>2
<1> QED
  BY <1>9, <1>10, <1>14, <1>15
-----------------------------------------------------------------------------
(* lyd_insert                                                              *)

\* The nodes of R become children of p; they have to be validated again when
\* they were not its children before.
Mark(m, R, p, inv) ==
  [x \in Nodes |->
     IF x \notin R THEN m[x]
     ELSE LET a == [m[x] EXCEPT !.parent = p] IN IF inv THEN SetInvalid(a) ELSE a]

\* A node with another parent, before and after SetInvalid.
Marked(a, p, b) == b = [a EXCEPT !.parent = p] \/ b = SetInvalid([a EXCEPT !.parent = p])
LEMMA MarkNode ==
  ASSUME NEW a \in Node, NEW p \in Link, NEW b, Marked(a, p, b)
  PROVE  /\ b \in Node /\ b.parent = p /\ b.child = a.child /\ b.next = a.next
         /\ b.prev = a.prev /\ b.leafref = a.leafref /\ b.val = a.val
<1>1. CASE b = [a EXCEPT !.parent = p]
  BY <1>1 DEF Node
<1>2. CASE b = SetInvalid([a EXCEPT !.parent = p])
  BY <1>2 DEF Node, SetInvalid
<1> QED
  BY <1>1, <1>2 DEF Marked

\* Only their parent and their flag change.
LEMMA MarkFacts ==
  ASSUME NEW m \in Mem, NEW R, R \subseteq Live(m), NEW p \in Link, NEW inv \in BOOLEAN,
         NEW q, q = Mark(m, R, p, inv)
  PROVE  /\ q \in Mem /\ Live(q) = Live(m)
         /\ \A y \in Live(m) : /\ q[y].parent = IF y \in R THEN p ELSE m[y].parent
                               /\ q[y].leafref = m[y].leafref /\ q[y].val = m[y].val
         /\ KeepChild(m, q) /\ KeepNext(m, q) /\ KeepPrev(m, q)
<1>1. \A x \in Live(m) : m[x] \in Node /\ x \in Nodes
  BY NodeFields
<1>2. \A x \in Nodes : x \notin R => q[x] = m[x]
  BY DEF Mark
<1>3. \A x \in R : Marked(m[x], p, q[x])
  BY <1>1 DEF Mark, Marked
<1>4. ASSUME NEW x \in R
      PROVE  /\ q[x] \in Node /\ q[x].parent = p /\ q[x].child = m[x].child /\ q[x].next = m[x].next
             /\ q[x].prev = m[x].prev /\ q[x].leafref = m[x].leafref /\ q[x].val = m[x].val
  <2>1. m[x] \in Node
    BY <1>1
  <2> QED
    BY <1>3, <2>1, MarkNode
<1>5. \A x \in Nodes : q[x] \in Node \cup {None}
  BY <1>2, <1>4 DEF Mem
<1>6. q = [x \in Nodes |-> q[x]]
  BY DEF Mark
<1>7. q \in Mem
  BY <1>5, <1>6 DEF Mem
<1>8. \A x \in Nodes : q[x] # None <=> m[x] # None
  BY <1>1, <1>2, <1>4, NoneIsNothing DEF Live
<1>9. Live(q) = Live(m)
  BY <1>8 DEF Live
<1> QED
  BY <1>1, <1>2, <1>4, <1>7, <1>9 DEF KeepChild, KeepNext, KeepPrev

\* The list t without a parent becomes the children of p.  a is the memory after
\* the assignments to the pointers between the nodes.
Adopt(m, p, n, inv) ==
  LET moved == FollowFrom(m, n)
      first == m[p].child
      a == IF first = None THEN [m EXCEPT ![p].child = n]
           ELSE [m EXCEPT ![m[first].prev].next = n,
                          ![n].prev = m[first].prev,
                          ![first].prev = Last(moved)] IN
  Mark(a, Range(moved), p, inv)

\* lyd_insert unlinks the node and links it, with what follows it, to p.
LEMMA InsertedAdopt ==
  ASSUME NEW m, NEW p, NEW n
  PROVE  Inserted(m, p, n) =
           Adopt(IF m[n].parent # None \/ m[m[n].prev].next # None THEN Unlinked(m, n) ELSE m,
                 p, n, m[n].parent # p)
BY DEF Inserted, Adopt, Mark

\* p has no children yet.
AdoptDone(m, L, p, t, q) ==
  /\ Repr(q, L) /\ Live(q) = Live(m)
  /\ \A y \in Live(m) : /\ q[y].parent = IF y \in Range(t) THEN p ELSE m[y].parent
                        /\ q[y].leafref = m[y].leafref /\ q[y].val = m[y].val
LEMMA AdoptRepr ==
  ASSUME NEW m, NEW L, Repr(m, L), NEW t \in L, m[t[1]].parent = None, KindOf[t[1]] # "c",
         NEW p \in Live(m), KindOf[p] = "c", m[p].child = None, NEW inv \in BOOLEAN
  PROVE  AdoptDone(m, L, p, t, Adopt(m, p, t[1], inv))
<1>1. /\ t \in Seq(Nodes) /\ Len(t) \in Nat /\ Len(t) > 0 /\ 1 \in 1..Len(t) /\ t # << >>
      /\ \A i \in 1..Len(t) : t[i] \in Nodes /\ t[i] \in Live(m) /\ t[i] # None
      /\ Range(t) = {t[i] : i \in 1..Len(t)}
  BY ReprList DEF Repr
<1>2. m \in Mem /\ p \in Nodes /\ p \in Link
  BY NodeFields DEF Repr, Link
<1>3. FollowFrom(m, t[1]) = t
  BY <1>1, SiblingsList
<1>4. PICK a : a = PutChild(m, p, t[1])
  OBVIOUS
<1>5. PICK q : q = Mark(a, Range(t), p, inv)
  OBVIOUS
<1>6. q = Adopt(m, p, t[1], inv)
  BY <1>3, <1>4, <1>5 DEF Adopt, PutChild
<1>7. /\ a \in Mem /\ Live(a) = Live(m)
      /\ \A y \in Live(m) : a[y].child = IF y = p THEN t[1] ELSE m[y].child
      /\ KeepParent(m, a) /\ KeepNext(m, a) /\ KeepPrev(m, a) /\ KeepData(m, a)
  <2>1. t[1] \in Link
    BY <1>1 DEF Link
  <2> QED
    BY <1>2, <1>4, <2>1, SetChild
<1>8. Range(t) \subseteq Live(m)
  BY <1>1
<1>9. /\ q \in Mem /\ Live(q) = Live(a)
      /\ \A y \in Live(a) : /\ q[y].parent = IF y \in Range(t) THEN p ELSE a[y].parent
                            /\ q[y].leafref = a[y].leafref /\ q[y].val = a[y].val
      /\ KeepChild(a, q) /\ KeepNext(a, q) /\ KeepPrev(a, q)
  BY <1>2, <1>5, <1>7, <1>8, MarkFacts
<1>10. \A y \in Live(m) : /\ q[y].parent = IF y \in Range(t) THEN p ELSE m[y].parent
                          /\ q[y].child = IF y = p THEN t[1] ELSE m[y].child
                          /\ q[y].next = m[y].next /\ q[y].prev = m[y].prev
                          /\ q[y].leafref = m[y].leafref /\ q[y].val = m[y].val
  BY <1>7, <1>9 DEF KeepParent, KeepChild, KeepNext, KeepPrev, KeepData
<1>11. Live(q) = Live(m)
  BY <1>7, <1>9
<1>12. \A u \in L \ {t} : \A i \in 1..Len(u), j \in 1..Len(t) : u[i] # t[j]
  BY DEF Repr, Apart
<1>13. \A u \in L \ {t} : \A i \in 1..Len(u) : u[i] \in Live(m) /\ u[i] \notin Range(t)
  BY <1>1, <1>12, ReprList
<1>14. \A u \in L : m[u[1]].parent # p
  BY ChildrenList
<1>15. Ring(q, t)
  <2>1. Ring(m, t)
    BY DEF Repr
  <2>2. \A i \in 1..Len(t) : t[i] \in Range(t)
    BY <1>1
  <2>3. SUFFICES ASSUME NEW i \in 1..Len(t)
                 PROVE  /\ t[i] \in Live(q)
                        /\ q[t[i]].next = IF i = Len(t) THEN None ELSE t[i + 1]
                        /\ q[t[i]].prev = IF i = 1 THEN t[Len(t)] ELSE t[i - 1]
                        /\ q[t[i]].parent = q[t[1]].parent
                        /\ (KindOf[t[i]] = "c") <=> (KindOf[t[1]] = "c")
    BY DEF Ring
  <2>4. /\ m[t[i]].next = IF i = Len(t) THEN None ELSE t[i + 1]
        /\ m[t[i]].prev = IF i = 1 THEN t[Len(t)] ELSE t[i - 1]
        /\ (KindOf[t[i]] = "c") <=> (KindOf[t[1]] = "c")
    BY <2>1 DEF Ring
  <2>5. q[t[i]].parent = p /\ q[t[1]].parent = p
    BY <1>1, <1>10, <2>2
  <2>6. q[t[i]].next = m[t[i]].next /\ q[t[i]].prev = m[t[i]].prev /\ t[i] \in Live(q)
    BY <1>1, <1>10, <1>11
  <2> QED
    BY <2>4, <2>5, <2>6
<1>16. OwnList(q, t)
  <2>1. t[1] \in Range(t)
    BY <1>1
  <2> QED
    BY <1>1, <1>10, <1>11, <2>1 DEF OwnList
<1>17. \A u \in L \ {t} : Untouched(m, q, u) /\ OwnList(q, u)
  <2>1. SUFFICES ASSUME NEW u \in L \ {t} PROVE Untouched(m, q, u) /\ OwnList(q, u)
    OBVIOUS
  <2>2. Untouched(m, q, u)
    BY <1>10, <1>11, <1>13 DEF Untouched
  <2>3. 1 \in 1..Len(u) /\ OwnList(m, u) /\ m[u[1]].parent # p
    BY <1>14, ReprList DEF Repr
  <2>4. q[u[1]].parent = m[u[1]].parent
    BY <1>10, <1>13, <2>3
  <2>5. OwnList(q, u)
    BY <1>10, <1>11, <2>3, <2>4 DEF OwnList
  <2> QED
    BY <2>2, <2>5
<1>18. (L \ {t}) \cup {t} = L
  OBVIOUS
<1>19. Cover(q, L)
  BY <1>11 DEF Repr, Cover
<1>20. ASSUME NEW x \in Live(q) PROVE OwnChild(q, L, x)
  <2>1. CASE x = p
    <3>1. t[1] \in Range(t)
      BY <1>1
    <3>2. q[t[1]].parent = p
      BY <1>1, <1>10, <3>1
    <3> QED
      BY <1>10, <1>11, <2>1, <3>2 DEF OwnChild
  <2>2. CASE x # p
    <3>1. OwnChild(m, L, x) /\ q[x].child = m[x].child
      BY <1>10, <1>11, <2>2 DEF Repr
    <3>2. SUFFICES ASSUME m[x].child # None PROVE \E s \in L : s[1] = m[x].child /\ q[s[1]].parent = x
      BY <3>1 DEF OwnChild
    <3>3. PICK s \in L : s[1] = m[x].child /\ m[s[1]].parent = x
      BY <3>1, <3>2 DEF OwnChild
    <3>4. x # None
      BY <1>11, NodeFields, <1>2
    <3>5. s # t
      BY <3>3, <3>4
    <3>6. 1 \in 1..Len(s)
      BY ReprList
    <3>7. q[s[1]].parent = x
      BY <1>10, <1>13, <3>3, <3>5, <3>6
    <3> QED
      BY <3>3, <3>7
  <2> QED
    BY <2>1, <2>2
<1>21. Apart({t})
  BY DEF Repr, Apart
<1>22. Repr(q, (L \ {t}) \cup {t})
  <2>1. \A b \in {t} : b \in Seq(Nodes) /\ b # << >> /\ Ring(q, b) /\ OwnList(q, b)
    BY <1>1, <1>15, <1>16
  <2>2. \A u \in L \ {t}, b \in {t} : \A i \in 1..Len(u), j \in 1..Len(b) : u[i] # b[j]
    BY <1>12
  <2>3. Cover(q, (L \ {t}) \cup {t}) /\ \A x \in Live(q) : OwnChild(q, (L \ {t}) \cup {t}, x)
    BY <1>18, <1>19, <1>20
  <2> QED
    BY <1>9, <1>17, <1>21, <2>1, <2>2, <2>3, Relink
<1> QED
  BY <1>6, <1>10, <1>11, <1>18, <1>22 DEF AdoptDone
\* A list behind another one.
LEMMA JoinFacts ==
  ASSUME NEW S, NEW s \in Seq(S), NEW t \in Seq(S)
  PROVE  /\ s \o t \in Seq(S) /\ Len(s) \in Nat /\ Len(t) \in Nat /\ Len(s \o t) = Len(s) + Len(t)
         /\ \A j \in 1..Len(s) : (s \o t)[j] = s[j]
         /\ \A j \in 1..Len(t) : (s \o t)[Len(s) + j] = t[j]
         /\ \A k \in 1..(Len(s) + Len(t)) : k \in 1..Len(s) \/ \E j \in 1..Len(t) : k = Len(s) + j
<1>1. Len(s) \in Nat /\ Len(t) \in Nat
  BY ListFacts
<1>2. /\ s \o t \in Seq(S) /\ Len(s \o t) = Len(s) + Len(t)
      /\ \A j \in 1..(Len(s) + Len(t)) : (s \o t)[j] = IF j <= Len(s) THEN s[j] ELSE t[j - Len(s)]
  BY ConcatProperties
<1>3. PICK a \in Nat, b \in Nat : a = Len(s) /\ b = Len(t)
  BY <1>1
<1>4. \A j \in 1..a : j \in 1..(a + b) /\ j <= a
  OBVIOUS
<1>5. \A j \in 1..b : a + j \in 1..(a + b) /\ ~(a + j <= a) /\ (a + j) - a = j
  OBVIOUS
<1>6. ASSUME NEW k \in 1..(a + b), k \notin 1..a PROVE \E j \in 1..b : k = a + j
  <2>1. k - a \in 1..b /\ k = a + (k - a)
    BY <1>6
  <2> QED
    BY <2>1
<1> QED
  BY <1>1, <1>2, <1>3, <1>4, <1>5, <1>6

\* c is the list s, continued by the list t.
Joined(s, t, c) ==
  /\ c \in Seq(Nodes) /\ Len(c) = Len(s) + Len(t)
  /\ \A j \in 1..Len(s) : c[j] = s[j]
  /\ \A j \in 1..Len(t) : c[Len(s) + j] = t[j]
  /\ \A k \in 1..(Len(s) + Len(t)) : k \in 1..Len(s) \/ \E j \in 1..Len(t) : k = Len(s) + j
\* Concatenation joins the lists.
LEMMA JoinedFacts ==
  ASSUME NEW s \in Seq(Nodes), NEW t \in Seq(Nodes), NEW c, c = s \o t
  PROVE  Joined(s, t, c)
BY JoinFacts DEF Joined

\* An assignment to prev, as a relation between the memories.
PrevPut(m, x, v, q) ==
  /\ q \in Mem /\ Live(q) = Live(m)
  /\ \A y \in Live(m) : q[y].prev = IF y = x THEN v ELSE m[y].prev
  /\ KeepParent(m, q) /\ KeepChild(m, q) /\ KeepNext(m, q) /\ KeepData(m, q)
LEMMA PrevAt ==
  ASSUME NEW m \in Mem, NEW x \in Live(m), NEW v \in Nodes
  PROVE  PrevPut(m, x, v, PutPrev(m, x, v))
BY SetPrev DEF PrevPut

\* The assignments between the nodes of two lists that are joined: e is the end
\* of the first list, f its first node, n and z the first and the last node of
\* the other one.
PutJoin(m, e, n, f, z) == [m EXCEPT ![e].next = n, ![n].prev = e, ![f].prev = z]

\* They are three assignments.
JoinPut(m, e, n, f, z, q) ==
  /\ q \in Mem /\ Live(q) = Live(m)
  /\ \A y \in Live(m) : q[y].next = IF y = e THEN n ELSE m[y].next
  /\ \A y \in Live(m) : q[y].prev = IF y = f THEN z ELSE IF y = n THEN e ELSE m[y].prev
  /\ KeepParent(m, q) /\ KeepChild(m, q) /\ KeepData(m, q)
LEMMA SetJoin ==
  ASSUME NEW m \in Mem, NEW e \in Live(m), NEW n \in Live(m), NEW f \in Live(m), NEW z \in Nodes
  PROVE  JoinPut(m, e, n, f, z, PutJoin(m, e, n, f, z))
<1>1. n \in Link /\ e \in Nodes
  BY NodeFields DEF Link
<1>2. PICK a : a = PutNext(m, e, n)
  OBVIOUS
<1>3. PICK b : b = PutPrev(a, n, e)
  OBVIOUS
<1>4. PICK c : c = PutPrev(b, f, z)
  OBVIOUS
<1>5. PutJoin(m, e, n, f, z) = c
  BY <1>2, <1>3, <1>4 DEF PutJoin, PutNext, PutPrev
<1>6. /\ a \in Mem /\ Live(a) = Live(m)
      /\ \A y \in Live(m) : a[y].next = IF y = e THEN n ELSE m[y].next
      /\ KeepParent(m, a) /\ KeepChild(m, a) /\ KeepPrev(m, a) /\ KeepData(m, a)
  BY <1>1, <1>2, SetNext
<1>7. /\ b \in Mem /\ Live(b) = Live(a)
      /\ \A y \in Live(a) : b[y].prev = IF y = n THEN e ELSE a[y].prev
      /\ KeepParent(a, b) /\ KeepChild(a, b) /\ KeepNext(a, b) /\ KeepData(a, b)
  <2>1. a \in Mem /\ n \in Live(a)
    BY <1>6
  <2>2. e \in Nodes
    BY <1>1
  <2>3. PrevPut(a, n, e, b)
    BY <1>3, <2>1, <2>2, PrevAt
  <2> QED
    BY <2>3 DEF PrevPut
<1>8. /\ c \in Mem /\ Live(c) = Live(b)
      /\ \A y \in Live(b) : c[y].prev = IF y = f THEN z ELSE b[y].prev
      /\ KeepParent(b, c) /\ KeepChild(b, c) /\ KeepNext(b, c) /\ KeepData(b, c)
  <2>1. b \in Mem /\ f \in Live(b)
    BY <1>6, <1>7
  <2> QED
    BY <1>4, <2>1, SetPrev
<1> QED
  BY <1>5, <1>6, <1>7, <1>8 DEF JoinPut, KeepParent, KeepChild, KeepNext, KeepPrev, KeepData

\* The list s of the children of p is continued by the list t.
JoinDone(m, L, p, s, t, q) ==
  /\ Repr(q, (L \ {s, t}) \cup {s \o t}) /\ Live(q) = Live(m)
  /\ \A y \in Live(m) : /\ q[y].parent = IF y \in Range(t) THEN p ELSE m[y].parent
                        /\ q[y].leafref = m[y].leafref /\ q[y].val = m[y].val
LEMMA JoinRepr ==
  ASSUME NEW m, NEW L, Repr(m, L), NEW t \in L, m[t[1]].parent = None, KindOf[t[1]] # "c",
         NEW p \in Live(m), NEW s \in L, m[s[1]].parent = p, NEW inv \in BOOLEAN
  PROVE  JoinDone(m, L, p, s, t, Adopt(m, p, t[1], inv))
<1>1. /\ t \in Seq(Nodes) /\ Len(t) \in Nat /\ Len(t) > 0 /\ 1 \in 1..Len(t) /\ t # << >> /\ Len(t) \in 1..Len(t)
      /\ \A i \in 1..Len(t) : t[i] \in Nodes /\ t[i] \in Live(m) /\ t[i] # None
      /\ \A i, j \in 1..Len(t) : t[i] = t[j] => i = j
      /\ Range(t) = {t[i] : i \in 1..Len(t)}
  BY ReprList DEF Repr
<1>2. /\ s \in Seq(Nodes) /\ Len(s) \in Nat /\ Len(s) > 0 /\ 1 \in 1..Len(s) /\ s # << >> /\ Len(s) \in 1..Len(s)
      /\ \A i \in 1..Len(s) : s[i] \in Nodes /\ s[i] \in Live(m) /\ s[i] # None
      /\ \A i, j \in 1..Len(s) : s[i] = s[j] => i = j
      /\ Range(s) = {s[i] : i \in 1..Len(s)}
  BY ReprList DEF Repr
<1>3. m \in Mem /\ p \in Nodes /\ p \in Link /\ p # None
  BY NodeFields DEF Repr, Link
<1>4. Ring(m, s) /\ Ring(m, t) /\ OwnList(m, s)
  BY DEF Repr
<1>5. m[p].child = s[1] /\ m[s[1]].prev = s[Len(s)] /\ s # t
  BY <1>2, <1>3, <1>4, ChildrenList DEF Ring
<1>6. KindOf[s[1]] # "c" /\ KindOf[p] = "c"
  BY <1>3, <1>4 DEF OwnList
<1>7. \A i \in 1..Len(s), j \in 1..Len(t) : s[i] # t[j]
  BY <1>5 DEF Repr, Apart
<1>8. FollowFrom(m, t[1]) = t /\ Last(t) = t[Len(t)]
  BY <1>1, SiblingsList DEF Last
<1>9. PICK e : e = s[Len(s)]
  OBVIOUS
<1>10. PICK n : n = t[1]
  OBVIOUS
<1>11. PICK f : f = s[1]
  OBVIOUS
<1>12. PICK z : z = t[Len(t)]
  OBVIOUS
<1>13. PICK a : a = PutJoin(m, e, n, f, z)
  OBVIOUS
<1>14. PICK q : q = Mark(a, Range(t), p, inv)
  OBVIOUS
<1>15. q = Adopt(m, p, t[1], inv)
  BY <1>2, <1>5, <1>8, <1>9, <1>10, <1>11, <1>12, <1>13, <1>14 DEF Adopt, PutJoin
<1>16. e \in Live(m) /\ n \in Live(m) /\ f \in Live(m) /\ z \in Nodes
  BY <1>1, <1>2, <1>9, <1>10, <1>11, <1>12
<1>17. /\ a \in Mem /\ Live(a) = Live(m)
       /\ \A y \in Live(m) : a[y].next = IF y = e THEN n ELSE m[y].next
       /\ \A y \in Live(m) : a[y].prev = IF y = f THEN z ELSE IF y = n THEN e ELSE m[y].prev
       /\ KeepParent(m, a) /\ KeepChild(m, a) /\ KeepData(m, a)
  <2>1. JoinPut(m, e, n, f, z, a)
    BY <1>3, <1>13, <1>16, SetJoin
  <2> QED
    BY <2>1 DEF JoinPut
<1>18. Range(t) \subseteq Live(m)
  BY <1>1
<1>19. /\ q \in Mem /\ Live(q) = Live(a)
       /\ \A y \in Live(a) : /\ q[y].parent = IF y \in Range(t) THEN p ELSE a[y].parent
                             /\ q[y].leafref = a[y].leafref /\ q[y].val = a[y].val
       /\ KeepChild(a, q) /\ KeepNext(a, q) /\ KeepPrev(a, q)
  BY <1>3, <1>14, <1>17, <1>18, MarkFacts
<1>20. \A y \in Live(m) : /\ q[y].parent = IF y \in Range(t) THEN p ELSE m[y].parent
                          /\ q[y].child = m[y].child
                          /\ q[y].next = IF y = e THEN n ELSE m[y].next
                          /\ q[y].prev = IF y = f THEN z ELSE IF y = n THEN e ELSE m[y].prev
                          /\ q[y].leafref = m[y].leafref /\ q[y].val = m[y].val
  BY <1>17, <1>19 DEF KeepParent, KeepChild, KeepNext, KeepPrev, KeepData
<1>21. Live(q) = Live(m)
  BY <1>17, <1>19
<1>22. PICK c : c = s \o t
  OBVIOUS
<1>23. /\ c \in Seq(Nodes) /\ Len(c) = Len(s) + Len(t)
       /\ \A j \in 1..Len(s) : c[j] = s[j]
       /\ \A j \in 1..Len(t) : c[Len(s) + j] = t[j]
       /\ \A k \in 1..(Len(s) + Len(t)) : k \in 1..Len(s) \/ \E j \in 1..Len(t) : k = Len(s) + j
  <2>1. s \in Seq(Nodes) /\ t \in Seq(Nodes)
    BY <1>1, <1>2
  <2>2. Joined(s, t, c)
    BY <1>22, <2>1, JoinedFacts
  <2> QED
    BY <2>2 DEF Joined
<1>24. c # << >> /\ c[1] = s[1]
  BY <1>1, <1>2, <1>23, ListFacts
<1>25. \A k \in 1..Len(c) : c[k] \in Live(m) /\ q[c[k]].parent = p /\ KindOf[c[k]] # "c"
  <2>1. SUFFICES ASSUME NEW k \in 1..Len(c) PROVE c[k] \in Live(m) /\ q[c[k]].parent = p /\ KindOf[c[k]] # "c"
    OBVIOUS
  <2>2. CASE k \in 1..Len(s)
    <3>1. c[k] = s[k] /\ s[k] \in Live(m) /\ m[s[k]].parent = p /\ KindOf[s[k]] # "c"
      BY <1>2, <1>4, <1>6, <1>23, <2>2 DEF Ring
    <3> QED
      BY <1>20, <3>1
  <2>3. ASSUME NEW j \in 1..Len(t), k = Len(s) + j PROVE c[k] \in Live(m) /\ q[c[k]].parent = p /\ KindOf[c[k]] # "c"
    <3>1. c[k] = t[j] /\ t[j] \in Live(m) /\ KindOf[t[j]] # "c" /\ t[j] \in Range(t)
      BY <1>1, <1>4, <1>23, <2>3 DEF Ring
    <3> QED
      BY <1>20, <3>1
  <2> QED
    BY <1>23, <2>1, <2>2, <2>3
<1>26. \A k \in 1..Len(c) : /\ q[c[k]].next = IF k = Len(c) THEN None ELSE c[k + 1]
                            /\ q[c[k]].prev = IF k = 1 THEN c[Len(c)] ELSE c[k - 1]
  <2>1. SUFFICES ASSUME NEW k \in 1..Len(c)
                 PROVE  /\ q[c[k]].next = IF k = Len(c) THEN None ELSE c[k + 1]
                        /\ q[c[k]].prev = IF k = 1 THEN c[Len(c)] ELSE c[k - 1]
    OBVIOUS
  <2>2. CASE k \in 1..Len(s)
    <3>1. c[k] = s[k] /\ s[k] \in Live(m) /\ k # Len(c)
      BY <1>1, <1>2, <1>23, <2>2
    <3>2. c[Len(c)] = z /\ c[Len(s) + 1] = n
      BY <1>1, <1>10, <1>12, <1>23
    <3>3. q[s[k]].next = c[k + 1]
      <4>1. CASE k = Len(s)
        BY <1>9, <1>20, <3>1, <3>2, <4>1
      <4>2. CASE k # Len(s)
        <5>1. k + 1 \in 1..Len(s)
          BY <1>2, <2>2, <4>2
        <5>2. s[k] # e /\ m[s[k]].next = s[k + 1] /\ c[k + 1] = s[k + 1]
          BY <1>2, <1>4, <1>9, <1>23, <2>2, <4>2, <5>1 DEF Ring
        <5> QED
          BY <1>20, <3>1, <5>2
      <4> QED
        BY <4>1, <4>2
    <3>4. k = 1 => q[s[k]].prev = z
      BY <1>11, <1>20, <3>1
    <3>5. k # 1 => q[s[k]].prev = c[k - 1]
      <4>1. SUFFICES ASSUME k # 1 PROVE q[s[k]].prev = c[k - 1]
        OBVIOUS
      <4>2. k - 1 \in 1..Len(s)
        BY <2>2, <4>1
      <4>3. s[k] # f /\ s[k] # n /\ m[s[k]].prev = s[k - 1] /\ c[k - 1] = s[k - 1]
        BY <1>1, <1>2, <1>4, <1>7, <1>10, <1>11, <1>23, <2>2, <4>1, <4>2 DEF Ring
      <4> QED
        BY <1>20, <3>1, <4>3
    <3> QED
      BY <3>1, <3>2, <3>3, <3>4, <3>5
  <2>3. ASSUME NEW j \in 1..Len(t), k = Len(s) + j
        PROVE  /\ q[c[k]].next = IF k = Len(c) THEN None ELSE c[k + 1]
               /\ q[c[k]].prev = IF k = 1 THEN c[Len(c)] ELSE c[k - 1]
    <3>a. PICK a1 \in Nat, b1 \in Nat : a1 = Len(s) /\ b1 = Len(t)
      BY <1>1, <1>2
    <3>b. a1 + j # 1 /\ (a1 + j = a1 + b1 <=> j = b1)
      BY <1>2, <3>a
    <3>1. c[k] = t[j] /\ t[j] \in Live(m) /\ k # 1 /\ (k = Len(c) <=> j = Len(t))
      BY <1>1, <1>23, <2>3, <3>a, <3>b
    <3>2. t[j] # e /\ t[j] # f
      BY <1>2, <1>7, <1>9, <1>11
    <3>3. q[t[j]].next = m[t[j]].next
      BY <1>20, <3>1, <3>2
    <3>4. j # Len(t) => m[t[j]].next = c[k + 1]
      <4>1. SUFFICES ASSUME j # Len(t) PROVE m[t[j]].next = c[k + 1]
        OBVIOUS
      <4>2. j + 1 \in 1..Len(t) /\ k + 1 = Len(s) + (j + 1)
        BY <1>1, <1>2, <2>3, <4>1
      <4>3. m[t[j]].next = t[j + 1]
        BY <1>4, <4>1 DEF Ring
      <4> QED
        BY <1>23, <4>2, <4>3
    <3>5. j = Len(t) => m[t[j]].next = None
      BY <1>4 DEF Ring
    <3>6. q[t[j]].prev = c[k - 1]
      <4>1. CASE j = 1
        <5>1. k - 1 = Len(s) /\ c[Len(s)] = e
          BY <1>2, <1>9, <1>23, <2>3, <4>1
        <5> QED
          BY <1>10, <1>20, <3>1, <3>2, <4>1, <5>1
      <4>2. CASE j # 1
        <5>1. j - 1 \in 1..Len(t) /\ k - 1 = Len(s) + (j - 1)
          BY <1>1, <1>2, <2>3, <4>2
        <5>2. m[t[j]].prev = t[j - 1] /\ c[k - 1] = t[j - 1]
          BY <1>4, <1>23, <4>2, <5>1 DEF Ring
        <5>3. t[j] # n
          BY <1>1, <1>10, <4>2
        <5> QED
          BY <1>20, <3>1, <3>2, <5>2, <5>3
      <4> QED
        BY <4>1, <4>2
    <3> QED
      BY <3>1, <3>3, <3>4, <3>5, <3>6
  <2> QED
    BY <1>23, <2>1, <2>2, <2>3
<1>27. Ring(q, c)
  <2>1. 1 \in 1..Len(c)
    BY <1>1, <1>2, <1>23
  <2> QED
    BY <1>21, <1>25, <1>26, <2>1 DEF Ring
<1>28. OwnList(q, c)
  <2>1. q[c[1]].parent = p /\ q[p].child = c[1] /\ p \in Live(q) /\ KindOf[c[1]] # "c"
    BY <1>1, <1>2, <1>5, <1>6, <1>20, <1>21, <1>23, <1>24, <1>25
  <2> QED
    BY <1>6, <2>1 DEF OwnList
<1>29. \A u \in L \ {s, t} : \A i \in 1..Len(u), j \in 1..Len(c) : u[i] # c[j]
  <2>1. SUFFICES ASSUME NEW u \in L \ {s, t}, NEW i \in 1..Len(u), NEW j \in 1..Len(c) PROVE u[i] # c[j]
    OBVIOUS
  <2>2. \A k \in 1..Len(s) : u[i] # s[k]
    BY DEF Repr, Apart
  <2>3. \A k \in 1..Len(t) : u[i] # t[k]
    BY DEF Repr, Apart
  <2> QED
    BY <1>23, <2>2, <2>3
<1>30. \A u \in L \ {s, t} : /\ \A i \in 1..Len(u) : u[i] \in Live(m) /\ u[i] \notin Range(t)
                             /\ \A i \in 1..Len(u) : u[i] # e /\ u[i] # n /\ u[i] # f
  <2>1. SUFFICES ASSUME NEW u \in L \ {s, t}, NEW i \in 1..Len(u)
                 PROVE  u[i] \in Live(m) /\ u[i] \notin Range(t) /\ u[i] # e /\ u[i] # n /\ u[i] # f
    OBVIOUS
  <2>2. \A k \in 1..Len(s) : u[i] # s[k]
    BY DEF Repr, Apart
  <2>3. \A k \in 1..Len(t) : u[i] # t[k]
    BY DEF Repr, Apart
  <2>4. u[i] \in Live(m)
    BY ReprList
  <2> QED
    BY <1>1, <1>2, <1>9, <1>10, <1>11, <2>2, <2>3, <2>4
<1>31. \A u \in L \ {s, t} : Untouched(m, q, u) /\ OwnList(q, u)
  <2>1. SUFFICES ASSUME NEW u \in L \ {s, t} PROVE Untouched(m, q, u) /\ OwnList(q, u)
    OBVIOUS
  <2>2. Untouched(m, q, u)
    BY <1>20, <1>21, <1>30 DEF Untouched
  <2>3. 1 \in 1..Len(u) /\ OwnList(m, u)
    BY ReprList DEF Repr
  <2>4. q[u[1]].parent = m[u[1]].parent
    BY <1>20, <1>30, <2>3
  <2>5. OwnList(q, u)
    BY <1>20, <1>21, <2>3, <2>4 DEF OwnList
  <2> QED
    BY <2>2, <2>5
<1> DEFINE M == (L \ {s, t}) \cup {c}
<1>32. Cover(q, M)
  <2>1. SUFFICES ASSUME NEW x \in Live(m) PROVE \E u \in M : \E i \in 1..Len(u) : u[i] = x
    BY <1>21 DEF Cover
  <2>2. PICK u \in L : \E i \in 1..Len(u) : u[i] = x
    BY ListOf
  <2>3. PICK i \in 1..Len(u) : u[i] = x
    BY <2>2
  <2>4. CASE u = s
    <3>1. i \in 1..Len(c) /\ c[i] = x
      BY <1>1, <1>2, <1>23, <2>3, <2>4
    <3> QED
      BY <3>1
  <2>5. CASE u = t
    <3>1. Len(s) + i \in 1..Len(c) /\ c[Len(s) + i] = x
      BY <1>1, <1>2, <1>23, <2>3, <2>5
    <3> QED
      BY <3>1
  <2>6. CASE u # s /\ u # t
    BY <2>3, <2>6
  <2> QED
    BY <2>4, <2>5, <2>6
<1>33. ASSUME NEW x \in Live(q) PROVE OwnChild(q, M, x)
  <2>1. x \in Live(m) /\ q[x].child = m[x].child /\ OwnChild(m, L, x) /\ x # None
    BY <1>20, <1>21, NodeFields DEF Repr
  <2>2. SUFFICES ASSUME m[x].child # None PROVE \E u \in M : u[1] = m[x].child /\ q[u[1]].parent = x
    BY <2>1 DEF OwnChild
  <2>3. PICK u \in L : u[1] = m[x].child /\ m[u[1]].parent = x
    BY <2>1, <2>2 DEF OwnChild
  <2>4. CASE u = s
    <3>1. x = p /\ c[1] = m[x].child /\ q[c[1]].parent = p
      BY <1>1, <1>2, <1>23, <1>24, <1>25, <2>3, <2>4
    <3> QED
      BY <3>1
  <2>5. CASE u # s
    <3>1. u # t /\ 1 \in 1..Len(u)
      BY <2>1, <2>3, ReprList
    <3>2. q[u[1]].parent = x
      BY <1>20, <1>30, <2>3, <2>5, <3>1
    <3> QED
      BY <2>3, <2>5, <3>1, <3>2
  <2> QED
    BY <2>4, <2>5
<1>34. \A i, j \in 1..Len(c) : c[i] = c[j] => i = j
  <2>1. SUFFICES ASSUME NEW i \in 1..Len(c), NEW j \in 1..Len(c), c[i] = c[j] PROVE i = j
    OBVIOUS
  <2>2. CASE i \in 1..Len(s) /\ j \in 1..Len(s)
    BY <1>2, <1>23, <2>1, <2>2
  <2>3. CASE i \in 1..Len(s) /\ j \notin 1..Len(s)
    BY <1>7, <1>23, <2>1, <2>3
  <2>4. CASE i \notin 1..Len(s) /\ j \in 1..Len(s)
    BY <1>7, <1>23, <2>1, <2>4
  <2>5. CASE i \notin 1..Len(s) /\ j \notin 1..Len(s)
    BY <1>1, <1>23, <2>1, <2>5
  <2> QED
    BY <2>2, <2>3, <2>4, <2>5
<1>35. Apart({c})
  BY <1>34 DEF Apart
<1>36. Repr(q, M)
  <2>1. \A b \in {c} : b \in Seq(Nodes) /\ b # << >> /\ Ring(q, b) /\ OwnList(q, b)
    BY <1>23, <1>24, <1>27, <1>28
  <2>2. \A u \in L \ {s, t}, b \in {c} : \A i \in 1..Len(u), j \in 1..Len(b) : u[i] # b[j]
    BY <1>29
  <2> QED
    BY <1>19, <1>31, <1>32, <1>33, <1>35, <2>1, <2>2, Relink
<1> QED
  BY <1>15, <1>20, <1>21, <1>22, <1>36 DEF JoinDone
\* The list t with the first node n becomes the children of p, or continues
\* them.
PlainDone(m, L, p, t, q) ==
  /\ m[p].child = None => AdoptDone(m, L, p, t, q)
  /\ \A s \in L : m[s[1]].parent = p => JoinDone(m, L, p, s, t, q)
LEMMA PlainRepr ==
  ASSUME NEW m, NEW L, Repr(m, L), NEW t \in L, m[t[1]].parent = None, KindOf[t[1]] # "c",
         NEW p \in Live(m), KindOf[p] = "c", NEW inv \in BOOLEAN
  PROVE  PlainDone(m, L, p, t, Adopt(m, p, t[1], inv))
BY AdoptRepr, JoinRepr DEF PlainDone

\* The lists after lyd_unlink.
Parted(L, s, i) == (L \ {s}) \cup (Rest(s, i) \cup {<<s[i]>>})

\* lyd_insert: a node that heads a list without a parent is moved with its list,
\* any other node is unlinked first.
InsertDone(m, L, p, n, q) ==
  \/ \E t \in L : t[1] = n /\ m[n].parent = None /\ PlainDone(m, L, p, t, q)
  \/ \E s \in L : \E i \in 1..Len(s) : \E u :
       /\ s[i] = n /\ (m[n].parent # None \/ i # 1)
       /\ UnlinkDone(m, L, s, i, u) /\ PlainDone(u, Parted(L, s, i), p, <<n>>, q)
LEMMA InsertRepr ==
  ASSUME NEW m, NEW L, Repr(m, L), NEW n \in Live(m), NEW p \in Live(m), KindOf[p] = "c", KindOf[n] # "c"
  PROVE  InsertDone(m, L, p, n, Inserted(m, p, n))
<1>1. PICK q : q = Inserted(m, p, n)
  OBVIOUS
<1>2. PICK s \in L : \E i \in 1..Len(s) : s[i] = n
  BY ListOf
<1>3. PICK i \in 1..Len(s) : s[i] = n
  BY <1>2
<1>4. /\ s \in Seq(Nodes) /\ Len(s) \in Nat /\ 1 \in 1..Len(s) /\ Len(s) \in 1..Len(s)
      /\ \A j \in 1..Len(s) : s[j] \in Nodes /\ s[j] \in Live(m) /\ s[j] # None
  BY ReprList
<1>5. i # 1 => m[m[n].prev].next # None
  <2>1. SUFFICES ASSUME i # 1 PROVE m[m[n].prev].next # None
    OBVIOUS
  <2>2. i - 1 \in 1..Len(s) /\ i - 1 # Len(s) /\ (i - 1) + 1 = i
    BY <1>4, <2>1
  <2>3. m[n].prev = s[i - 1]
    BY <1>3, <2>1 DEF Repr, Ring
  <2>4. m[s[i - 1]].next = s[(i - 1) + 1]
    BY <2>2 DEF Repr, Ring
  <2> QED
    BY <1>4, <2>2, <2>3, <2>4
<1>6. i = 1 => m[m[n].prev].next = None
  <2>1. SUFFICES ASSUME i = 1 PROVE m[m[n].prev].next = None
    OBVIOUS
  <2>2. m[n].prev = s[Len(s)]
    BY <1>3, <2>1 DEF Repr, Ring
  <2>3. m[s[Len(s)]].next = None
    BY <1>4 DEF Repr, Ring
  <2> QED
    BY <2>2, <2>3
<1>7. (m[n].parent # p) \in BOOLEAN
  OBVIOUS
<1>8. CASE m[n].parent = None /\ i = 1
  <2>1. q = Adopt(m, p, s[1], m[n].parent # p)
    BY <1>1, <1>3, <1>6, <1>8, InsertedAdopt
  <2>2. PlainDone(m, L, p, s, q)
    BY <1>3, <1>7, <1>8, <2>1, PlainRepr
  <2> QED
    BY <1>1, <1>3, <1>8, <2>2 DEF InsertDone
<1>9. CASE m[n].parent # None \/ i # 1
  <2>1. PICK u : u = Unlinked(m, n)
    OBVIOUS
  <2>2. q = Adopt(u, p, n, m[n].parent # p)
    BY <1>1, <1>5, <1>9, <2>1, InsertedAdopt
  <2>3. UnlinkDone(m, L, s, i, u)
    BY <1>3, <2>1, UnlinkRepr
  <2>4. Repr(u, Parted(L, s, i)) /\ Live(u) = Live(m) /\ u[n].parent = None
    BY <1>3, <2>3 DEF UnlinkDone, Parted
  <2>5. PICK t : t = <<n>>
    OBVIOUS
  <2>6. t \in Parted(L, s, i) /\ t[1] = n
    BY <1>3, <2>5 DEF Parted
  <2>7. PlainDone(u, Parted(L, s, i), p, t, q)
    <3>1. PICK M : M = Parted(L, s, i)
      OBVIOUS
    <3>2. PICK inv \in BOOLEAN : inv = (m[n].parent # p)
      BY <1>7
    <3>3. Repr(u, M) /\ t \in M /\ u[t[1]].parent = None /\ KindOf[t[1]] # "c" /\ p \in Live(u)
      BY <2>4, <2>6, <3>1
    <3>4. PlainDone(u, M, p, t, Adopt(u, p, t[1], inv))
      BY <3>3, PlainRepr
    <3> QED
      BY <2>2, <2>6, <3>1, <3>2, <3>4
  <2> QED
    BY <1>1, <1>3, <1>9, <2>3, <2>5, <2>7 DEF InsertDone
<1> QED
  BY <1>8, <1>9

\* There are lists again.
LEMMA PlainLists ==
  ASSUME NEW m, NEW L, Repr(m, L), NEW p \in Live(m), NEW t, NEW q, PlainDone(m, L, p, t, q)
  PROVE  \E K : Repr(q, K)
<1>1. CASE m[p].child = None
  BY <1>1 DEF PlainDone, AdoptDone
<1>2. CASE m[p].child # None
  <2>1. PICK s \in L : m[s[1]].parent = p /\ s[1] = m[p].child
    BY <1>2, ChildrenList
  <2> QED
    BY <2>1 DEF PlainDone, JoinDone
<1> QED
  BY <1>1, <1>2

\* So there are after lyd_insert.
LEMMA InsertLists ==
  ASSUME NEW m, NEW L, Repr(m, L), NEW p \in Live(m), NEW n, NEW q, InsertDone(m, L, p, n, q)
  PROVE  \E K : Repr(q, K)
<1>1. CASE \E t \in L : t[1] = n /\ m[n].parent = None /\ PlainDone(m, L, p, t, q)
  BY <1>1, PlainLists
<1>2. ASSUME NEW s \in L, NEW i \in 1..Len(s), NEW u,
             UnlinkDone(m, L, s, i, u), PlainDone(u, Parted(L, s, i), p, <<n>>, q)
      PROVE  \E K : Repr(q, K)
  <2>1. Repr(u, Parted(L, s, i)) /\ p \in Live(u)
    BY <1>2 DEF UnlinkDone, Parted
  <2> QED
    BY <1>2, <2>1, PlainLists
<1> QED
  BY <1>1, <1>2 DEF InsertDone
-----------------------------------------------------------------------------
(* lyd_insert_before and lyd_insert_after                                  *)

\* A list with n put at position k, and where its nodes were before.
Grow(s, k, n) == [j \in 1..(Len(s) + 1) |-> IF j < k THEN s[j] ELSE IF j = k THEN n ELSE s[j - 1]]

\* Its nodes.
LEMMA GrowFacts ==
  ASSUME NEW S, NEW s \in Seq(S), NEW n \in S, NEW k \in 1..(Len(s) + 1)
  PROVE  /\ Grow(s, k, n) \in Seq(S) /\ Len(Grow(s, k, n)) = Len(s) + 1 /\ Len(s) \in Nat
         /\ Grow(s, k, n)[k] = n
         /\ \A j \in 1..Len(s) : j < k => Grow(s, k, n)[j] = s[j]
         /\ \A j \in 1..Len(s) : j >= k => Grow(s, k, n)[j + 1] = s[j]
         /\ \A j \in 1..(Len(s) + 1) : \/ j = k
                                       \/ j \in 1..Len(s) /\ j < k
                                       \/ \E i \in 1..Len(s) : i >= k /\ j = i + 1
<1>1. Len(s) \in Nat /\ \A j \in 1..Len(s) : s[j] \in S
  BY ListFacts
<1>2. PICK l \in Nat : l = Len(s)
  BY <1>1
<1>3. PICK c : c = Grow(s, k, n)
  OBVIOUS
<1>4. /\ \A j \in 1..l : j < k => j \in 1..(l + 1)
      /\ \A j \in 1..l : j >= k => j + 1 \in 1..(l + 1) /\ ~(j + 1 < k) /\ j + 1 # k /\ (j + 1) - 1 = j
      /\ \A j \in 1..(l + 1) : j < k => j \in 1..l
      /\ \A j \in 1..(l + 1) : ~(j < k) /\ j # k => j - 1 \in 1..l /\ j - 1 >= k /\ (j - 1) + 1 = j
  BY <1>2
<1>5. \A j \in 1..(l + 1) : c[j] = IF j < k THEN s[j] ELSE IF j = k THEN n ELSE s[j - 1]
  BY <1>2, <1>3 DEF Grow
<1>6. \A j \in 1..(l + 1) : c[j] \in S
  <2>1. SUFFICES ASSUME NEW j \in 1..(l + 1) PROVE c[j] \in S
    OBVIOUS
  <2>2. CASE j < k
    BY <1>1, <1>2, <1>4, <1>5, <2>2
  <2>3. CASE j = k
    BY <1>5, <2>3
  <2>4. CASE ~(j < k) /\ j # k
    BY <1>1, <1>2, <1>4, <1>5, <2>4
  <2> QED
    BY <2>2, <2>3, <2>4
<1>7. c = [j \in 1..(l + 1) |-> c[j]]
  BY <1>2, <1>3 DEF Grow
<1>8. c \in [1..(l + 1) -> S] /\ l + 1 \in Nat
  BY <1>6, <1>7
<1>9. c \in Seq(S) /\ Len(c) = l + 1
  BY <1>8, FunctionList
<1>10. c[k] = n
  BY <1>2, <1>5
<1>11. ASSUME NEW j \in 1..l, j < k PROVE c[j] = s[j]
  BY <1>4, <1>5, <1>11
<1>12. ASSUME NEW j \in 1..l, j >= k PROVE c[j + 1] = s[j]
  <2>1. j + 1 \in 1..(l + 1) /\ ~(j + 1 < k) /\ j + 1 # k /\ (j + 1) - 1 = j
    BY <1>4, <1>12
  <2> QED
    BY <1>5, <2>1
<1>13. ASSUME NEW j \in 1..(l + 1), j # k, ~(j < k) PROVE \E i \in 1..l : i >= k /\ j = i + 1
  <2>1. j - 1 \in 1..l /\ j - 1 >= k /\ (j - 1) + 1 = j
    BY <1>4, <1>13
  <2> QED
    BY <2>1
<1> QED
  BY <1>1, <1>2, <1>3, <1>4, <1>9, <1>10, <1>11, <1>12, <1>13

\* The assignments that put n, which stands alone, at position k of the list s.
PlacePut(m, s, k, n, q) ==
  /\ q \in Mem /\ Live(q) = Live(m)
  /\ \A y \in Live(m) :
       /\ q[y].parent = IF y = n THEN m[s[1]].parent ELSE m[y].parent
       /\ q[y].child = IF k = 1 /\ y = m[s[1]].parent THEN n ELSE m[y].child
       /\ y = n => q[y].next = IF k = Len(s) + 1 THEN None ELSE s[k]
       /\ y # n => q[y].next = IF k # 1 /\ y = s[k - 1] THEN n ELSE m[y].next
       /\ y = n => q[y].prev = IF k = 1 THEN s[Len(s)] ELSE s[k - 1]
       /\ y # n => q[y].prev = IF y = s[IF k = Len(s) + 1 THEN 1 ELSE k] THEN n ELSE m[y].prev
       /\ q[y].leafref = m[y].leafref /\ q[y].val = m[y].val

\* The list with n is a ring.
LEMMA PlaceRing ==
  ASSUME NEW m, NEW L, Repr(m, L), NEW s \in L, NEW n \in Live(m), <<n>> \in L, s # <<n>>,
         (KindOf[n] = "c") <=> (KindOf[s[1]] = "c"), NEW k \in 1..(Len(s) + 1), NEW q, PlacePut(m, s, k, n, q)
  PROVE  /\ Ring(q, Grow(s, k, n)) /\ q[Grow(s, k, n)[1]].parent = m[s[1]].parent
         /\ \A j \in 1..Len(s) : s[j] # n
<1>1. /\ s \in Seq(Nodes) /\ Len(s) \in Nat /\ Len(s) > 0 /\ 1 \in 1..Len(s) /\ Len(s) \in 1..Len(s)
      /\ \A i \in 1..Len(s) : s[i] \in Nodes /\ s[i] \in Live(m) /\ s[i] # None
      /\ \A i, j \in 1..Len(s) : s[i] = s[j] => i = j
  BY ReprList DEF Repr
<1>2. n \in Nodes /\ m \in Mem
  BY NodeFields DEF Repr
<1>3. \A j \in 1..Len(s) : s[j] # n
  <2>1. Len(<<n>>) = 1 /\ <<n>>[1] = n /\ 1 \in 1..Len(<<n>>)
    BY <1>2, Single
  <2> QED
    BY <2>1 DEF Repr, Apart
<1>4. PICK c : c = Grow(s, k, n)
  OBVIOUS
<1>5. /\ c \in Seq(Nodes) /\ Len(c) = Len(s) + 1
      /\ c[k] = n
      /\ \A j \in 1..Len(s) : j < k => c[j] = s[j]
      /\ \A j \in 1..Len(s) : j >= k => c[j + 1] = s[j]
      /\ \A j \in 1..(Len(s) + 1) : \/ j = k
                                    \/ j \in 1..Len(s) /\ j < k
                                    \/ \E i \in 1..Len(s) : i >= k /\ j = i + 1
  BY <1>1, <1>2, <1>4, GrowFacts
<1>6. PICK l \in Nat : l = Len(s)
  BY <1>1
<1>7. k \in 1..(l + 1) /\ l > 0
  BY <1>1, <1>6
<1>8. \A j \in 1..l : /\ s[j] \in Live(m) /\ s[j] # n
                      /\ m[s[j]].next = IF j = l THEN None ELSE s[j + 1]
                      /\ m[s[j]].prev = IF j = 1 THEN s[l] ELSE s[j - 1]
                      /\ m[s[j]].parent = m[s[1]].parent
                      /\ (KindOf[s[j]] = "c") <=> (KindOf[s[1]] = "c")
  BY <1>1, <1>3, <1>6 DEF Repr, Ring
<1>9. /\ \A j \in 1..l : j < k => c[j] = s[j]
      /\ \A j \in 1..l : j >= k => c[j + 1] = s[j]
  BY <1>5, <1>6
<1>10. ASSUME NEW j \in 1..l
       PROVE  /\ j + 1 = k => q[s[j]].next = n
              /\ j + 1 # k => q[s[j]].next = IF j = l THEN None ELSE s[j + 1]
  <2>1. s[j] \in Live(m) /\ s[j] # n
    BY <1>8
  <2>2. q[s[j]].next = IF k # 1 /\ s[j] = s[k - 1] THEN n ELSE m[s[j]].next
    BY <2>1 DEF PlacePut
  <2>3. k # 1 => k - 1 \in 1..l
    BY <1>7
  <2>4. (k # 1 /\ s[j] = s[k - 1]) <=> j + 1 = k
    BY <1>1, <1>6, <1>7, <2>3
  <2> QED
    BY <1>8, <2>2, <2>4
<1>11. ASSUME NEW j \in 1..l
       PROVE  /\ k = l + 1 /\ j = 1 => q[s[j]].prev = n
              /\ j = k => q[s[j]].prev = n
              /\ j # k /\ ~(k = l + 1 /\ j = 1) => q[s[j]].prev = IF j = 1 THEN s[l] ELSE s[j - 1]
  <2>1. s[j] \in Live(m) /\ s[j] # n
    BY <1>8
  <2>2. PICK o : o = IF k = l + 1 THEN 1 ELSE k
    OBVIOUS
  <2>3. q[s[j]].prev = IF s[j] = s[o] THEN n ELSE m[s[j]].prev
    BY <1>6, <2>1, <2>2 DEF PlacePut
  <2>4. o \in 1..l
    BY <1>7, <2>2
  <2>5. s[j] = s[o] <=> j = o
    BY <1>1, <1>6, <2>4
  <2>6. m[s[j]].prev = IF j = 1 THEN s[l] ELSE s[j - 1]
    BY <1>8
  <2>7. j = o <=> (IF k = l + 1 THEN j = 1 ELSE j = k)
    BY <2>2
  <2> QED
    BY <1>7, <2>3, <2>5, <2>6, <2>7
<1>12. /\ q[n].next = IF k = l + 1 THEN None ELSE s[k]
       /\ q[n].prev = IF k = 1 THEN s[l] ELSE s[k - 1]
       /\ q[n].parent = m[s[1]].parent
  BY <1>6 DEF PlacePut
<1>13. Live(q) = Live(m)
  BY DEF PlacePut
<1>14. \A j \in 1..(l + 1) : /\ c[j] \in Live(q) /\ q[c[j]].parent = m[s[1]].parent
                             /\ (KindOf[c[j]] = "c") <=> (KindOf[s[1]] = "c")
  <2>1. c[k] \in Live(q) /\ q[c[k]].parent = m[s[1]].parent /\ ((KindOf[c[k]] = "c") <=> (KindOf[s[1]] = "c"))
    BY <1>5, <1>12, <1>13
  <2>2. \A j \in 1..l : s[j] \in Live(q) /\ q[s[j]].parent = m[s[1]].parent /\ ((KindOf[s[j]] = "c") <=> (KindOf[s[1]] = "c"))
    BY <1>8, <1>13 DEF PlacePut
  <2>3. SUFFICES ASSUME NEW j \in 1..(l + 1)
                 PROVE  /\ c[j] \in Live(q) /\ q[c[j]].parent = m[s[1]].parent
                        /\ (KindOf[c[j]] = "c") <=> (KindOf[s[1]] = "c")
    OBVIOUS
  <2>4. j = k \/ \E i \in 1..l : c[j] = s[i]
    BY <1>5, <1>6
  <2> QED
    BY <2>1, <2>2, <2>4
<1>15. ASSUME NEW j \in 1..(l + 1)
       PROVE  /\ q[c[j]].next = IF j = l + 1 THEN None ELSE c[j + 1]
              /\ q[c[j]].prev = IF j = 1 THEN c[l + 1] ELSE c[j - 1]
  <2>1. CASE j = k
    <3>1. c[j] = n
      BY <1>5, <2>1
    <3>2. k # l + 1 => k \in 1..l /\ c[k + 1] = s[k]
      BY <1>7, <1>9
    <3>3. k # 1 => k - 1 \in 1..l /\ c[k - 1] = s[k - 1]
      BY <1>7, <1>9
    <3>4. k = 1 => c[l + 1] = s[l]
      BY <1>7, <1>9
    <3> QED
      BY <1>12, <2>1, <3>1, <3>2, <3>3, <3>4
  <2>2. CASE j < k
    <3>1. j \in 1..l /\ c[j] = s[j] /\ j # l + 1
      BY <1>7, <1>9, <2>2
    <3>2. q[s[j]].next = c[j + 1]
      <4>1. CASE j + 1 = k
        BY <1>5, <1>10, <3>1, <4>1
      <4>2. CASE j + 1 # k
        <5>1. j + 1 \in 1..l /\ j + 1 < k /\ j # l
          BY <1>7, <2>2, <3>1, <4>2
        <5> QED
          BY <1>9, <1>10, <3>1, <4>2, <5>1
      <4> QED
        BY <4>1, <4>2
    <3>3. j # 1 => q[s[j]].prev = c[j - 1]
      <4>1. SUFFICES ASSUME j # 1 PROVE q[s[j]].prev = c[j - 1]
        OBVIOUS
      <4>2. j - 1 \in 1..l /\ j - 1 < k /\ j # k
        BY <1>7, <2>2, <3>1, <4>1
      <4> QED
        BY <1>9, <1>11, <3>1, <4>1, <4>2
    <3>4. j = 1 => q[s[j]].prev = c[l + 1]
      <4>1. SUFFICES ASSUME j = 1 PROVE q[s[j]].prev = c[l + 1]
        OBVIOUS
      <4>2. CASE k = l + 1
        BY <1>5, <1>11, <3>1, <4>1, <4>2
      <4>3. CASE k # l + 1
        <5>1. l \in 1..l /\ l >= k /\ j # k
          BY <1>7, <2>2, <4>3
        <5>2. c[l + 1] = s[l]
          BY <1>9, <5>1
        <5> QED
          BY <1>11, <3>1, <4>1, <4>3, <5>1, <5>2
      <4> QED
        BY <4>2, <4>3
    <3> QED
      BY <3>1, <3>2, <3>3, <3>4
  <2>3. CASE j # k /\ ~(j < k)
    <3>1. PICK i \in 1..l : i >= k /\ j = i + 1
      BY <1>5, <1>6, <2>3
    <3>2. c[j] = s[i] /\ j # 1 /\ (j = l + 1 <=> i = l) /\ i + 1 # k /\ j - 1 = i
      BY <1>7, <1>9, <3>1
    <3>3. i # l => s[i + 1] = c[j + 1]
      <4>1. SUFFICES ASSUME i # l PROVE s[i + 1] = c[j + 1]
        OBVIOUS
      <4>2. i + 1 \in 1..l /\ i + 1 >= k /\ j + 1 = (i + 1) + 1
        BY <1>7, <3>1, <4>1
      <4> QED
        BY <1>9, <4>2
    <3>4. q[s[i]].next = IF i = l THEN None ELSE s[i + 1]
      BY <1>10, <3>2
    <3>5. q[s[i]].prev = c[i]
      <4>1. CASE i = k
        BY <1>5, <1>11, <4>1
      <4>2. CASE i # k
        <5>1. i # 1 /\ k # l + 1 /\ i - 1 \in 1..l /\ i - 1 >= k /\ (i - 1) + 1 = i
          BY <1>7, <3>1, <4>2
        <5>2. c[i] = s[i - 1]
          BY <1>9, <5>1
        <5> QED
          BY <1>11, <4>2, <5>1, <5>2
      <4> QED
        BY <4>1, <4>2
    <3> QED
      BY <3>2, <3>3, <3>4, <3>5
  <2> QED
    BY <1>7, <2>1, <2>2, <2>3
<1>16. Len(c) = l + 1 /\ 1 \in 1..(l + 1)
  BY <1>5, <1>6
<1>17. Ring(q, c)
  BY <1>14, <1>15, <1>16 DEF Ring
<1> QED
  BY <1>3, <1>4, <1>14, <1>16, <1>17
\* n is in the list then.
PlaceDone(m, L, s, k, n, q) ==
  /\ Repr(q, (L \ {s, <<n>>}) \cup {Grow(s, k, n)}) /\ Live(q) = Live(m)
  /\ \A y \in Live(m) : /\ q[y].parent = IF y = n THEN m[s[1]].parent ELSE m[y].parent
                        /\ q[y].leafref = m[y].leafref /\ q[y].val = m[y].val
LEMMA PlaceRepr ==
  ASSUME NEW m, NEW L, Repr(m, L), NEW s \in L, NEW n \in Live(m), <<n>> \in L, s # <<n>>, m[n].parent = None,
         (KindOf[n] = "c") <=> (KindOf[s[1]] = "c"), NEW k \in 1..(Len(s) + 1), NEW q, PlacePut(m, s, k, n, q)
  PROVE  PlaceDone(m, L, s, k, n, q)
<1>1. /\ s \in Seq(Nodes) /\ Len(s) \in Nat /\ Len(s) > 0 /\ 1 \in 1..Len(s) /\ Len(s) \in 1..Len(s)
      /\ \A i \in 1..Len(s) : s[i] \in Nodes /\ s[i] \in Live(m) /\ s[i] # None
      /\ \A i, j \in 1..Len(s) : s[i] = s[j] => i = j
  BY ReprList DEF Repr
<1>2. n \in Nodes /\ m \in Mem /\ n # None
  BY NodeFields DEF Repr
<1>3. PICK c : c = Grow(s, k, n)
  OBVIOUS
<1>4. Ring(q, c) /\ q[c[1]].parent = m[s[1]].parent /\ \A j \in 1..Len(s) : s[j] # n
  BY <1>3, PlaceRing
<1>5. /\ c \in Seq(Nodes) /\ Len(c) = Len(s) + 1
      /\ c[k] = n
      /\ \A j \in 1..Len(s) : j < k => c[j] = s[j]
      /\ \A j \in 1..Len(s) : j >= k => c[j + 1] = s[j]
      /\ \A j \in 1..(Len(s) + 1) : \/ j = k
                                    \/ j \in 1..Len(s) /\ j < k
                                    \/ \E i \in 1..Len(s) : i >= k /\ j = i + 1
  BY <1>1, <1>2, <1>3, GrowFacts
<1>6. PICK l \in Nat : l = Len(s)
  BY <1>1
<1>7. k \in 1..(l + 1) /\ l > 0
  BY <1>1, <1>6
<1>8. PICK t : t = <<n>>
  OBVIOUS
<1>9. t \in L /\ t # s /\ Len(t) = 1 /\ t[1] = n
  BY <1>2, <1>8, Single
<1>10. c # << >> /\ 1 \in 1..Len(c)
  BY <1>1, <1>5, ListFacts
<1>11. \A i, j \in 1..Len(c) : c[i] = c[j] => i = j
  <2>1. SUFFICES ASSUME NEW i \in 1..(l + 1), NEW j \in 1..(l + 1), c[i] = c[j] PROVE i = j
    BY <1>5, <1>6
  <2>2. ASSUME NEW x \in 1..(l + 1), x # k
        PROVE  \E y \in 1..l : c[x] = s[y] /\ (x < k => x = y) /\ (~(x < k) => x = y + 1)
    <3>1. CASE x < k
      BY <1>5, <1>6, <1>7, <2>2, <3>1
    <3>2. CASE ~(x < k)
      <4>1. PICK y \in 1..l : y >= k /\ x = y + 1
        BY <1>5, <1>6, <2>2, <3>2
      <4>2. c[x] = s[y]
        BY <1>5, <1>6, <4>1
      <4> QED
        BY <3>2, <4>1, <4>2
    <3> QED
      BY <3>1, <3>2
  <2>3. CASE i = k
    <3>1. SUFFICES ASSUME j # k PROVE FALSE
      BY <2>3
    <3>2. PICK y \in 1..l : c[j] = s[y]
      BY <2>2, <3>1
    <3> QED
      BY <1>4, <1>5, <1>6, <2>1, <2>3, <3>2
  <2>4. CASE j = k
    <3>1. SUFFICES ASSUME i # k PROVE FALSE
      BY <2>4
    <3>2. PICK y \in 1..l : c[i] = s[y]
      BY <2>2, <3>1
    <3> QED
      BY <1>4, <1>5, <1>6, <2>1, <2>4, <3>2
  <2>5. CASE i # k /\ j # k
    <3>1. PICK y \in 1..l : c[i] = s[y] /\ (i < k => i = y) /\ (~(i < k) => i = y + 1)
      BY <2>2, <2>5
    <3>2. PICK z \in 1..l : c[j] = s[z] /\ (j < k => j = z) /\ (~(j < k) => j = z + 1)
      BY <2>2, <2>5
    <3>3. y = z
      BY <1>1, <1>6, <2>1, <3>1, <3>2, Zenon
    <3> QED
      BY <1>7, <2>5, <3>1, <3>2, <3>3
  <2> QED
    BY <2>3, <2>4, <2>5
<1>12. Apart({c})
  BY <1>11 DEF Apart
<1>13. \A j \in 1..Len(c) : c[j] = n \/ \E i \in 1..Len(s) : c[j] = s[i]
  BY <1>5
<1>14. \A u \in L \ {s, t} : \A i \in 1..Len(u) : u[i] \in Live(m) /\ u[i] # n /\ \A j \in 1..Len(s) : u[i] # s[j]
  <2>1. SUFFICES ASSUME NEW u \in L \ {s, t}, NEW i \in 1..Len(u)
                 PROVE  u[i] \in Live(m) /\ u[i] # n /\ \A j \in 1..Len(s) : u[i] # s[j]
    OBVIOUS
  <2>2. 1 \in 1..Len(t)
    BY <1>9
  <2>3. u[i] # n
    BY <1>9, <2>2 DEF Repr, Apart
  <2>4. \A j \in 1..Len(s) : u[i] # s[j]
    BY DEF Repr, Apart
  <2>5. u[i] \in Live(m)
    BY ReprList
  <2> QED
    BY <2>3, <2>4, <2>5
<1>15. Live(q) = Live(m) /\ q \in Mem
  BY DEF PlacePut
<1>16. k # 1 => k - 1 \in 1..Len(s)
  BY <1>6, <1>7
<1>17. (IF k = Len(s) + 1 THEN 1 ELSE k) \in 1..Len(s)
  BY <1>6, <1>7
<1>18. ASSUME NEW u \in L \ {s, t} PROVE Untouched(m, q, u)
  <2>1. SUFFICES ASSUME NEW i \in 1..Len(u)
                 PROVE  /\ u[i] \in Live(q) /\ q[u[i]].next = m[u[i]].next
                        /\ q[u[i]].prev = m[u[i]].prev /\ q[u[i]].parent = m[u[i]].parent
    BY DEF Untouched
  <2>2. u[i] \in Live(m) /\ u[i] # n /\ \A j \in 1..Len(s) : u[i] # s[j]
    BY <1>14
  <2>3. q[u[i]].next = m[u[i]].next
    BY <1>16, <2>2 DEF PlacePut
  <2>4. q[u[i]].prev = m[u[i]].prev
    <3>1. PICK o : o = IF k = Len(s) + 1 THEN 1 ELSE k
      OBVIOUS
    <3>2. o \in 1..Len(s)
      BY <1>17, <3>1
    <3>3. q[u[i]].prev = IF u[i] = s[o] THEN n ELSE m[u[i]].prev
      BY <2>2, <3>1 DEF PlacePut
    <3> QED
      BY <2>2, <3>2, <3>3
  <2>5. q[u[i]].parent = m[u[i]].parent
    BY <2>2 DEF PlacePut
  <2> QED
    BY <1>15, <2>2, <2>3, <2>4, <2>5
<1>19. k # 1 => c[1] = s[1]
  <2>1. k # 1 => 1 < k
    BY <1>7
  <2> QED
    BY <1>1, <1>5, <2>1
<1>20. m[s[1]].parent # None => /\ m[s[1]].parent \in Live(m) /\ m[m[s[1]].parent].child = s[1]
                                /\ KindOf[m[s[1]].parent] = "c" /\ KindOf[s[1]] # "c"
  BY DEF Repr, OwnList
<1>21. OwnList(q, c)
  <2>1. SUFFICES ASSUME m[s[1]].parent # None
                 PROVE  /\ m[s[1]].parent \in Live(q) /\ q[m[s[1]].parent].child = c[1]
                        /\ KindOf[m[s[1]].parent] = "c" /\ KindOf[c[1]] # "c"
    BY <1>4 DEF OwnList
  <2>2. KindOf[c[1]] # "c"
    BY <1>5, <1>7, <1>19, <1>20, <2>1
  <2>3. q[m[s[1]].parent].child = c[1]
    BY <1>5, <1>19, <1>20, <2>1 DEF PlacePut
  <2> QED
    BY <1>15, <1>20, <2>1, <2>2, <2>3
<1>22. ASSUME NEW u \in L \ {s, t} PROVE OwnList(q, u)
  <2>1. 1 \in 1..Len(u) /\ OwnList(m, u)
    BY ReprList DEF Repr
  <2>2. q[u[1]].parent = m[u[1]].parent
    BY <1>18, <2>1 DEF Untouched
  <2>3. SUFFICES ASSUME m[u[1]].parent # None PROVE q[m[u[1]].parent].child = m[m[u[1]].parent].child
    BY <1>15, <2>1, <2>2 DEF OwnList
  <2>4. m[u[1]].parent # m[s[1]].parent
    BY <2>3, OneList
  <2>5. m[u[1]].parent \in Live(m)
    BY <2>1, <2>3 DEF OwnList
  <2> QED
    BY <2>4, <2>5 DEF PlacePut
<1> DEFINE M == (L \ {s, t}) \cup {c}
<1>23. Cover(q, M)
  <2>1. SUFFICES ASSUME NEW x \in Live(m) PROVE \E u \in M : \E i \in 1..Len(u) : u[i] = x
    BY <1>15 DEF Cover
  <2>2. PICK u \in L : \E i \in 1..Len(u) : u[i] = x
    BY ListOf
  <2>3. PICK i \in 1..Len(u) : u[i] = x
    BY <2>2
  <2>4. CASE u = s
    <3>1. i < k => i \in 1..Len(c) /\ c[i] = x
      BY <1>1, <1>5, <2>3, <2>4
    <3>2. i >= k => i + 1 \in 1..Len(c) /\ c[i + 1] = x
      BY <1>1, <1>5, <2>3, <2>4
    <3>3. i < k \/ i >= k
      BY <1>6, <1>7, <2>4
    <3>4. \E j \in 1..Len(c) : c[j] = x
      BY <3>1, <3>2, <3>3
    <3> QED
      BY <3>4
  <2>5. CASE u = t
    <3>a. Len(u) = 1 /\ i \in 1..Len(u) /\ u[i] = x
      BY <1>9, <2>3, <2>5
    <3>b. i = 1
      BY <3>a
    <3>1. k \in 1..Len(c) /\ c[k] = x
      BY <1>5, <1>9, <2>5, <3>a, <3>b
    <3> QED
      BY <3>1
  <2>6. CASE u # s /\ u # t
    BY <2>3, <2>6
  <2> QED
    BY <2>4, <2>5, <2>6
<1>24. ASSUME NEW x \in Live(q) PROVE OwnChild(q, M, x)
  <2>1. x \in Live(m) /\ OwnChild(m, L, x) /\ x # None
    BY <1>2, <1>15, NodeFields DEF Repr
  <2>2. CASE x = m[s[1]].parent
    <3>1. m[x].child = s[1]
      BY <1>20, <2>1, <2>2
    <3>2. q[x].child = c[1]
      BY <1>5, <1>19, <2>1, <2>2, <3>1 DEF PlacePut
    <3> QED
      BY <1>4, <2>2, <3>2 DEF OwnChild
  <2>3. CASE x # m[s[1]].parent
    <3>1. q[x].child = m[x].child
      BY <2>1, <2>3 DEF PlacePut
    <3>2. SUFFICES ASSUME m[x].child # None PROVE \E u \in M : u[1] = m[x].child /\ q[u[1]].parent = x
      BY <3>1 DEF OwnChild
    <3>3. PICK u \in L : u[1] = m[x].child /\ m[u[1]].parent = x
      BY <2>1, <3>2 DEF OwnChild
    <3>4. u # s /\ u # t /\ 1 \in 1..Len(u)
      BY <1>9, <2>1, <2>3, <3>3, ReprList
    <3>5. q[u[1]].parent = x
      BY <1>18, <3>3, <3>4 DEF Untouched
    <3> QED
      BY <3>3, <3>4, <3>5
  <2> QED
    BY <2>2, <2>3
<1>25. Repr(q, M)
  <2>1. \A b \in {c} : b \in Seq(Nodes) /\ b # << >> /\ Ring(q, b) /\ OwnList(q, b)
    BY <1>4, <1>5, <1>10, <1>21
  <2>2. \A u \in L \ {s, t}, b \in {c} : \A i \in 1..Len(u), j \in 1..Len(b) : u[i] # b[j]
    BY <1>13, <1>14
  <2> QED
    BY <1>12, <1>15, <1>18, <1>22, <1>23, <1>24, <2>1, <2>2, Relink
<1>26. \A y \in Live(m) : /\ q[y].parent = IF y = n THEN m[s[1]].parent ELSE m[y].parent
                          /\ q[y].leafref = m[y].leafref /\ q[y].val = m[y].val
  BY DEF PlacePut
<1> QED
  BY <1>3, <1>8, <1>15, <1>25, <1>26 DEF PlaceDone
\* Assignments to next and to child, as relations between the memories.
NextPut(m, x, v, q) ==
  /\ q \in Mem /\ Live(q) = Live(m)
  /\ \A y \in Live(m) : q[y].next = IF y = x THEN v ELSE m[y].next
  /\ KeepParent(m, q) /\ KeepChild(m, q) /\ KeepPrev(m, q) /\ KeepData(m, q)
LEMMA NextAt ==
  ASSUME NEW m \in Mem, NEW x \in Live(m), NEW v \in Link
  PROVE  NextPut(m, x, v, PutNext(m, x, v))
BY SetNext DEF NextPut

\* The same of child.
ChildPut(m, x, v, q) ==
  /\ q \in Mem /\ Live(q) = Live(m)
  /\ \A y \in Live(m) : q[y].child = IF y = x THEN v ELSE m[y].child
  /\ KeepParent(m, q) /\ KeepNext(m, q) /\ KeepPrev(m, q) /\ KeepData(m, q)
LEMMA ChildAt ==
  ASSUME NEW m \in Mem, NEW x \in Live(m), NEW v \in Link
  PROVE  ChildPut(m, x, v, PutChild(m, x, v))
BY SetChild DEF ChildPut

\* PutFamily changes the parent of the node and its flag, and nothing else.
FamilyPut(m, p, n, q) ==
  /\ q \in Mem /\ Live(q) = Live(m)
  /\ \A y \in Live(m) : /\ q[y].parent = IF y = n THEN p ELSE m[y].parent
                        /\ q[y].leafref = m[y].leafref /\ q[y].val = m[y].val
  /\ KeepChild(m, q) /\ KeepNext(m, q) /\ KeepPrev(m, q)
LEMMA FamilyAt ==
  ASSUME NEW m \in Mem, NEW n \in Live(m), NEW sib \in Live(m), NEW inv \in BOOLEAN
  PROVE  FamilyPut(m, m[sib].parent, n, PutFamily(m, sib, n, inv))
<1>1. PICK p \in Link : p = m[sib].parent
  BY NodeFields
<1>2. PICK q : q = PutFamily(m, sib, n, inv)
  OBVIOUS
<1>3. n \in Nodes /\ m[n] \in Node
  BY NodeFields
<1>4. m = [x \in Nodes |-> m[x]]
  BY DEF Mem
<1>5. q = Mark(m, {n}, p, inv)
  <2>1. CASE inv
    BY <1>1, <1>2, <1>3, <1>4, <2>1 DEF PutFamily, Mark
  <2>2. CASE ~inv
    BY <1>1, <1>2, <1>3, <1>4, <2>2 DEF PutFamily, Mark
  <2> QED
    BY <2>1, <2>2
<1>6. PICK R : R = {n}
  OBVIOUS
<1>7. R \subseteq Live(m) /\ q = Mark(m, R, p, inv)
  BY <1>5, <1>6
<1>8. /\ q \in Mem /\ Live(q) = Live(m)
      /\ \A y \in Live(m) : /\ q[y].parent = IF y \in R THEN p ELSE m[y].parent
                            /\ q[y].leafref = m[y].leafref /\ q[y].val = m[y].val
      /\ KeepChild(m, q) /\ KeepNext(m, q) /\ KeepPrev(m, q)
  BY <1>7, MarkFacts
<1> QED
  BY <1>1, <1>2, <1>6, <1>8 DEF FamilyPut

\* The calls as a whole.
LEMMA SiblingParts ==
  ASSUME NEW m, NEW sib, NEW n, NEW before, NEW u, NEW a,
         u = IF m[n].parent # None \/ m[n].next # None \/ m[m[n].prev].next # None THEN Unlinked(m, n) ELSE m,
         a = PutFamily(u, sib, n, SiblingInvalid(m, sib, n))
  PROVE  InsertedSibling(m, sib, n, before) = IF before THEN PutBefore(a, sib, n) ELSE PutAfter(a, sib, n)
BY DEF InsertedSibling

\* A node that stands alone, and one of a list that it is put next to.
Beside(m, L, s, i, n) ==
  /\ Repr(m, L) /\ s \in L /\ i \in 1..Len(s) /\ n \in Live(m) /\ <<n>> \in L /\ s # <<n>>
  /\ m[n].parent = None
LEMMA BesideFacts ==
  ASSUME NEW m, NEW L, NEW s, NEW i, NEW n, Beside(m, L, s, i, n)
  PROVE  /\ s \in Seq(Nodes) /\ Len(s) \in Nat /\ Len(s) > 0 /\ 1 \in 1..Len(s) /\ Len(s) \in 1..Len(s)
         /\ \A j \in 1..Len(s) : s[j] \in Nodes /\ s[j] \in Live(m) /\ s[j] # None /\ s[j] \in Link /\ s[j] # n
         /\ \A j, k \in 1..Len(s) : s[j] = s[k] => j = k
         /\ \A j \in 1..Len(s) : m[s[j]].next = IF j = Len(s) THEN None ELSE s[j + 1]
         /\ \A j \in 1..Len(s) : m[s[j]].prev = IF j = 1 THEN s[Len(s)] ELSE s[j - 1]
         /\ \A j \in 1..Len(s) : m[s[j]].parent = m[s[1]].parent
         /\ m[n].next = None /\ n \in Nodes /\ n \in Link /\ m \in Mem
         /\ m[s[1]].parent # None => m[s[1]].parent \in Live(m) /\ m[m[s[1]].parent].child = s[1]
<1>1. /\ s \in Seq(Nodes) /\ Len(s) \in Nat /\ Len(s) > 0 /\ 1 \in 1..Len(s) /\ Len(s) \in 1..Len(s)
      /\ \A j \in 1..Len(s) : s[j] \in Nodes /\ s[j] \in Live(m) /\ s[j] # None
      /\ \A j, k \in 1..Len(s) : s[j] = s[k] => j = k
  BY ReprList DEF Beside
<1>2. n \in Nodes /\ m \in Mem
  BY NodeFields DEF Beside, Repr
<1>3. Len(<<n>>) = 1 /\ <<n>>[1] = n /\ 1 \in 1..Len(<<n>>)
  BY <1>2, Single
<1>4. \A j \in 1..Len(s) : s[j] # n
  BY <1>3 DEF Beside, Repr, Apart
<1>5. Ring(m, s) /\ Ring(m, <<n>>) /\ OwnList(m, s)
  BY DEF Beside, Repr
<1>6. m[n].next = None
  BY <1>3, <1>5 DEF Ring
<1>7. m[s[1]].parent # None => m[s[1]].parent \in Live(m) /\ m[m[s[1]].parent].child = s[1]
  BY <1>5 DEF OwnList
<1>8. /\ \A j \in 1..Len(s) : m[s[j]].next = IF j = Len(s) THEN None ELSE s[j + 1]
      /\ \A j \in 1..Len(s) : m[s[j]].prev = IF j = 1 THEN s[Len(s)] ELSE s[j - 1]
      /\ \A j \in 1..Len(s) : m[s[j]].parent = m[s[1]].parent
  BY <1>5 DEF Ring
<1>9. n \in Link /\ \A j \in 1..Len(s) : s[j] \in Link
  BY <1>1, <1>2 DEF Link
<1> QED
  BY <1>1, <1>2, <1>4, <1>6, <1>7, <1>8, <1>9
\* lyd_insert_before puts n at the position of its sibling.
LEMMA BeforePlace ==
  ASSUME NEW m, NEW L, NEW s, NEW i, NEW n, Beside(m, L, s, i, n),
         NEW a, FamilyPut(m, m[s[i]].parent, n, a)
  PROVE  PlacePut(m, s, i, n, PutBefore(a, s[i], n))
<1>1. /\ s \in Seq(Nodes) /\ Len(s) \in Nat /\ Len(s) > 0 /\ 1 \in 1..Len(s) /\ Len(s) \in 1..Len(s)
      /\ \A j \in 1..Len(s) : s[j] \in Nodes /\ s[j] \in Live(m) /\ s[j] # None /\ s[j] \in Link /\ s[j] # n
      /\ \A j, k \in 1..Len(s) : s[j] = s[k] => j = k
      /\ \A j \in 1..Len(s) : m[s[j]].next = IF j = Len(s) THEN None ELSE s[j + 1]
      /\ \A j \in 1..Len(s) : m[s[j]].prev = IF j = 1 THEN s[Len(s)] ELSE s[j - 1]
      /\ \A j \in 1..Len(s) : m[s[j]].parent = m[s[1]].parent
      /\ m[n].next = None /\ n \in Nodes /\ n \in Link /\ m \in Mem
      /\ m[s[1]].parent # None => m[s[1]].parent \in Live(m) /\ m[m[s[1]].parent].child = s[1]
  BY BesideFacts
<1>2. i \in 1..Len(s) /\ n \in Live(m)
  BY DEF Beside
<1>3. PICK sib : sib = s[i]
  OBVIOUS
<1>4. PICK p : p = m[s[1]].parent
  OBVIOUS
<1>5. PICK e : e = IF i = 1 THEN s[Len(s)] ELSE s[i - 1]
  OBVIOUS
<1>6. /\ sib \in Live(m) /\ sib \in Nodes /\ sib # n /\ sib \in Link /\ sib # None
      /\ m[sib].parent = p /\ m[sib].prev = e
  BY <1>1, <1>2, <1>3, <1>4, <1>5
<1>7. i # 1 => i - 1 \in 1..Len(s) /\ i - 1 # Len(s) /\ (i - 1) + 1 = i
  BY <1>1, <1>2
<1>8. e \in Live(m) /\ e \in Nodes /\ e # n
  BY <1>1, <1>5, <1>7
<1>9. /\ a \in Mem /\ Live(a) = Live(m)
      /\ \A y \in Live(m) : /\ a[y].parent = IF y = n THEN p ELSE m[y].parent
                            /\ a[y].leafref = m[y].leafref /\ a[y].val = m[y].val
                            /\ a[y].child = m[y].child /\ a[y].next = m[y].next /\ a[y].prev = m[y].prev
  BY <1>3, <1>6 DEF FamilyPut, KeepChild, KeepNext, KeepPrev
<1>10. m[e].next = IF i = 1 THEN None ELSE sib
  BY <1>1, <1>3, <1>5, <1>7
<1>11. a[sib].prev = e /\ a[sib].parent = p /\ a[e].next = m[e].next
  BY <1>6, <1>8, <1>9
\* The first assignment, in each of its cases.
<1> DEFINE First(b) ==
             /\ b \in Mem /\ Live(b) = Live(m)
             /\ \A y \in Live(m) : /\ b[y].parent = a[y].parent /\ b[y].prev = a[y].prev
                                   /\ b[y].child = IF i = 1 /\ y = p THEN n ELSE a[y].child
                                   /\ b[y].next = IF i # 1 /\ y = e THEN n ELSE a[y].next
                                   /\ b[y].leafref = a[y].leafref /\ b[y].val = a[y].val
<1>12. PICK b : b = IF a[e].next # None THEN PutNext(a, e, n) ELSE IF p # None THEN PutChild(a, p, n) ELSE a
  OBVIOUS
<1>13. First(b)
  <2>1. CASE i # 1
    <3>1. b = PutNext(a, e, n) /\ e \in Live(a)
      BY <1>6, <1>8, <1>9, <1>10, <1>11, <1>12, <2>1
    <3>2. NextPut(a, e, n, b)
      BY <1>1, <1>9, <3>1, NextAt
    <3> QED
      BY <1>9, <2>1, <3>2 DEF NextPut, KeepParent, KeepChild, KeepPrev, KeepData
  <2>2. CASE i = 1 /\ p # None
    <3>1. b = PutChild(a, p, n) /\ p \in Live(a)
      BY <1>1, <1>4, <1>9, <1>10, <1>11, <1>12, <2>2
    <3>2. ChildPut(a, p, n, b)
      BY <1>1, <1>9, <3>1, ChildAt
    <3> QED
      BY <1>9, <2>2, <3>2 DEF ChildPut, KeepParent, KeepNext, KeepPrev, KeepData
  <2>3. CASE i = 1 /\ p = None
    <3>1. b = a
      BY <1>10, <1>11, <1>12, <2>3
    <3>2. \A y \in Live(m) : y # p
      BY <1>1, <2>3, NodeFields
    <3> QED
      BY <1>9, <2>3, <3>1, <3>2
  <2> QED
    BY <2>1, <2>2, <2>3
<1>14. PICK c : c = PutPrev(b, n, e)
  OBVIOUS
<1>15. PICK g : g = PutPrev(c, sib, n)
  OBVIOUS
<1>16. PICK q : q = PutNext(g, n, sib)
  OBVIOUS
<1>17. PutBefore(a, sib, n) = q
  <2>1. PutBefore(a, sib, n) = [b EXCEPT ![n].prev = e, ![sib].prev = n, ![n].next = sib]
    BY <1>11, <1>12 DEF PutBefore, PutNext, PutChild
  <2> QED
    BY <1>14, <1>15, <1>16, <2>1 DEF PutPrev, PutNext
<1>18. b \in Mem /\ n \in Live(b) /\ Live(b) = Live(m)
  BY <1>2, <1>13
<1>19. PrevPut(b, n, e, c)
  BY <1>8, <1>14, <1>18, PrevAt
<1>20. c \in Mem /\ sib \in Live(c) /\ Live(c) = Live(m)
  BY <1>6, <1>18, <1>19 DEF PrevPut
<1>21. PrevPut(c, sib, n, g)
  BY <1>1, <1>15, <1>20, PrevAt
<1>22. g \in Mem /\ n \in Live(g) /\ Live(g) = Live(m)
  BY <1>2, <1>20, <1>21 DEF PrevPut
<1>23. NextPut(g, n, sib, q)
  BY <1>6, <1>16, <1>22, NextAt
<1>24. q \in Mem /\ Live(q) = Live(m)
  BY <1>22, <1>23 DEF NextPut
<1>25. \A y \in Live(m) : q[y].parent = b[y].parent /\ q[y].child = b[y].child
  BY <1>18, <1>19, <1>20, <1>21, <1>22, <1>23 DEF NextPut, PrevPut, KeepParent, KeepChild
<1>26. \A y \in Live(m) : q[y].leafref = b[y].leafref /\ q[y].val = b[y].val
  BY <1>18, <1>19, <1>20, <1>21, <1>22, <1>23 DEF NextPut, PrevPut, KeepData
<1>27. \A y \in Live(m) : q[y].next = IF y = n THEN sib ELSE b[y].next
  BY <1>18, <1>19, <1>20, <1>21, <1>22, <1>23 DEF NextPut, PrevPut, KeepNext
<1>28. \A y \in Live(m) : q[y].prev = IF y = sib THEN n ELSE IF y = n THEN e ELSE b[y].prev
  BY <1>18, <1>19, <1>20, <1>21, <1>22, <1>23 DEF NextPut, PrevPut, KeepPrev
<1>29. i # Len(s) + 1
  BY <1>1, <1>2
<1>30. ASSUME NEW y \in Live(m)
       PROVE  /\ q[y].parent = IF y = n THEN p ELSE m[y].parent
              /\ q[y].child = IF i = 1 /\ y = p THEN n ELSE m[y].child
              /\ y = n => q[y].next = sib
              /\ y # n => q[y].next = IF i # 1 /\ y = s[i - 1] THEN n ELSE m[y].next
              /\ y = n => q[y].prev = e
              /\ y # n => q[y].prev = IF y = sib THEN n ELSE m[y].prev
              /\ q[y].leafref = m[y].leafref /\ q[y].val = m[y].val
  <2>1. i # 1 => e = s[i - 1]
    BY <1>5
  <2>2. q[y].next = IF y = n THEN sib ELSE IF i # 1 /\ y = e THEN n ELSE m[y].next
    BY <1>9, <1>13, <1>27
  <2>3. q[y].prev = IF y = sib THEN n ELSE IF y = n THEN e ELSE m[y].prev
    BY <1>9, <1>13, <1>28
  <2>4. q[y].parent = IF y = n THEN p ELSE m[y].parent
    BY <1>9, <1>13, <1>25
  <2>5. q[y].child = IF i = 1 /\ y = p THEN n ELSE m[y].child
    BY <1>9, <1>13, <1>25
  <2>6. q[y].leafref = m[y].leafref /\ q[y].val = m[y].val
    BY <1>9, <1>13, <1>26
  <2> QED
    BY <1>6, <2>1, <2>2, <2>3, <2>4, <2>5, <2>6
<1> HIDE DEF First
<1>31. PlacePut(m, s, i, n, q)
  BY <1>3, <1>4, <1>5, <1>24, <1>29, <1>30 DEF PlacePut
<1> QED
  BY <1>3, <1>17, <1>31

\* lyd_insert_after puts n behind it.
LEMMA AfterPlace ==
  ASSUME NEW m, NEW L, NEW s, NEW i, NEW n, Beside(m, L, s, i, n),
         NEW a, FamilyPut(m, m[s[i]].parent, n, a)
  PROVE  PlacePut(m, s, i + 1, n, PutAfter(a, s[i], n))
<1>1. /\ s \in Seq(Nodes) /\ Len(s) \in Nat /\ Len(s) > 0 /\ 1 \in 1..Len(s) /\ Len(s) \in 1..Len(s)
      /\ \A j \in 1..Len(s) : s[j] \in Nodes /\ s[j] \in Live(m) /\ s[j] # None /\ s[j] \in Link /\ s[j] # n
      /\ \A j, k \in 1..Len(s) : s[j] = s[k] => j = k
      /\ \A j \in 1..Len(s) : m[s[j]].next = IF j = Len(s) THEN None ELSE s[j + 1]
      /\ \A j \in 1..Len(s) : m[s[j]].prev = IF j = 1 THEN s[Len(s)] ELSE s[j - 1]
      /\ \A j \in 1..Len(s) : m[s[j]].parent = m[s[1]].parent
      /\ m[n].next = None /\ n \in Nodes /\ n \in Link /\ m \in Mem
      /\ m[s[1]].parent # None => m[s[1]].parent \in Live(m) /\ m[m[s[1]].parent].child = s[1]
  BY BesideFacts
<1>2. i \in 1..Len(s) /\ n \in Live(m) /\ Repr(m, L) /\ s \in L /\ m[n].parent = None
  BY DEF Beside
<1>3. PICK sib : sib = s[i]
  OBVIOUS
<1>4. PICK p : p = m[s[1]].parent
  OBVIOUS
<1>5. PICK f : f = IF i = Len(s) THEN s[1] ELSE s[i + 1]
  OBVIOUS
<1>6. /\ sib \in Live(m) /\ sib \in Nodes /\ sib # n /\ sib \in Link /\ sib # None
      /\ m[sib].parent = p /\ m[sib].next = IF i = Len(s) THEN None ELSE s[i + 1]
  BY <1>1, <1>2, <1>3, <1>4
<1>7. i # Len(s) => i + 1 \in 1..Len(s)
  BY <1>1, <1>2
<1>8. f \in Live(m) /\ f \in Nodes /\ f # n /\ f # None /\ f \in Link
  BY <1>1, <1>5, <1>7
<1>9. /\ a \in Mem /\ Live(a) = Live(m)
      /\ \A y \in Live(m) : /\ a[y].parent = IF y = n THEN p ELSE m[y].parent
                            /\ a[y].leafref = m[y].leafref /\ a[y].val = m[y].val
                            /\ a[y].child = m[y].child /\ a[y].next = m[y].next /\ a[y].prev = m[y].prev
  BY <1>3, <1>6 DEF FamilyPut, KeepChild, KeepNext, KeepPrev
<1>10. a[sib].parent = p /\ a[sib].next = m[sib].next
  BY <1>6, <1>9
<1> DEFINE First(b) ==
             /\ b \in Mem /\ Live(b) = Live(m)
             /\ \A y \in Live(m) : /\ b[y].parent = a[y].parent /\ b[y].child = a[y].child
                                   /\ b[y].next = IF i # Len(s) /\ y = n THEN f ELSE a[y].next
                                   /\ b[y].prev = IF y = f THEN n ELSE a[y].prev
                                   /\ b[y].leafref = a[y].leafref /\ b[y].val = a[y].val
<1>11. PICK b : b = IF a[sib].next # None THEN PutPrev(PutNext(a, n, a[sib].next), a[sib].next, n)
                    ELSE IF p # None THEN PutPrev(a, a[p].child, n)
                    ELSE PutPrev(a, FirstSibling(a, sib), n)
  OBVIOUS
<1>12. First(b)
  <2>1. CASE i # Len(s)
    <3>1. a[sib].next = f
      BY <1>5, <1>6, <1>10, <2>1
    <3>2. PICK c : c = PutNext(a, n, f)
      OBVIOUS
    <3>3. b = PutPrev(c, f, n)
      BY <1>8, <1>11, <3>1, <3>2
    <3>4. NextPut(a, n, f, c)
      BY <1>2, <1>8, <1>9, <3>2, NextAt
    <3>5. c \in Mem /\ f \in Live(c) /\ Live(c) = Live(m)
      BY <1>8, <1>9, <3>4 DEF NextPut
    <3>6. PrevPut(c, f, n, b)
      BY <1>1, <3>3, <3>5, PrevAt
    <3> QED
      BY <1>9, <2>1, <3>4, <3>5, <3>6 DEF NextPut, PrevPut, KeepParent, KeepChild, KeepNext, KeepPrev, KeepData
  <2>2. CASE i = Len(s)
    <3>1. b = PutPrev(a, f, n)
      <4>1. a[sib].next = None /\ f = s[1]
        BY <1>5, <1>6, <1>10, <2>2
      <4>2. p # None => a[p].child = s[1]
        BY <1>1, <1>4, <1>9
      <4>3. p = None => FirstSibling(a, sib) = s[1]
        <5>1. SUFFICES ASSUME p = None PROVE FirstSibling(a, sib) = s[1]
          OBVIOUS
        <5>2. SameLinks(m, a)
          BY <1>2, <1>9, <5>1 DEF SameLinks
        <5>3. Repr(a, L)
          BY <1>2, <5>2, SameLinksRepr
        <5> QED
          BY <1>2, <1>3, <5>3, FirstOfList
      <4> QED
        BY <1>11, <4>1, <4>2, <4>3
    <3>2. f \in Live(a)
      BY <1>8, <1>9
    <3>3. PrevPut(a, f, n, b)
      BY <1>1, <1>9, <3>1, <3>2, PrevAt
    <3> QED
      BY <1>9, <2>2, <3>3 DEF PrevPut, KeepParent, KeepChild, KeepNext, KeepPrev, KeepData
  <2> QED
    BY <2>1, <2>2
<1>13. PICK g : g = PutNext(b, sib, n)
  OBVIOUS
<1>14. PICK q : q = PutPrev(g, n, sib)
  OBVIOUS
<1>15. PutAfter(a, sib, n) = q
  <2>1. PutAfter(a, sib, n) = [b EXCEPT ![sib].next = n, ![n].prev = sib]
    BY <1>10, <1>11 DEF PutAfter, PutNext, PutPrev
  <2> QED
    BY <1>13, <1>14, <2>1 DEF PutPrev, PutNext
<1>16. b \in Mem /\ sib \in Live(b) /\ Live(b) = Live(m)
  BY <1>6, <1>12
<1>17. NextPut(b, sib, n, g)
  BY <1>1, <1>13, <1>16, NextAt
<1>18. g \in Mem /\ n \in Live(g) /\ Live(g) = Live(m)
  BY <1>2, <1>16, <1>17 DEF NextPut
<1>19. PrevPut(g, n, sib, q)
  BY <1>6, <1>14, <1>18, PrevAt
<1>20. q \in Mem /\ Live(q) = Live(m)
  BY <1>18, <1>19 DEF PrevPut
<1>21. \A y \in Live(m) : q[y].parent = b[y].parent /\ q[y].child = b[y].child
  BY <1>16, <1>17, <1>18, <1>19 DEF NextPut, PrevPut, KeepParent, KeepChild
<1>22. \A y \in Live(m) : q[y].leafref = b[y].leafref /\ q[y].val = b[y].val
  BY <1>16, <1>17, <1>18, <1>19 DEF NextPut, PrevPut, KeepData
<1>23. \A y \in Live(m) : q[y].next = IF y = sib THEN n ELSE b[y].next
  BY <1>16, <1>17, <1>18, <1>19 DEF NextPut, PrevPut, KeepNext
<1>24. \A y \in Live(m) : q[y].prev = IF y = n THEN sib ELSE b[y].prev
  BY <1>16, <1>17, <1>18, <1>19 DEF NextPut, PrevPut, KeepPrev
<1>25. /\ i + 1 # 1 /\ (i + 1) - 1 = i /\ (i + 1 = Len(s) + 1 <=> i = Len(s))
  BY <1>1, <1>2
<1>26. ASSUME NEW y \in Live(m)
       PROVE  /\ q[y].parent = IF y = n THEN p ELSE m[y].parent
              /\ q[y].child = m[y].child
              /\ y = n => q[y].next = IF i = Len(s) THEN None ELSE s[i + 1]
              /\ y # n => q[y].next = IF y = sib THEN n ELSE m[y].next
              /\ y = n => q[y].prev = sib
              /\ y # n => q[y].prev = IF y = f THEN n ELSE m[y].prev
              /\ q[y].leafref = m[y].leafref /\ q[y].val = m[y].val
  <2>1. q[y].next = IF y = sib THEN n ELSE IF i # Len(s) /\ y = n THEN f ELSE m[y].next
    BY <1>9, <1>12, <1>23
  <2>2. q[y].prev = IF y = n THEN sib ELSE IF y = f THEN n ELSE m[y].prev
    BY <1>9, <1>12, <1>24
  <2>3. q[y].parent = IF y = n THEN p ELSE m[y].parent
    BY <1>9, <1>12, <1>21
  <2>4. q[y].child = m[y].child
    BY <1>9, <1>12, <1>21
  <2>5. q[y].leafref = m[y].leafref /\ q[y].val = m[y].val
    BY <1>9, <1>12, <1>22
  <2> QED
    BY <1>1, <1>5, <1>6, <2>1, <2>2, <2>3, <2>4, <2>5
<1> HIDE DEF First
<1>27. PlacePut(m, s, i + 1, n, q)
  <2>1. s[IF i + 1 = Len(s) + 1 THEN 1 ELSE i + 1] = f
    BY <1>5, <1>25
  <2> QED
    BY <1>3, <1>4, <1>20, <1>25, <1>26, <2>1 DEF PlacePut
<1> QED
  BY <1>3, <1>15, <1>27
\* Before that the node is unlinked, unless it stands alone.
AloneDone(m, L, s, i, u) ==
  \/ UnlinkDone(m, L, s, i, u)
  \/ u = m /\ Len(s) = 1 /\ i = 1 /\ m[s[1]].parent = None /\ Repr(m, Parted(L, s, i))
LEMMA AloneRepr ==
  ASSUME NEW m, NEW L, Repr(m, L), NEW s \in L, NEW i \in 1..Len(s), NEW n, n = s[i], NEW u,
         u = IF m[n].parent # None \/ m[n].next # None \/ m[m[n].prev].next # None THEN Unlinked(m, n) ELSE m
  PROVE  /\ AloneDone(m, L, s, i, u)
         /\ Repr(u, Parted(L, s, i)) /\ Live(u) = Live(m) /\ n \in Live(m) /\ u[n].parent = None
<1>1. /\ s \in Seq(Nodes) /\ Len(s) \in Nat /\ Len(s) > 0 /\ 1 \in 1..Len(s) /\ Len(s) \in 1..Len(s)
      /\ \A j \in 1..Len(s) : s[j] \in Nodes /\ s[j] \in Live(m) /\ s[j] # None
  BY ReprList DEF Repr
<1>2. n \in Live(m)
  BY <1>1
<1>3. CASE m[n].parent # None \/ m[n].next # None \/ m[m[n].prev].next # None
  <2>1. UnlinkDone(m, L, s, i, u)
    BY <1>3, UnlinkRepr
  <2>2. Repr(u, Parted(L, s, i)) /\ Live(u) = Live(m) /\ u[n].parent = None
    BY <1>2, <2>1 DEF UnlinkDone, Parted
  <2> QED
    BY <1>2, <2>1, <2>2 DEF AloneDone
<1>4. CASE ~(m[n].parent # None \/ m[n].next # None \/ m[m[n].prev].next # None)
  <2>1. Ring(m, s)
    BY DEF Repr
  <2>2. i = Len(s)
    <3>1. SUFFICES ASSUME i # Len(s) PROVE FALSE
      OBVIOUS
    <3>2. m[n].next = s[i + 1]
      BY <2>1, <3>1 DEF Ring
    <3>3. i + 1 \in 1..Len(s)
      BY <1>1, <3>1
    <3> QED
      BY <1>1, <1>4, <3>2, <3>3
  <2>3. i = 1
    <3>1. SUFFICES ASSUME i # 1 PROVE FALSE
      OBVIOUS
    <3>2. i - 1 \in 1..Len(s) /\ i - 1 # Len(s) /\ (i - 1) + 1 = i
      BY <1>1, <3>1
    <3>3. m[n].prev = s[i - 1]
      BY <2>1, <3>1 DEF Ring
    <3>4. m[s[i - 1]].next = s[(i - 1) + 1]
      BY <2>1, <3>2 DEF Ring
    <3> QED
      BY <1>1, <1>4, <3>2, <3>3, <3>4
  <2>4. s = <<n>>
    <3>1. Len(s) = 1 /\ s[1] = n
      BY <2>2, <2>3
    <3>2. s \in [1..1 -> Nodes]
      BY <1>1, <3>1, ListFacts
    <3>3. <<n>> \in Seq(Nodes) /\ Len(<<n>>) = 1 /\ <<n>>[1] = n
      BY <1>1, Single
    <3>4. <<n>> \in [1..1 -> Nodes]
      BY <3>3, ListFacts
    <3> QED
      BY <3>1, <3>2, <3>3, <3>4
  <2>5. Parted(L, s, i) = L
    BY <2>2, <2>3, <2>4 DEF Parted, Rest
  <2> QED
    BY <1>2, <1>4, <2>2, <2>3, <2>5 DEF AloneDone
<1> QED
  BY <1>3, <1>4

\* lyd_insert_before and lyd_insert_after: n is in the list of sib then.
SiblingDone(m, L, sib, n, before, q) ==
  \E s \in L : \E i \in 1..Len(s) : \E u :
    /\ s[i] = n /\ AloneDone(m, L, s, i, u) /\ Repr(u, Parted(L, s, i)) /\ Live(u) = Live(m)
    /\ \E t \in Parted(L, s, i) : \E j \in 1..Len(t) :
         /\ t[j] = sib /\ t # <<n>> /\ j \in Nat
         /\ PlaceDone(u, Parted(L, s, i), t, IF before THEN j ELSE j + 1, n, q)
LEMMA SiblingRepr ==
  ASSUME NEW m, NEW L, Repr(m, L), NEW n \in Live(m), NEW sib \in Live(m), sib # n,
         (KindOf[sib] = "c") <=> (KindOf[n] = "c"), NEW before \in BOOLEAN
  PROVE  SiblingDone(m, L, sib, n, before, InsertedSibling(m, sib, n, before))
<1>1. PICK s \in L : \E i \in 1..Len(s) : s[i] = n
  BY ListOf
<1>2. PICK i \in 1..Len(s) : s[i] = n
  BY <1>1
<1>3. PICK u : u = IF m[n].parent # None \/ m[n].next # None \/ m[m[n].prev].next # None THEN Unlinked(m, n) ELSE m
  OBVIOUS
<1>4. AloneDone(m, L, s, i, u) /\ Repr(u, Parted(L, s, i)) /\ Live(u) = Live(m) /\ u[n].parent = None
  BY <1>2, <1>3, AloneRepr
<1>5. PICK K : K = Parted(L, s, i)
  OBVIOUS
<1>6. Repr(u, K) /\ n \in Live(u) /\ sib \in Live(u) /\ <<n>> \in K /\ u \in Mem
  BY <1>2, <1>4, <1>5 DEF Parted, Repr
<1>7. PICK t \in K : \E j \in 1..Len(t) : t[j] = sib
  BY <1>6, ListOf
<1>8. PICK j \in 1..Len(t) : t[j] = sib
  BY <1>7
<1>9. Len(t) \in Nat /\ Len(t) > 0
  BY <1>6, ReprList
<1>10. t # <<n>>
  <2>1. SUFFICES ASSUME t = <<n>> PROVE FALSE
    OBVIOUS
  <2>2. Len(t) = 1 /\ t[1] = n
    BY <2>1
  <2>3. j = 1
    BY <2>2
  <2> QED
    BY <1>8, <2>2, <2>3
<1>11. Beside(u, K, t, j, n)
  BY <1>4, <1>6, <1>10 DEF Beside
<1>12. (KindOf[n] = "c") <=> (KindOf[t[1]] = "c")
  <2>1. Ring(u, t)
    BY <1>6 DEF Repr
  <2>2. (KindOf[t[j]] = "c") <=> (KindOf[t[1]] = "c")
    BY <2>1 DEF Ring
  <2> QED
    BY <1>8, <2>2
<1>13. PICK inv : inv = SiblingInvalid(m, sib, n)
  OBVIOUS
<1>14. inv \in BOOLEAN
  BY <1>13 DEF SiblingInvalid
<1>15. PICK a : a = PutFamily(u, sib, n, inv)
  OBVIOUS
<1>16. FamilyPut(u, u[t[j]].parent, n, a)
  BY <1>6, <1>8, <1>14, <1>15, FamilyAt
<1>17. PICK q : q = InsertedSibling(m, sib, n, before)
  OBVIOUS
<1>18. q = IF before THEN PutBefore(a, sib, n) ELSE PutAfter(a, sib, n)
  BY <1>3, <1>13, <1>15, <1>17, SiblingParts
<1>19. PICK k : k = IF before THEN j ELSE j + 1
  OBVIOUS
<1>20. PlacePut(u, t, k, n, q)
  <2>1. CASE before
    <3>1. q = PutBefore(a, t[j], n)
      BY <1>8, <1>18, <2>1
    <3> QED
      BY <1>11, <1>16, <1>19, <2>1, <3>1, BeforePlace
  <2>2. CASE ~before
    <3>1. q = PutAfter(a, t[j], n)
      BY <1>8, <1>18, <2>2
    <3> QED
      BY <1>11, <1>16, <1>19, <2>2, <3>1, AfterPlace
  <2> QED
    BY <2>1, <2>2
<1>21. k \in 1..(Len(t) + 1) /\ j \in Nat
  BY <1>9, <1>19
<1>22. PlaceDone(u, K, t, k, n, q)
  BY <1>4, <1>6, <1>10, <1>12, <1>20, <1>21, PlaceRepr
<1> QED
  BY <1>2, <1>4, <1>5, <1>8, <1>10, <1>17, <1>19, <1>21, <1>22 DEF SiblingDone
-----------------------------------------------------------------------------
(* lyd_new and lyd_parse_xml                                               *)

\* Lists of new nodes that are added, with all other nodes as they were.
LEMMA AddLists ==
  ASSUME NEW m, NEW L, Repr(m, L), NEW q \in Mem, NEW B,
         \A y \in Live(m) : y \in Live(q) /\ q[y] = m[y],
         \A t \in B : t \in Seq(Nodes) /\ t # << >> /\ Ring(q, t) /\ OwnList(q, t),
         Apart(B),
         \A t \in B : \A j \in 1..Len(t) : t[j] \notin Live(m),
         \A y \in Live(q) : y \notin Live(m) => \E t \in B : \E j \in 1..Len(t) : t[j] = y,
         \A y \in Live(q) : y \notin Live(m) => OwnChild(q, L \cup B, y)
  PROVE  Repr(q, L \cup B)
<1>1. \A u \in L : \A i \in 1..Len(u) : u[i] \in Live(m)
  BY ReprList
<1>2. \A u \in L \ {}, t \in B : \A i \in 1..Len(u), j \in 1..Len(t) : u[i] # t[j]
  BY <1>1
<1>3. ASSUME NEW u \in L PROVE Untouched(m, q, u) /\ OwnList(q, u)
  <2>1. Untouched(m, q, u)
    BY <1>1 DEF Untouched
  <2>2. OwnList(m, u) /\ u[1] \in Live(m)
    BY <1>1, ReprList DEF Repr
  <2> QED
    BY <2>1, <2>2 DEF OwnList
<1>4. Cover(q, (L \ {}) \cup B)
  <2>1. SUFFICES ASSUME NEW x \in Live(q) PROVE \E s \in (L \ {}) \cup B : \E i \in 1..Len(s) : s[i] = x
    BY DEF Cover
  <2>2. CASE x \in Live(m)
    BY <2>2, ListOf
  <2>3. CASE x \notin Live(m)
    BY <2>3
  <2> QED
    BY <2>2, <2>3
<1>5. ASSUME NEW x \in Live(q) PROVE OwnChild(q, (L \ {}) \cup B, x)
  <2>1. CASE x \in Live(m)
    <3>1. OwnChild(m, L, x) /\ q[x] = m[x]
      BY <2>1 DEF Repr
    <3>2. SUFFICES ASSUME m[x].child # None PROVE \E s \in (L \ {}) \cup B : s[1] = m[x].child /\ q[s[1]].parent = x
      BY <3>1 DEF OwnChild
    <3>3. PICK s \in L : s[1] = m[x].child /\ m[s[1]].parent = x
      BY <3>1, <3>2 DEF OwnChild
    <3>4. s[1] \in Live(m)
      BY ReprList
    <3>5. q[s[1]].parent = x
      BY <3>3, <3>4
    <3> QED
      BY <3>3, <3>5
  <2>2. CASE x \notin Live(m)
    <3>1. L \cup B = (L \ {}) \cup B
      OBVIOUS
    <3> QED
      BY <2>2, <3>1
  <2> QED
    BY <2>1, <2>2
<1>6. Repr(q, (L \ {}) \cup B)
  BY <1>2, <1>3, <1>4, <1>5, Relink
<1>7. (L \ {}) \cup B = L \cup B
  OBVIOUS
<1> QED
  BY <1>6, <1>7

\* A node that is allocated.
Alloc(m, n, v) == [m EXCEPT ![n] = Fresh(n, v)]
NewDone(m, L, n, v, q) ==
  /\ Repr(q, L \cup {<<n>>}) /\ Live(q) = Live(m) \cup {n} /\ q[n] = Fresh(n, v)
  /\ \A y \in Live(m) : q[y] = m[y]
LEMMA NewRepr ==
  ASSUME NEW m, NEW L, Repr(m, L), NEW n \in Nodes, n \notin Live(m), NEW v \in Values \cup {None}
  PROVE  NewDone(m, L, n, v, Alloc(m, n, v))
<1>1. PICK q : q = Alloc(m, n, v)
  OBVIOUS
<1>2. m \in Mem
  BY DEF Repr
<1>3. PICK f : f = Fresh(n, v)
  OBVIOUS
<1>4. /\ f \in Node /\ f # None /\ f.parent = None /\ f.child = None /\ f.next = None /\ f.prev = n
  <2>1. f \in Node
    BY <1>3 DEF Fresh, Node, Link
  <2>2. f # None
    BY <2>1, NoneIsNothing
  <2>3. f.parent = None /\ f.child = None /\ f.next = None /\ f.prev = n
    BY <1>3 DEF Fresh
  <2> QED
    BY <2>1, <2>2, <2>3
<1>5. q[n] = f /\ \A y \in Nodes : y # n => q[y] = m[y]
  BY <1>1, <1>2, <1>3 DEF Alloc, Mem
<1>6. q \in Mem
  BY <1>1, <1>2, <1>3, <1>4 DEF Alloc, Mem
<1>7. Live(q) = Live(m) \cup {n}
  BY <1>4, <1>5 DEF Live
<1>8. \A y \in Live(m) : y \in Live(q) /\ q[y] = m[y]
  BY <1>5, <1>7 DEF Live
<1>9. PICK t : t = <<n>>
  OBVIOUS
<1>10. t \in Seq(Nodes) /\ t # << >> /\ Len(t) = 1 /\ t[1] = n
  BY <1>9, Single
<1>11. Ring(q, t)
  BY <1>4, <1>5, <1>7, <1>10 DEF Ring
<1>12. OwnList(q, t)
  BY <1>4, <1>5, <1>10 DEF OwnList
<1>13. \A b \in {t} : b \in Seq(Nodes) /\ b # << >> /\ Ring(q, b) /\ OwnList(q, b)
  BY <1>10, <1>11, <1>12
<1>a. \A j \in 1..Len(t) : j = 1
  BY <1>10
<1>14. Apart({t})
  BY <1>a DEF Apart
<1>15. \A b \in {t} : \A j \in 1..Len(b) : b[j] \notin Live(m)
  BY <1>10, <1>a
<1>16. \A y \in Live(q) : y \notin Live(m) => \E b \in {t} : \E j \in 1..Len(b) : b[j] = y
  <2>1. 1 \in 1..Len(t) /\ t[1] = n
    BY <1>10
  <2> QED
    BY <1>7, <2>1
<1>17. \A y \in Live(q) : y \notin Live(m) => OwnChild(q, L \cup {t}, y)
  BY <1>4, <1>5, <1>7 DEF OwnChild
<1>18. Repr(q, L \cup {t})
  BY <1>6, <1>8, <1>13, <1>14, <1>15, <1>16, <1>17, AddLists
<1> QED
  BY <1>1, <1>3, <1>5, <1>7, <1>8, <1>9, <1>18 DEF NewDone

\* What the parser makes of a document, before leafrefs are resolved.
ParsedMem(m, n, doc, v) ==
  LET at(x) == CHOOSE i \in DOMAIN doc : doc[i] = x
      link(i) == IF i \in DOMAIN doc THEN doc[i] ELSE None
      node(x) == [parent |-> n, child |-> None, next |-> link(at(x) + 1),
                  prev |-> IF at(x) = 1 THEN Last(doc) ELSE doc[at(x) - 1],
                  leafref |-> None, val |-> v, valid |-> TRUE] IN
  [x \in Nodes |->
     IF x = n THEN [Fresh(n, None) EXCEPT !.child = link(1), !.valid = TRUE]
     ELSE IF x \in Range(doc) THEN node(x) ELSE m[x]]

\* With the leafrefs resolved.
Resolved(m, doc, v) ==
  [x \in Nodes |-> IF x \in Range(doc) /\ IsRef(x) THEN [m[x] EXCEPT !.leafref = Match(m, x, v)] ELSE m[x]]

\* lyd_parse_xml is both.
LEMMA ParseParts ==
  ASSUME NEW n, NEW doc, NEW v, lyd_parse_xml(n, doc, v)
  PROVE  /\ KindOf[n] = "c" /\ ({n} \cup Range(doc)) \cap Live(d) = {}
         /\ d' = Resolved(ParsedMem(d, n, doc, v), doc, v)
         /\ \A x \in Range(doc) : IsRef(x) => Match(ParsedMem(d, n, doc, v), x, v) # None
BY DEF lyd_parse_xml, Resolved, ParsedMem

\* The first item of a list that is in a set is in the set.
LEMMA FirstInFacts ==
  ASSUME NEW s, DOMAIN s \subseteq Nat, NEW S
  PROVE  FirstIn(s, S) = None \/ FirstIn(s, S) \in S
<1> DEFINE at == {i \in DOMAIN s : s[i] \in S}
<1>1. FirstIn(s, S) = IF at = {} THEN None ELSE s[Min(at)]
  BY DEF FirstIn
<1>2. at \in SUBSET Nat
  OBVIOUS
<1>3. at # {} => Min(at) \in at
  <2> HIDE DEF at
  <2>1. at # {} => \E x \in at : \A y \in at : x <= y
    BY <1>2, LeastNumber
  <2> QED
    BY <2>1 DEF Min
<1>4. \A i \in at : s[i] \in S
  OBVIOUS
<1> HIDE DEF at
<1> QED
  BY <1>1, <1>3, <1>4

\* So is the one that is found below the containers of a list.
LEMMA FirstBelowFacts ==
  ASSUME NEW m, NEW s \in Seq(Nodes), NEW S
  PROVE  FirstBelow(m, s, S) = None \/ FirstBelow(m, s, S) \in S
<1>1. Len(s) \in Nat
  BY ListFacts
<1>2. PICK f : f = [k \in 1..Len(s) |-> IF k \in Searched(m, s) THEN FirstIn(Children(m, s[k]), S) ELSE None]
  OBVIOUS
<1>3. DOMAIN f \subseteq Nat
  BY <1>1, <1>2
<1>4. FirstBelow(m, s, S) = FirstIn(f, S)
  BY <1>2 DEF FirstBelow
<1> QED
  BY <1>3, <1>4, FirstInFacts

\* A leafref is resolved to an allocated instance of its target.
LEMMA MatchFacts ==
  ASSUME NEW m, NEW L, Repr(m, L), NEW n \in Live(m), NEW v
  PROVE  /\ Match(m, n, v) \in Link
         /\ Match(m, n, v) # None => Match(m, n, v) \in Live(m) /\ KindOf[Match(m, n, v)] = "t"
<1>1. PICK s : s = TopList(m, n)
  OBVIOUS
<1>2. s \in Seq(Nodes)
  BY <1>1, WalksLive
<1>3. PICK ts : ts = {x \in Live(m) : KindOf[x] = "t"}
  OBVIOUS
<1>4. PICK same : same = {x \in ts : m[x].val = v}
  OBVIOUS
<1>5. PICK lead : lead = {FirstIn(Children(m, s[k]), ts) : k \in Searched(m, s)}
  OBVIOUS
<1>6. Match(m, n, v) = IF FirstBelow(m, s, same \cap lead) # None THEN FirstBelow(m, s, same \cap lead)
                      ELSE FirstBelow(m, s, same \ lead)
  BY <1>1, <1>3, <1>4, <1>5 DEF Match
<1>7. Match(m, n, v) = None \/ Match(m, n, v) \in same
  <2>1. FirstBelow(m, s, same \cap lead) = None \/ FirstBelow(m, s, same \cap lead) \in same \cap lead
    BY <1>2, FirstBelowFacts
  <2>2. FirstBelow(m, s, same \ lead) = None \/ FirstBelow(m, s, same \ lead) \in same \ lead
    BY <1>2, FirstBelowFacts
  <2> QED
    BY <1>6, <2>1, <2>2
<1>8. same \subseteq Live(m) /\ \A x \in same : KindOf[x] = "t"
  BY <1>3, <1>4
<1> QED
  BY <1>7, <1>8 DEF Link, Live

\* What is known of a document: different addresses of leafs.
LEMMA DocFacts ==
  ASSUME NEW doc \in Docs
  PROVE  /\ doc \in Seq(Nodes) /\ Len(doc) \in Nat /\ DOMAIN doc = 1..Len(doc)
         /\ \A j \in 1..Len(doc) : doc[j] \in Nodes /\ KindOf[doc[j]] # "c"
         /\ \A i, j \in 1..Len(doc) : doc[i] = doc[j] => i = j
         /\ Range(doc) = {doc[j] : j \in 1..Len(doc)}
<1>1. doc \in Seq({n \in Nodes : KindOf[n] # "c"}) /\ IsInjective(doc)
  BY DocsType
<1>2. PICK S : S = {n \in Nodes : KindOf[n] # "c"}
  OBVIOUS
<1>3. doc \in Seq(S)
  BY <1>1, <1>2
<1>4. /\ Len(doc) \in Nat /\ doc \in [1..Len(doc) -> S] /\ DOMAIN doc = 1..Len(doc)
      /\ \A j \in 1..Len(doc) : doc[j] \in S
      /\ Range(doc) = {doc[j] : j \in 1..Len(doc)}
  BY <1>3, ListFacts
<1>5. \A i, j \in 1..Len(doc) : doc[i] = doc[j] => i = j
  BY <1>1, <1>4 DEF IsInjective
<1>6. \A j \in 1..Len(doc) : doc[j] \in Nodes /\ KindOf[doc[j]] # "c"
  BY <1>2, <1>4
<1>7. doc \in [1..Len(doc) -> Nodes]
  BY <1>4, <1>6
<1>8. doc \in Seq(Nodes)
  BY <1>4, <1>7, FunctionList
<1> QED
  BY <1>4, <1>5, <1>6, <1>8

\* The fields of the nodes of the document.
LEMMA ParseFields ==
  ASSUME NEW m \in Mem, NEW n \in Nodes, NEW doc \in Docs, NEW v \in Values, KindOf[n] = "c",
         ({n} \cup Range(doc)) \cap Live(m) = {}, NEW q, q = ParsedMem(m, n, doc, v)
  PROVE  /\ q \in Mem /\ Live(q) = Live(m) \cup ({n} \cup Range(doc)) /\ \A y \in Live(m) : q[y] = m[y]
         /\ q[n].parent = None /\ q[n].next = None /\ q[n].prev = n /\ q[n].leafref = None
         /\ q[n].child = IF Len(doc) = 0 THEN None ELSE doc[1]
         /\ \A j \in 1..Len(doc) :
              /\ q[doc[j]].parent = n /\ q[doc[j]].child = None /\ q[doc[j]].leafref = None
              /\ q[doc[j]].next = IF j = Len(doc) THEN None ELSE doc[j + 1]
              /\ q[doc[j]].prev = IF j = 1 THEN doc[Len(doc)] ELSE doc[j - 1]
<1>1. /\ doc \in Seq(Nodes) /\ Len(doc) \in Nat /\ DOMAIN doc = 1..Len(doc)
      /\ \A j \in 1..Len(doc) : doc[j] \in Nodes /\ KindOf[doc[j]] # "c"
      /\ \A i, j \in 1..Len(doc) : doc[i] = doc[j] => i = j
      /\ Range(doc) = {doc[j] : j \in 1..Len(doc)}
  BY DocFacts
<1> DEFINE at(x) == CHOOSE i \in DOMAIN doc : doc[i] = x
           link(i) == IF i \in DOMAIN doc THEN doc[i] ELSE None
           node(x) == [parent |-> n, child |-> None, next |-> link(at(x) + 1),
                       prev |-> IF at(x) = 1 THEN Last(doc) ELSE doc[at(x) - 1],
                       leafref |-> None, val |-> v, valid |-> TRUE]
           top == [Fresh(n, None) EXCEPT !.child = link(1), !.valid = TRUE]
<1>2. q = [x \in Nodes |-> IF x = n THEN top ELSE IF x \in Range(doc) THEN node(x) ELSE m[x]]
  BY DEF ParsedMem
<1>3. \A j \in 1..Len(doc) : at(doc[j]) = j
  BY <1>1
<1>4. \A j \in 1..Len(doc) : doc[j] # n /\ doc[j] \in Range(doc)
  BY <1>1
<1>5. link(1) \in Link /\ link(1) = IF Len(doc) = 0 THEN None ELSE doc[1]
  BY <1>1 DEF Link
<1>6. PICK f : f = link(1)
  OBVIOUS
<1>7. PICK g : g = [Fresh(n, None) EXCEPT !.child = f, !.valid = TRUE]
  OBVIOUS
<1>8. g = top
  BY <1>6, <1>7
<1>9. /\ g \in Node /\ g.parent = None /\ g.next = None /\ g.prev = n /\ g.leafref = None /\ g.child = f
  <2>1. f \in Link
    BY <1>5, <1>6
  <2> QED
    BY <1>7, <2>1 DEF Fresh, Node, Link
<1> HIDE DEF top
<1>10. q[n] = g
  BY <1>2, <1>8
<1>11. ASSUME NEW j \in 1..Len(doc)
       PROVE  /\ q[doc[j]] \in Node
              /\ q[doc[j]].parent = n /\ q[doc[j]].child = None /\ q[doc[j]].leafref = None
              /\ q[doc[j]].next = IF j = Len(doc) THEN None ELSE doc[j + 1]
              /\ q[doc[j]].prev = IF j = 1 THEN doc[Len(doc)] ELSE doc[j - 1]
  <2>1. PICK a : a = IF j = Len(doc) THEN None ELSE doc[j + 1]
    OBVIOUS
  <2>2. PICK b : b = IF j = 1 THEN doc[Len(doc)] ELSE doc[j - 1]
    OBVIOUS
  <2>3. link(j + 1) = a
    BY <1>1, <2>1
  <2>4. at(doc[j]) = j /\ Last(doc) = doc[Len(doc)]
    BY <1>3 DEF Last
  <2>5. a \in Link
    <3>a. PICK l \in Nat : l = Len(doc)
      BY <1>1, Zenon
    <3>b. j \in 1..l /\ (j # l => j + 1 \in 1..l)
      BY <3>a
    <3>1. j # Len(doc) => j + 1 \in 1..Len(doc)
      BY <3>a, <3>b
    <3> QED
      BY <1>1, <2>1, <3>1, Zenon DEF Link
  <2>6. b \in Nodes
    <3>1. (j # 1 => j - 1 \in 1..Len(doc)) /\ Len(doc) \in 1..Len(doc)
      BY <1>1
    <3> QED
      BY <1>1, <2>2, <3>1
  <2>7. q[doc[j]] = node(doc[j])
    BY <1>1, <1>2, <1>4
  <2> HIDE DEF at, link
  <2>8. node(doc[j]) = [parent |-> n, child |-> None, next |-> a, prev |-> b,
                        leafref |-> None, val |-> v, valid |-> TRUE]
    BY <2>2, <2>3, <2>4
  <2> HIDE DEF node
  <2>9. [parent |-> n, child |-> None, next |-> a, prev |-> b, leafref |-> None, val |-> v, valid |-> TRUE] \in Node
    BY <2>5, <2>6 DEF Node, Link
  <2> QED
    BY <2>1, <2>2, <2>7, <2>8, <2>9
<1> HIDE DEF at, link, node
<1>12. \A y \in Nodes : y # n /\ y \notin Range(doc) => q[y] = m[y]
  BY <1>2
<1>13. \A y \in Range(doc) : q[y] \in Node /\ y \in Nodes
  BY <1>1, <1>11
<1>14. q \in Mem
  <2>1. \A y \in Nodes : q[y] \in Node \cup {None}
    BY <1>9, <1>10, <1>12, <1>13 DEF Mem
  <2>2. q = [y \in Nodes |-> q[y]]
    BY <1>2
  <2> QED
    BY <2>1, <2>2 DEF Mem
<1>15. Live(q) = Live(m) \cup ({n} \cup Range(doc))
  <2>1. \A y \in {n} \cup Range(doc) : q[y] # None
    BY <1>9, <1>10, <1>13, NoneIsNothing
  <2> QED
    BY <1>12, <1>13, <2>1 DEF Live
<1>16. \A y \in Live(m) : q[y] = m[y]
  BY <1>12 DEF Live
<1> QED
  BY <1>5, <1>6, <1>9, <1>10, <1>11, <1>14, <1>15, <1>16
\* The nodes of the document have been linked.
ParseDone(m, L, n, doc, q) ==
  /\ Repr(q, L \cup ({<<n>>} \cup NonEmpty(doc))) /\ Live(q) = Live(m) \cup ({n} \cup Range(doc))
  /\ \A y \in Live(m) : q[y] = m[y]
  /\ q[n].parent = None /\ q[n].leafref = None
  /\ \A x \in Range(doc) : q[x].parent = n /\ q[x].leafref = None
LEMMA ParseRepr ==
  ASSUME NEW m, NEW L, Repr(m, L), NEW n \in Nodes, NEW doc \in Docs, NEW v \in Values, KindOf[n] = "c",
         ({n} \cup Range(doc)) \cap Live(m) = {}
  PROVE  ParseDone(m, L, n, doc, ParsedMem(m, n, doc, v))
<1>1. /\ doc \in Seq(Nodes) /\ Len(doc) \in Nat /\ DOMAIN doc = 1..Len(doc)
      /\ \A j \in 1..Len(doc) : doc[j] \in Nodes /\ KindOf[doc[j]] # "c"
      /\ \A i, j \in 1..Len(doc) : doc[i] = doc[j] => i = j
      /\ Range(doc) = {doc[j] : j \in 1..Len(doc)}
  BY DocFacts
<1>2. PICK q : q = ParsedMem(m, n, doc, v)
  OBVIOUS
<1>3. /\ q \in Mem /\ Live(q) = Live(m) \cup ({n} \cup Range(doc)) /\ \A y \in Live(m) : q[y] = m[y]
      /\ q[n].parent = None /\ q[n].next = None /\ q[n].prev = n /\ q[n].leafref = None
      /\ q[n].child = IF Len(doc) = 0 THEN None ELSE doc[1]
      /\ \A j \in 1..Len(doc) :
           /\ q[doc[j]].parent = n /\ q[doc[j]].child = None /\ q[doc[j]].leafref = None
           /\ q[doc[j]].next = IF j = Len(doc) THEN None ELSE doc[j + 1]
           /\ q[doc[j]].prev = IF j = 1 THEN doc[Len(doc)] ELSE doc[j - 1]
  BY <1>2, ParseFields DEF Repr
<1>4. PICK t : t = <<n>>
  OBVIOUS
<1>5. t \in Seq(Nodes) /\ t # << >> /\ Len(t) = 1 /\ t[1] = n /\ \A j \in 1..Len(t) : j = 1
  <2>1. t \in Seq(Nodes) /\ t # << >> /\ Len(t) = 1 /\ t[1] = n
    BY <1>4, Single
  <2> QED
    BY <2>1
<1>6. Ring(q, t)
  BY <1>3, <1>5 DEF Ring
<1>7. OwnList(q, t)
  BY <1>3, <1>5 DEF OwnList
<1>8. \A j \in 1..Len(doc) : doc[j] # n /\ doc[j] \in Range(doc) /\ doc[j] \in Live(q)
  <2>1. \A j \in 1..Len(doc) : doc[j] \in Range(doc)
    BY <1>1
  <2>2. \A j \in 1..Len(doc) : doc[j] # n
    BY <1>1
  <2>3. Range(doc) \subseteq Live(q)
    BY <1>3
  <2> QED
    BY <2>1, <2>2, <2>3
<1>9. doc # << >> => Len(doc) > 0 /\ 1 \in 1..Len(doc) /\ Len(doc) # 0
  BY <1>1, ListFacts
<1>10. doc # << >> => Ring(q, doc)
  <2>1. SUFFICES ASSUME doc # << >> PROVE Ring(q, doc)
    OBVIOUS
  <2>2. \A j \in 1..Len(doc) : q[doc[j]].parent = q[doc[1]].parent
    BY <1>3, <1>9, <2>1
  <2>3. \A j \in 1..Len(doc) : (KindOf[doc[j]] = "c") <=> (KindOf[doc[1]] = "c")
    BY <1>1, <1>9, <2>1
  <2> QED
    BY <1>3, <1>8, <2>2, <2>3 DEF Ring
<1>11. doc # << >> => OwnList(q, doc) /\ q[doc[1]].parent = n /\ q[n].child = doc[1]
  <2>1. SUFFICES ASSUME doc # << >> PROVE OwnList(q, doc) /\ q[doc[1]].parent = n /\ q[n].child = doc[1]
    OBVIOUS
  <2>2. q[doc[1]].parent = n /\ KindOf[doc[1]] # "c" /\ q[n].child = doc[1]
    BY <1>1, <1>3, <1>9, <2>1, Zenon
  <2> QED
    BY <1>3, <2>2 DEF OwnList
<1> DEFINE B == {t} \cup NonEmpty(doc)
<1>12. \A b \in B : b = t \/ (b = doc /\ doc # << >>)
  BY DEF NonEmpty
<1>13. doc # << >> => doc \in B
  BY DEF NonEmpty
<1>14. t \in B
  OBVIOUS
<1> HIDE DEF B
<1>15. \A b \in B : b \in Seq(Nodes) /\ b # << >> /\ Ring(q, b) /\ OwnList(q, b)
  BY <1>1, <1>5, <1>6, <1>7, <1>10, <1>11, <1>12
<1>16. Apart(B)
  <2>1. SUFFICES ASSUME NEW a \in B, NEW b \in B, NEW i \in 1..Len(a), NEW j \in 1..Len(b), a[i] = b[j]
                 PROVE  a = b /\ i = j
    BY DEF Apart
  <2>2. CASE a = t /\ b = t
    BY <1>5, <2>2
  <2>3. CASE a = doc /\ b = doc
    BY <1>1, <2>1, <2>3
  <2>4. CASE a = t /\ b = doc
    BY <1>5, <1>8, <2>1, <2>4
  <2>5. CASE a = doc /\ b = t
    BY <1>5, <1>8, <2>1, <2>5
  <2> QED
    BY <1>12, <2>2, <2>3, <2>4, <2>5
<1>17. \A b \in B : \A j \in 1..Len(b) : b[j] \notin Live(m)
  <2>1. \A j \in 1..Len(doc) : doc[j] \notin Live(m)
    BY <1>8
  <2>2. \A j \in 1..Len(t) : t[j] \notin Live(m)
    BY <1>5
  <2> QED
    BY <1>12, <2>1, <2>2
<1>18. \A y \in Live(q) : y \notin Live(m) => \E b \in B : \E j \in 1..Len(b) : b[j] = y
  <2>1. SUFFICES ASSUME NEW y \in Live(q), y \notin Live(m) PROVE \E b \in B : \E j \in 1..Len(b) : b[j] = y
    OBVIOUS
  <2>2. CASE y = n
    <3>1. 1 \in 1..Len(t) /\ t[1] = y
      BY <1>5, <2>2
    <3> QED
      BY <1>14, <3>1
  <2>3. CASE y # n
    <3>1. y \in Range(doc)
      BY <1>3, <2>1, <2>3
    <3>2. PICK j \in 1..Len(doc) : doc[j] = y
      BY <1>1, <3>1
    <3>3. doc # << >>
      BY <1>1, <3>2, ListFacts
    <3> QED
      BY <1>13, <3>2, <3>3
  <2> QED
    BY <2>2, <2>3
<1>19. \A y \in Live(q) : y \notin Live(m) => OwnChild(q, L \cup B, y)
  <2>1. SUFFICES ASSUME NEW y \in Live(q), y \notin Live(m) PROVE OwnChild(q, L \cup B, y)
    OBVIOUS
  <2>2. CASE y = n
    <3>1. CASE doc = << >>
      <4>1. Len(doc) = 0
        BY <3>1, EmptyList
      <4> QED
        BY <1>3, <2>2, <4>1 DEF OwnChild
    <3>2. CASE doc # << >>
      BY <1>11, <1>13, <2>2, <3>2 DEF OwnChild
    <3> QED
      BY <3>1, <3>2
  <2>3. CASE y # n
    <3>1. y \in Range(doc)
      BY <1>3, <2>1, <2>3
    <3>a. PICK j \in 1..Len(doc) : doc[j] = y
      BY <1>1, <3>1
    <3>2. q[y].child = None
      BY <1>3, <3>a
    <3> QED
      BY <3>2 DEF OwnChild
  <2> QED
    BY <2>2, <2>3
<1>20. Repr(q, L \cup B)
  BY <1>3, <1>15, <1>16, <1>17, <1>18, <1>19, AddLists
<1>21. \A x \in Range(doc) : q[x].parent = n /\ q[x].leafref = None
  <2>1. SUFFICES ASSUME NEW x \in Range(doc) PROVE q[x].parent = n /\ q[x].leafref = None
    OBVIOUS
  <2>2. PICK j \in 1..Len(doc) : doc[j] = x
    BY <1>1
  <2> QED
    BY <1>3, <2>2
<1> QED
  BY <1>2, <1>3, <1>4, <1>20, <1>21 DEF ParseDone, B

\* Resolving the leafrefs of the document changes no link.
LEMMA ResolvedLinks ==
  ASSUME NEW m, NEW L, Repr(m, L), NEW doc \in Docs, Range(doc) \subseteq Live(m), NEW v,
         NEW q, q = Resolved(m, doc, v)
  PROVE  /\ SameLinks(m, q)
         /\ \A x \in Live(m) : q[x].leafref = IF x \in Range(doc) /\ IsRef(x) THEN Match(m, x, v) ELSE m[x].leafref
<1>1. m \in Mem
  BY DEF Repr
<1>2. \A x \in Nodes : x \notin Range(doc) \/ ~IsRef(x) => q[x] = m[x]
  BY DEF Resolved
<1>3. ASSUME NEW x \in Range(doc), IsRef(x)
      PROVE  /\ q[x] \in Node /\ q[x].leafref = Match(m, x, v) /\ q[x].parent = m[x].parent
             /\ q[x].child = m[x].child /\ q[x].next = m[x].next /\ q[x].prev = m[x].prev
  <2>1. x \in Live(m) /\ x \in Nodes /\ m[x] \in Node
    BY <1>1, NodeFields
  <2>2. PICK t : t = Match(m, x, v)
    OBVIOUS
  <2>3. t \in Link
    BY <2>1, <2>2, MatchFacts
  <2>4. q[x] = [m[x] EXCEPT !.leafref = t]
    BY <1>3, <2>1, <2>2 DEF Resolved
  <2> QED
    BY <2>1, <2>2, <2>3, <2>4 DEF Node
<1>4. \A x \in Live(m) : x \in Nodes /\ m[x] \in Node /\ m[x] # None
  BY <1>1, NodeFields
<1>5. q \in Mem
  <2>1. \A x \in Nodes : q[x] \in Node \cup {None}
    BY <1>1, <1>2, <1>3 DEF Mem
  <2>2. q = [x \in Nodes |-> q[x]]
    BY DEF Resolved
  <2> QED
    BY <2>1, <2>2 DEF Mem
<1>6. Live(q) = Live(m)
  <2>1. \A x \in Nodes : q[x] # None <=> m[x] # None
    BY <1>2, <1>3, <1>4, NoneIsNothing
  <2> QED
    BY <2>1 DEF Live
<1> QED
  BY <1>2, <1>3, <1>4, <1>5, <1>6 DEF SameLinks

-----------------------------------------------------------------------------
(* lyd_change_leaf and lyd_validate                                        *)

\* An assignment to the value, the leafref pointer or the flag of a node.
PutVal(m, n, v) == [m EXCEPT ![n].val = v]
PutRef(m, n, t) == [m EXCEPT ![n].leafref = t]
PutValid(m, n) == [m EXCEPT ![n].valid = TRUE]

\* It changes no link.  Refs is what becomes of the leafref pointers.
DataPut(m, n, t, q) ==
  /\ SameLinks(m, q)
  /\ \A y \in Live(m) : q[y].leafref = IF y = n THEN t ELSE m[y].leafref
LEMMA DataAt ==
  ASSUME NEW m \in Mem, NEW n \in Live(m)
  PROVE  /\ \A v \in Values : DataPut(m, n, m[n].leafref, PutVal(m, n, v))
         /\ \A t \in Link : DataPut(m, n, t, PutRef(m, n, t))
         /\ DataPut(m, n, m[n].leafref, PutValid(m, n))
<1>1. n \in Nodes /\ m[n] \in Node /\ m[n] # None
  BY NodeFields
<1>2. ASSUME NEW a \in Node, NEW q, q = [m EXCEPT ![n] = a], a.parent = m[n].parent, a.child = m[n].child,
             a.next = m[n].next, a.prev = m[n].prev
      PROVE  DataPut(m, n, a.leafref, q)
  <2>1. q[n] = a /\ \A y \in Nodes : y # n => q[y] = m[y]
    BY <1>1, <1>2 DEF Mem
  <2>2. q \in Mem
    BY <1>2 DEF Mem
  <2>3. a # None
    BY NoneIsNothing
  <2>4. Live(q) = Live(m)
    BY <1>1, <2>1, <2>3 DEF Live
  <2>5. \A y \in Live(m) : y \in Nodes
    BY DEF Live
  <2> QED
    BY <1>2, <2>1, <2>2, <2>4, <2>5 DEF DataPut, SameLinks
<1>3. ASSUME NEW v \in Values PROVE DataPut(m, n, m[n].leafref, PutVal(m, n, v))
  <2>1. PICK a : a = [m[n] EXCEPT !.val = v]
    OBVIOUS
  <2>2. /\ a \in Node /\ a.parent = m[n].parent /\ a.child = m[n].child
        /\ a.next = m[n].next /\ a.prev = m[n].prev /\ a.leafref = m[n].leafref
    BY <1>1, <2>1 DEF Node
  <2>3. PutVal(m, n, v) = [m EXCEPT ![n] = a]
    BY <2>1 DEF PutVal
  <2> QED
    BY <1>2, <2>2, <2>3
<1>4. ASSUME NEW t \in Link PROVE DataPut(m, n, t, PutRef(m, n, t))
  <2>1. PICK a : a = [m[n] EXCEPT !.leafref = t]
    OBVIOUS
  <2>2. /\ a \in Node /\ a.parent = m[n].parent /\ a.child = m[n].child
        /\ a.next = m[n].next /\ a.prev = m[n].prev /\ a.leafref = t
    BY <1>1, <2>1 DEF Node
  <2>3. PutRef(m, n, t) = [m EXCEPT ![n] = a]
    BY <2>1 DEF PutRef
  <2> QED
    BY <1>2, <2>2, <2>3
<1>5. DataPut(m, n, m[n].leafref, PutValid(m, n))
  <2>1. PICK a : a = [m[n] EXCEPT !.valid = TRUE]
    OBVIOUS
  <2>2. /\ a \in Node /\ a.parent = m[n].parent /\ a.child = m[n].child
        /\ a.next = m[n].next /\ a.prev = m[n].prev /\ a.leafref = m[n].leafref
    BY <1>1, <2>1 DEF Node
  <2>3. PutValid(m, n) = [m EXCEPT ![n] = a]
    BY <2>1 DEF PutValid
  <2> QED
    BY <1>2, <2>2, <2>3
<1> QED
  BY <1>3, <1>4, <1>5
\* A leafref pointer is that of a leafref, and points to an instance of t.
RefKinds(m) ==
  \A y \in Live(m) : m[y].leafref # None => IsRef(y) /\ m[y].leafref \in Nodes /\ KindOf[m[y].leafref] = "t"

\* The links are as they were, and leafrefs are leafrefs.
DataDone(m, q) == SameLinks(m, q) /\ (RefKinds(m) => RefKinds(q))

\* One call after the other.
LEMMA DataTrans ==
  ASSUME NEW m, NEW q, NEW r, DataDone(m, q), DataDone(q, r)
  PROVE  DataDone(m, r)
BY DEF DataDone, SameLinks

\* Nothing happens.
LEMMA DataRefl ==
  ASSUME NEW m \in Mem
  PROVE  DataDone(m, m)
BY DEF DataDone, SameLinks

\* The pointer of a leafref is taken away or set to a match; other fields of the
\* data do not matter.
LEMMA DataStep ==
  ASSUME NEW m, NEW L, Repr(m, L), NEW n \in Live(m), NEW t \in Link, NEW q, DataPut(m, n, t, q),
         t = m[n].leafref \/ (IsRef(n) /\ (t # None => KindOf[t] = "t"))
  PROVE  DataDone(m, q)
<1>1. SameLinks(m, q) /\ Live(q) = Live(m)
  BY DEF DataPut, SameLinks
<1>2. SUFFICES ASSUME RefKinds(m), NEW y \in Live(m), q[y].leafref # None
               PROVE  IsRef(y) /\ q[y].leafref \in Nodes /\ KindOf[q[y].leafref] = "t"
  BY <1>1 DEF DataDone, RefKinds
<1>3. CASE y = n
  <2>1. q[y].leafref = t /\ t \in Nodes
    BY <1>2, <1>3 DEF DataPut, Link
  <2> QED
    BY <1>2, <1>3, <2>1 DEF RefKinds
<1>4. CASE y # n
  BY <1>2, <1>4 DEF DataPut, RefKinds
<1> QED
  BY <1>3, <1>4

\* lyd_change_leaf.
LEMMA ChangeLinks ==
  ASSUME NEW L, Repr(d, L), NEW n \in Nodes, NEW v \in Values, lyd_change_leaf(n, v)
  PROVE  DataDone(d, d')
<1>1. n \in Live(d) /\ d \in Mem
  BY DEF lyd_change_leaf, Repr
<1>2. PICK t : t = Match(d, n, v)
  OBVIOUS
<1>3. t \in Link /\ (t # None => KindOf[t] = "t")
  BY <1>1, <1>2, MatchFacts
<1>4. None \in Link /\ d[n].leafref \in Link
  BY <1>1, NodeFields DEF Link
<1>5. d' = IF ~IsRef(n) THEN PutVal(d, n, v)
           ELSE IF t = None THEN PutRef(d, n, None)
           ELSE [d EXCEPT ![n].leafref = t, ![n].val = v]
  BY <1>2 DEF lyd_change_leaf, PutVal, PutRef
<1>6. CASE ~IsRef(n)
  <2>1. DataPut(d, n, d[n].leafref, d')
    BY <1>1, <1>5, <1>6, DataAt
  <2> QED
    BY <1>1, <1>4, <2>1, DataStep
<1>7. CASE IsRef(n) /\ t = None
  <2>1. DataPut(d, n, None, d')
    BY <1>1, <1>4, <1>5, <1>7, DataAt
  <2> QED
    BY <1>1, <1>4, <1>7, <2>1, DataStep
<1>8. CASE IsRef(n) /\ t # None
  <2>1. PICK a : a = PutRef(d, n, t)
    OBVIOUS
  <2>2. d' = PutVal(a, n, v)
    BY <1>5, <1>8, <2>1 DEF PutVal, PutRef
  <2>3. DataPut(d, n, t, a)
    BY <1>1, <1>3, <2>1, DataAt
  <2>4. DataDone(d, a)
    BY <1>1, <1>3, <1>8, <2>3, DataStep
  <2>5. Repr(a, L) /\ a \in Mem /\ n \in Live(a)
    BY <1>1, <2>4, SameLinksRepr DEF DataDone, SameLinks
  <2>6. DataPut(a, n, a[n].leafref, d')
    BY <2>2, <2>5, DataAt
  <2>7. a[n].leafref \in Link
    BY <2>5, NodeFields
  <2>8. DataDone(a, d')
    BY <2>5, <2>6, <2>7, DataStep
  <2> QED
    BY <2>4, <2>8, DataTrans
<1> QED
  BY <1>6, <1>7, <1>8

\* The state of lyd_validate: the memory and whether all is well so far.
Checking(m, L, a) == a = [mem |-> a.mem, ok |-> a.ok] /\ DataDone(m, a.mem) /\ Repr(a.mem, L)

\* One node.
LEMMA CheckedNode ==
  ASSUME NEW m, NEW L, NEW a, Checking(m, L, a), NEW n \in Live(m)
  PROVE  Checking(m, L, ValidateNode(a, n))
<1>1. PICK w : w = a.mem
  OBVIOUS
<1>2. DataDone(m, w) /\ Repr(w, L) /\ n \in Live(w) /\ w \in Mem
  BY <1>1 DEF Checking, DataDone, SameLinks
<1>3. PICK t : t = Match(w, n, w[n].val)
  OBVIOUS
<1>4. t \in Link /\ (t # None => KindOf[t] = "t")
  BY <1>2, <1>3, MatchFacts
<1>5. PICK x : x = IF IsRef(n) /\ w[n].leafref = None THEN PutRef(w, n, t) ELSE w
  OBVIOUS
<1>6. DataDone(w, x)
  <2>1. CASE IsRef(n) /\ w[n].leafref = None
    <3>1. DataPut(w, n, t, x)
      BY <1>2, <1>4, <1>5, <2>1, DataAt
    <3> QED
      BY <1>2, <1>4, <2>1, <3>1, DataStep
  <2>2. CASE ~(IsRef(n) /\ w[n].leafref = None)
    BY <1>2, <1>5, <2>2, DataRefl
  <2> QED
    BY <2>1, <2>2
<1>7. Repr(x, L) /\ n \in Live(x) /\ x \in Mem
  BY <1>2, <1>6, SameLinksRepr DEF DataDone, SameLinks
<1>8. PICK z : z = PutValid(x, n)
  OBVIOUS
<1>9. DataDone(x, z)
  <2>1. DataPut(x, n, x[n].leafref, z)
    BY <1>7, <1>8, DataAt
  <2>2. x[n].leafref \in Link
    BY <1>7, NodeFields
  <2> QED
    BY <1>7, <2>1, <2>2, DataStep
<1>10. Repr(z, L)
  BY <1>7, <1>9, SameLinksRepr DEF DataDone
<1>11. DataDone(m, x) /\ DataDone(m, z)
  BY <1>2, <1>6, <1>9, DataTrans
<1>12. PICK b : b = ValidateNode(a, n)
  OBVIOUS
<1>13. \/ b = a
       \/ b = [a EXCEPT !.ok = FALSE]
       \/ b = [mem |-> x, ok |-> FALSE]
       \/ b = [mem |-> z, ok |-> TRUE]
  BY <1>1, <1>3, <1>5, <1>8, <1>12 DEF ValidateNode, PutRef, PutValid
<1>14. CASE b = a
  BY <1>12, <1>14
<1>15. CASE b = [a EXCEPT !.ok = FALSE]
  <2>1. a = [mem |-> a.mem, ok |-> a.ok]
    BY DEF Checking
  <2>2. b = [mem |-> a.mem, ok |-> FALSE]
    BY <1>15, <2>1
  <2>3. b.mem = a.mem /\ b = [mem |-> b.mem, ok |-> b.ok]
    BY <2>2
  <2> QED
    BY <1>12, <2>3 DEF Checking
<1>16. CASE b = [mem |-> x, ok |-> FALSE]
  <2>1. b.mem = x /\ b = [mem |-> b.mem, ok |-> b.ok]
    BY <1>16
  <2> QED
    BY <1>7, <1>11, <1>12, <2>1 DEF Checking
<1>17. CASE b = [mem |-> z, ok |-> TRUE]
  <2>1. b.mem = z /\ b = [mem |-> b.mem, ok |-> b.ok]
    BY <1>17
  <2> QED
    BY <1>10, <1>11, <1>12, <2>1 DEF Checking
<1> QED
  BY <1>13, <1>14, <1>15, <1>16, <1>17

\* The nodes of a tree.
LEMMA CheckedNodes ==
  ASSUME NEW m, NEW L, NEW a, Checking(m, L, a), NEW s \in Seq(Nodes), Range(s) \subseteq Live(m)
  PROVE  Checking(m, L, ValidatedNodes(a, s))
<1>1. Len(s) \in Nat /\ Range(s) = {s[i] : i \in 1..Len(s)}
  BY ListFacts
<1>2. PICK h : Unfolds(h, "check", 0, a, s, Len(s)) /\ ValidatedNodes(a, s) = h[Len(s)]
  BY <1>1, CheckLoop
<1> DEFINE A == {k \in Nat : k <= Len(s) => Checking(m, L, h[k])}
<1>3. 0 \in A
  BY <1>2 DEF Unfolds
<1>4. ASSUME NEW k \in Nat, k \in A PROVE k + 1 \in A
  <2>1. SUFFICES ASSUME k + 1 <= Len(s) PROVE Checking(m, L, h[k + 1])
    OBVIOUS
  <2>2. k + 1 \in 1..Len(s) /\ (k + 1) - 1 = k /\ Checking(m, L, h[k])
    BY <1>1, <1>4, <2>1
  <2>3. h[k + 1] = ValidateNode(h[k], s[k + 1])
    BY <1>2, <2>2 DEF Unfolds, Turn
  <2>4. s[k + 1] \in Live(m)
    BY <1>1, <2>2
  <2> QED
    BY <2>2, <2>3, <2>4, CheckedNode
<1> HIDE DEF A
<1>5. Len(s) \in A
  BY <1>1, <1>3, <1>4, SetInduction
<1>6. Len(s) <= Len(s)
  BY <1>1
<1> QED
  BY <1>2, <1>5, <1>6 DEF A

\* The trees of a list.
LEMMA CheckedTrees ==
  ASSUME NEW m, NEW L, NEW a, Checking(m, L, a), NEW s \in Seq(Nodes), Range(s) \subseteq Live(m)
  PROVE  Checking(m, L, ValidatedTrees(a, s))
<1>1. Len(s) \in Nat /\ Range(s) = {s[i] : i \in 1..Len(s)}
  BY ListFacts
<1>2. PICK h : Unfolds(h, "checks", 0, a, s, Len(s)) /\ ValidatedTrees(a, s) = h[Len(s)]
  BY <1>1, CheckTreeLoop
<1> DEFINE A == {k \in Nat : k <= Len(s) => Checking(m, L, h[k])}
<1>3. 0 \in A
  BY <1>2 DEF Unfolds
<1>4. ASSUME NEW k \in Nat, k \in A PROVE k + 1 \in A
  <2>1. SUFFICES ASSUME k + 1 <= Len(s) PROVE Checking(m, L, h[k + 1])
    OBVIOUS
  <2>2. k + 1 \in 1..Len(s) /\ (k + 1) - 1 = k /\ Checking(m, L, h[k])
    BY <1>1, <1>4, <2>1
  <2>3. h[k + 1] = ValidatedNodes(h[k], Subtree(h[k].mem, s[k + 1]))
    BY <1>2, <2>2 DEF Unfolds, Turn, ValidateTree
  <2>4. s[k + 1] \in Live(m)
    BY <1>1, <2>2
  <2>5. Repr(h[k].mem, L) /\ Live(h[k].mem) = Live(m)
    BY <2>2 DEF Checking, DataDone, SameLinks
  <2>6. /\ Subtree(h[k].mem, s[k + 1]) \in Seq(Nodes)
        /\ Range(Subtree(h[k].mem, s[k + 1])) \subseteq Live(m)
    BY <2>4, <2>5, SubtreeFacts
  <2> QED
    BY <2>2, <2>3, <2>6, CheckedNodes
<1> HIDE DEF A
<1>5. Len(s) \in A
  BY <1>1, <1>3, <1>4, SetInduction
<1>6. Len(s) <= Len(s)
  BY <1>1
<1> QED
  BY <1>2, <1>5, <1>6 DEF A

\* lyd_validate changes no link, whether it succeeds or not.
LEMMA ValidateLinks ==
  ASSUME NEW L, Repr(d, L), NEW n \in Nodes, lyd_validate(n)
  PROVE  DataDone(d, d')
<1>1. n \in Live(d) /\ d \in Mem /\ d' = Validated(d, n).mem
  BY DEF lyd_validate, Repr
<1>2. PICK a : a = [mem |-> d, ok |-> TRUE]
  OBVIOUS
<1>3. a = [mem |-> a.mem, ok |-> a.ok] /\ a.mem = d
  BY <1>2
<1>4. DataDone(d, d)
  BY <1>1, DataRefl
<1>5. Checking(d, L, a)
  BY <1>3, <1>4 DEF Checking
<1>6. Siblings(d, n) \in Seq(Nodes) /\ Range(Siblings(d, n)) \subseteq Live(d)
  BY <1>1, WalksLive
<1>7. Checking(d, L, ValidatedTrees(a, Siblings(d, n)))
  BY <1>5, <1>6, CheckedTrees
<1> QED
  BY <1>1, <1>2, <1>7 DEF Checking, Validated
-----------------------------------------------------------------------------
(* The lists are whole                                                     *)

\* lyd_free_withsiblings frees a list.
FreeListDone(m, L, n, q) ==
  \E s \in L : \E i \in 1..Len(s) : s[i] = n /\ AllDone(m, L, s, q)
LEMMA FreeListRepr ==
  ASSUME NEW L, Repr(d, L), NEW n \in Nodes, lyd_free_withsiblings(n)
  PROVE  FreeListDone(d, L, n, d')
<1>1. n \in Live(d)
  BY DEF lyd_free_withsiblings
<1>2. PICK s \in L : \E i \in 1..Len(s) : s[i] = n
  BY <1>1, ListOf
<1>3. PICK i \in 1..Len(s) : s[i] = n
  BY <1>2
<1>4. /\ s \in Seq(Nodes) /\ DOMAIN s = 1..Len(s) /\ \A j, k \in 1..Len(s) : s[j] = s[k] => j = k
  BY ReprList
<1>5. Siblings(d, n) = s
  BY <1>3, SiblingsList
<1>6. (CHOOSE j \in DOMAIN s : s[j] = n) = i
  BY <1>3, <1>4
<1>7. d' = FreedAll(d, OrderFrom(s, i))
  BY <1>5, <1>6 DEF lyd_free_withsiblings, OrderFrom
<1>8. PICK o : o = OrderFrom(s, i)
  OBVIOUS
<1>9. o \in Seq(Nodes) /\ Range(o) = Range(s) /\ \A j, k \in 1..Len(o) : o[j] = o[k] => j = k
  BY <1>4, <1>8, OrderFacts
<1>10. AllDone(d, L, s, FreedAll(d, o))
  BY <1>9, AllRepr
<1> QED
  BY <1>3, <1>7, <1>8, <1>10 DEF FreeListDone

\* The inductive invariant: the pointers spell lists.
Spelled == \E L : Repr(d, L)

\* Nothing is allocated at the beginning.
LEMMA InitRepr ==
  ASSUME Init
  PROVE  Repr(d, {})
<1>1. d \in Mem
  BY DEF Init, Mem
<1>2. Live(d) = {}
  BY DEF Init, Live
<1> QED
  BY <1>1, <1>2 DEF Repr, Apart, Cover

\* Every call keeps it.
LEMMA NextSpelled ==
  ASSUME Spelled, Next
  PROVE  Spelled'
<1>1. PICK L : Repr(d, L)
  BY DEF Spelled
<1>2. SUFFICES \E K : Repr(d', K)
  BY DEF Spelled
<1>3. d \in Mem
  BY <1>1 DEF Repr
<1>4. ASSUME NEW n \in Nodes, lyd_new(n) PROVE \E K : Repr(d', K)
  <2>1. n \notin Live(d) /\ d' = Alloc(d, n, None) /\ None \in Values \cup {None}
    BY <1>4 DEF lyd_new, Alloc
  <2>2. NewDone(d, L, n, None, d')
    BY <1>1, <2>1, NewRepr
  <2> QED
    BY <2>2 DEF NewDone
<1>5. ASSUME NEW n \in Nodes, lyd_unlink(n) PROVE \E K : Repr(d', K)
  <2>1. n \in Live(d) /\ d' = Unlinked(d, n)
    BY <1>5 DEF lyd_unlink
  <2>2. PICK s \in L : \E i \in 1..Len(s) : s[i] = n
    BY <1>1, <2>1, ListOf
  <2>3. PICK i \in 1..Len(s) : s[i] = n
    BY <2>2
  <2>4. UnlinkDone(d, L, s, i, d')
    BY <1>1, <2>1, <2>3, UnlinkRepr
  <2> QED
    BY <2>4 DEF UnlinkDone
<1>6. ASSUME NEW n \in Nodes, lyd_free(n) PROVE \E K : Repr(d', K)
  <2>1. n \in Live(d) /\ d' = Freed(d, n)
    BY <1>6 DEF lyd_free
  <2>2. PICK s \in L : \E i \in 1..Len(s) : s[i] = n
    BY <1>1, <2>1, ListOf
  <2>3. PICK i \in 1..Len(s) : s[i] = n
    BY <2>2
  <2>4. FreedDone(d, L, s, i, d')
    BY <1>1, <2>1, <2>3, FreedRepr
  <2> QED
    BY <2>4 DEF FreedDone
<1>7. ASSUME NEW n \in Nodes, lyd_free_withsiblings(n) PROVE \E K : Repr(d', K)
  BY <1>1, <1>7, FreeListRepr DEF FreeListDone, AllDone
<1>8. ASSUME NEW n \in Nodes, lyd_validate(n) PROVE \E K : Repr(d', K)
  <2>1. DataDone(d, d')
    BY <1>1, <1>8, ValidateLinks
  <2> QED
    BY <1>1, <2>1, SameLinksRepr DEF DataDone
<1>9. ASSUME NEW n \in Nodes, NEW v \in Values, lyd_change_leaf(n, v) PROVE \E K : Repr(d', K)
  <2>1. DataDone(d, d')
    BY <1>1, <1>9, ChangeLinks
  <2> QED
    BY <1>1, <2>1, SameLinksRepr DEF DataDone
<1>10. ASSUME NEW n \in Nodes, NEW doc \in Docs, NEW v \in Values, lyd_parse_xml(n, doc, v) PROVE \E K : Repr(d', K)
  <2>1. PICK q : q = ParsedMem(d, n, doc, v)
    OBVIOUS
  <2>2. KindOf[n] = "c" /\ ({n} \cup Range(doc)) \cap Live(d) = {} /\ d' = Resolved(q, doc, v)
    BY <1>10, <2>1, ParseParts
  <2>3. ParseDone(d, L, n, doc, q)
    BY <1>1, <2>1, <2>2, ParseRepr
  <2>4. PICK K : Repr(q, K) /\ Range(doc) \subseteq Live(q)
    BY <2>3 DEF ParseDone
  <2>5. SameLinks(q, d')
    BY <2>2, <2>4, ResolvedLinks
  <2> QED
    BY <2>4, <2>5, SameLinksRepr
<1>11. ASSUME NEW n \in Nodes, NEW p \in Link, NEW v \in Values, lyd_new_leaf(p, n, v) PROVE \E K : Repr(d', K)
  <2>1. PICK q : q = Alloc(d, n, v)
    OBVIOUS
  <2>2. /\ n \notin Live(d) /\ KindOf[n] = "t" /\ (p # None => p \in Live(d) /\ KindOf[p] = "c")
        /\ d' = IF p = None THEN q ELSE Inserted(q, p, n)
    BY <1>11, <2>1 DEF lyd_new_leaf, Alloc
  <2>3. NewDone(d, L, n, v, q)
    BY <1>1, <2>1, <2>2, NewRepr
  <2>4. PICK K : Repr(q, K) /\ Live(q) = Live(d) \cup {n}
    BY <2>3 DEF NewDone
  <2>5. CASE p = None
    BY <2>2, <2>4, <2>5
  <2>6. CASE p # None
    <3>1. n \in Live(q) /\ p \in Live(q) /\ KindOf[p] = "c" /\ KindOf[n] # "c" /\ d' = Inserted(q, p, n)
      BY <2>2, <2>4, <2>6
    <3>2. InsertDone(q, K, p, n, d')
      BY <2>4, <3>1, InsertRepr
    <3> QED
      BY <2>4, <3>1, <3>2, InsertLists
  <2> QED
    BY <2>5, <2>6
<1>12. ASSUME NEW n \in Nodes, NEW p \in Nodes, lyd_insert(p, n) PROVE \E K : Repr(d', K)
  <2>1. n \in Live(d) /\ p \in Live(d) /\ KindOf[p] = "c" /\ KindOf[n] # "c" /\ d' = Inserted(d, p, n)
    BY <1>12 DEF lyd_insert
  <2>2. InsertDone(d, L, p, n, d')
    BY <1>1, <2>1, InsertRepr
  <2> QED
    BY <1>1, <2>1, <2>2, InsertLists
<1>13. ASSUME NEW n \in Nodes, NEW sib \in Nodes, NEW before \in BOOLEAN, lyd_insert_sibling(sib, n, before)
       PROVE  \E K : Repr(d', K)
  <2>1. /\ n \in Live(d) /\ sib \in Live(d) /\ sib # n /\ ((KindOf[sib] = "c") <=> (KindOf[n] = "c"))
        /\ d' = InsertedSibling(d, sib, n, before)
    BY <1>13 DEF lyd_insert_sibling
  <2>2. SiblingDone(d, L, sib, n, before, d')
    BY <1>1, <2>1, SiblingRepr
  <2> QED
    BY <2>2 DEF SiblingDone, PlaceDone
<1> QED
  BY <1>4, <1>5, <1>6, <1>7, <1>8, <1>9, <1>10, <1>11, <1>12, <1>13 DEF Next

\* After any sequence of calls that create, insert, move, unlink, free, change,
\* parse and validate nodes, for any number of nodes, the next and prev pointers
\* of every sibling list form a ring, and parents and children agree (tree_data.c).
THEOREM TreeStaysWhole == Spec => []TreeWhole
<1>1. Init => Spelled
  BY InitRepr DEF Spelled
<1>2. Spelled /\ [Next]_vars => Spelled'
  <2>1. Spelled /\ UNCHANGED vars => Spelled'
    BY DEF Spelled, vars
  <2> QED
    BY <2>1, NextSpelled
<1>3. Spelled => TreeWhole
  BY ReprWhole DEF Spelled
<1> QED
  BY <1>1, <1>2, <1>3, PTL DEF Spec
-----------------------------------------------------------------------------
(* Leafrefs lose their pointer with their target                           *)

\* TargetLeaves for one step: a leafref that stays where it is loses its
\* pointer when its target, a sibling, is moved away or freed.
Loses(m, q) ==
  \A s, t \in Nodes :
    /\ RefersTo(m, s, t) /\ s \in Live(q) /\ q[s].parent = m[s].parent
    /\ t \notin Live(q) \/ q[t].parent # m[t].parent
    => q[s].leafref # t

\* Pointers are kept or taken away, but not set.
RefsKept(m, q) ==
  \A y \in Live(q) : q[y].leafref = None \/ (y \in Live(m) /\ q[y].leafref = m[y].leafref)

\* What every call guarantees.
RefsDone(m, q) == Loses(m, q) /\ (RefKinds(m) => RefKinds(q))

\* Pointers that are not set are of the right kinds.
LEMMA KeptKinds ==
  ASSUME NEW m, NEW q, RefsKept(m, q), RefKinds(m)
  PROVE  RefKinds(q)
BY DEF RefsKept, RefKinds

\* Calls after which every node is where it was.
LEMMA StayRefs ==
  ASSUME NEW m, NEW q, \A y \in Live(m) : y \in Live(q) /\ q[y].parent = m[y].parent
  PROVE  Loses(m, q)
BY DEF Loses, RefersTo

\* lyd_free and lyd_free_withsiblings.
LEMMA LeftRefs ==
  ASSUME NEW m, NEW q, Left2(m, q)
  PROVE  RefsDone(m, q)
<1>1. RefsKept(m, q)
  BY DEF Left2, Survive, RefsKept
<1>2. ASSUME NEW s \in Nodes, NEW t \in Nodes, RefersTo(m, s, t), s \in Live(q),
             t \notin Live(q) \/ q[t].parent # m[t].parent
      PROVE  q[s].leafref # t
  <2>1. t \notin Live(q)
    BY <1>2 DEF Left2, Survive
  <2>2. q[s].leafref = None
    BY <1>2, <2>1 DEF Left2, NoDangling
  <2> QED
    BY <2>2, NoneIsNothing
<1> QED
  BY <1>1, <1>2, KeptKinds DEF RefsDone, Loses

\* u is m without node n in its list: leafrefs to n have lost their pointer.
Parting(m, n, u) ==
  /\ Live(u) = Live(m)
  /\ \A y \in Live(m) : y # n => u[y].parent = m[y].parent
  /\ \A y \in Live(m) : u[y].leafref = m[y].leafref \/ u[y].leafref = None
  /\ \A s \in Nodes : RefersTo(m, s, n) => u[s].leafref = None

\* lyd_unlink does that,
LEMMA UnlinkParts ==
  ASSUME NEW m, NEW L, Repr(m, L), NEW s \in L, NEW i \in 1..Len(s), NEW u, UnlinkDone(m, L, s, i, u)
  PROVE  Parting(m, s[i], u)
<1>1. PICK n : n = s[i]
  OBVIOUS
<1>2. /\ Live(u) = Live(m) /\ n \in Live(m)
      /\ \A y \in Live(m) : /\ u[y].parent = IF y = n THEN None ELSE m[y].parent
                            /\ u[y].leafref = IF y \in Losers(m, n) THEN None ELSE m[y].leafref
  BY <1>1 DEF UnlinkDone
<1>3. ASSUME NEW x \in Nodes, RefersTo(m, x, n) PROVE u[x].leafref = None
  <2>1. x \in Losers(m, n)
    BY <1>3, LoserFact
  <2>2. x \in Live(m)
    BY <1>3 DEF RefersTo
  <2> QED
    BY <1>2, <2>1, <2>2
<1> QED
  BY <1>1, <1>2, <1>3 DEF Parting

\* and what is a tree of its own is nobody's sibling.
LEMMA AloneParts ==
  ASSUME NEW m, NEW n, m[n].parent = None
  PROVE  Parting(m, n, m)
BY DEF Parting, RefersTo

\* Then n is put into another list.
LEMMA MovedRefs ==
  ASSUME NEW m, NEW n, NEW u, Parting(m, n, u), NEW q, Live(q) = Live(u),
         \A y \in Live(u) : (y # n => q[y].parent = u[y].parent) /\ q[y].leafref = u[y].leafref
  PROVE  RefsDone(m, q)
<1>1. RefsKept(m, q)
  BY DEF Parting, RefsKept
<1>2. ASSUME NEW s \in Nodes, NEW t \in Nodes, RefersTo(m, s, t), s \in Live(q),
             t \notin Live(q) \/ q[t].parent # m[t].parent
      PROVE  q[s].leafref # t
  <2>1. t \in Live(m) /\ Live(u) = Live(m)
    BY <1>2 DEF RefersTo, Parting
  <2>2. t = n
    BY <1>2, <2>1 DEF Parting
  <2>3. u[s].leafref = None
    BY <1>2, <2>2 DEF Parting
  <2>4. q[s].leafref = None
    BY <1>2, <2>1, <2>3
  <2> QED
    BY <2>4, NoneIsNothing
<1> QED
  BY <1>1, <1>2, KeptKinds DEF RefsDone, Loses

\* A list without a parent gets one.
LEMMA PlainRefs ==
  ASSUME NEW m, NEW L, Repr(m, L), NEW p \in Live(m), NEW t \in L, NEW q, PlainDone(m, L, p, t, q)
  PROVE  /\ Live(q) = Live(m)
         /\ \A y \in Live(m) : /\ q[y].parent = IF y \in Range(t) THEN p ELSE m[y].parent
                               /\ q[y].leafref = m[y].leafref
<1>1. CASE m[p].child = None
  BY <1>1 DEF PlainDone, AdoptDone
<1>2. CASE m[p].child # None
  <2>1. PICK s \in L : m[s[1]].parent = p
    BY <1>2, ChildrenList
  <2> QED
    BY <2>1 DEF PlainDone, JoinDone
<1> QED
  BY <1>1, <1>2

\* lyd_insert.
LEMMA InsertRefs ==
  ASSUME NEW m, NEW L, Repr(m, L), NEW n \in Live(m), NEW p \in Live(m), NEW q, InsertDone(m, L, p, n, q)
  PROVE  RefsDone(m, q)
<1>1. ASSUME NEW t \in L, t[1] = n, m[n].parent = None, PlainDone(m, L, p, t, q)
      PROVE  RefsDone(m, q)
  <2>1. /\ Live(q) = Live(m)
        /\ \A y \in Live(m) : /\ q[y].parent = IF y \in Range(t) THEN p ELSE m[y].parent
                              /\ q[y].leafref = m[y].leafref
    BY <1>1, PlainRefs
  <2>2. \A y \in Range(t) : m[y].parent = None
    <3>1. \A j \in 1..Len(t) : m[t[j]].parent = None
      BY <1>1 DEF Repr, Ring
    <3>2. Range(t) = {t[j] : j \in 1..Len(t)}
      BY ReprList
    <3> QED
      BY <3>1, <3>2
  <2>3. RefsKept(m, q)
    BY <2>1 DEF RefsKept
  <2>4. Loses(m, q)
    BY <2>1, <2>2 DEF Loses, RefersTo
  <2> QED
    BY <2>3, <2>4, KeptKinds DEF RefsDone
<1>2. ASSUME NEW s \in L, NEW i \in 1..Len(s), NEW u, s[i] = n,
             UnlinkDone(m, L, s, i, u), PlainDone(u, Parted(L, s, i), p, <<n>>, q)
      PROVE  RefsDone(m, q)
  <2>1. Parting(m, n, u)
    BY <1>2, UnlinkParts
  <2>2. PICK K : K = Parted(L, s, i)
    OBVIOUS
  <2>3. Repr(u, K) /\ Live(u) = Live(m) /\ <<n>> \in K
    BY <1>2, <2>2 DEF UnlinkDone, Parted
  <2>4. p \in Live(u) /\ PlainDone(u, K, p, <<n>>, q)
    BY <1>2, <2>2, <2>3
  <2>5. /\ Live(q) = Live(u)
        /\ \A y \in Live(u) : /\ q[y].parent = IF y \in Range(<<n>>) THEN p ELSE u[y].parent
                              /\ q[y].leafref = u[y].leafref
    BY <2>3, <2>4, PlainRefs
  <2>6. Range(<<n>>) = {n}
    BY Single
  <2>7. \A y \in Live(u) : (y # n => q[y].parent = u[y].parent) /\ q[y].leafref = u[y].leafref
    BY <2>5, <2>6
  <2> QED
    BY <2>1, <2>5, <2>7, MovedRefs
<1> QED
  BY <1>1, <1>2 DEF InsertDone

\* lyd_insert_before and lyd_insert_after.
LEMMA SiblingRefs ==
  ASSUME NEW m, NEW L, Repr(m, L), NEW n \in Live(m), NEW sib, NEW before, NEW q,
         SiblingDone(m, L, sib, n, before, q)
  PROVE  RefsDone(m, q)
<1>0. PICK s \in L : \E i \in 1..Len(s) : \E u :
        /\ s[i] = n /\ AloneDone(m, L, s, i, u) /\ Repr(u, Parted(L, s, i)) /\ Live(u) = Live(m)
        /\ \E t \in Parted(L, s, i) : \E j \in 1..Len(t) :
             /\ t[j] = sib /\ t # <<n>> /\ j \in Nat
             /\ PlaceDone(u, Parted(L, s, i), t, IF before THEN j ELSE j + 1, n, q)
  BY DEF SiblingDone
<1>1. PICK i \in 1..Len(s) : \E u :
        /\ s[i] = n /\ AloneDone(m, L, s, i, u) /\ Repr(u, Parted(L, s, i)) /\ Live(u) = Live(m)
        /\ \E t \in Parted(L, s, i) : \E j \in 1..Len(t) :
             /\ t[j] = sib /\ t # <<n>> /\ j \in Nat
             /\ PlaceDone(u, Parted(L, s, i), t, IF before THEN j ELSE j + 1, n, q)
  BY <1>0
<1>2. PICK u :
        /\ s[i] = n /\ AloneDone(m, L, s, i, u) /\ Live(u) = Live(m)
        /\ \E t \in Parted(L, s, i) : \E j \in 1..Len(t) :
             PlaceDone(u, Parted(L, s, i), t, IF before THEN j ELSE j + 1, n, q)
  BY <1>1
<1>3. PICK t, k : PlaceDone(u, Parted(L, s, i), t, k, n, q)
  BY <1>2
<1>4. Parting(m, n, u)
  <2>1. CASE UnlinkDone(m, L, s, i, u)
    BY <1>2, <2>1, UnlinkParts
  <2>2. CASE u = m /\ i = 1 /\ m[s[1]].parent = None
    BY <1>2, <2>2, AloneParts
  <2> QED
    BY <1>2, <2>1, <2>2 DEF AloneDone
<1>5. /\ Live(q) = Live(u)
      /\ \A y \in Live(u) : (y # n => q[y].parent = u[y].parent) /\ q[y].leafref = u[y].leafref
  BY <1>3 DEF PlaceDone
<1> QED
  BY <1>4, <1>5, MovedRefs
\* A new node, then another call.
LEMMA GrownRefs ==
  ASSUME NEW m, NEW q, NEW r, RefsDone(q, r),
         \A y \in Live(m) : y \in Live(q) /\ q[y] = m[y], \A y \in Live(q) : y \notin Live(m) => q[y].leafref = None
  PROVE  RefsDone(m, r)
<1>1. \A s, t \in Nodes : RefersTo(m, s, t) => RefersTo(q, s, t)
  BY DEF RefersTo
<1>2. ASSUME NEW s \in Nodes, NEW t \in Nodes, RefersTo(m, s, t), s \in Live(r), r[s].parent = m[s].parent,
             t \notin Live(r) \/ r[t].parent # m[t].parent
      PROVE  r[s].leafref # t
  <2>1. q[s] = m[s] /\ q[t] = m[t]
    BY <1>2 DEF RefersTo
  <2> QED
    BY <1>1, <1>2, <2>1 DEF RefsDone, Loses
<1>3. RefsKept(m, q)
  BY DEF RefsKept
<1>4. RefKinds(m) => RefKinds(q)
  BY <1>3, KeptKinds
<1> QED
  BY <1>2, <1>4 DEF RefsDone, Loses

\* Calls that change no link.
LEMMA DataRefs ==
  ASSUME NEW m, NEW q, DataDone(m, q)
  PROVE  RefsDone(m, q)
<1>1. \A y \in Live(m) : y \in Live(q) /\ q[y].parent = m[y].parent
  BY DEF DataDone, SameLinks
<1> QED
  BY <1>1, StayRefs DEF RefsDone, DataDone

\* lyd_parse_xml.
LEMMA ParseRefs ==
  ASSUME NEW L, Repr(d, L), NEW n \in Nodes, NEW doc \in Docs, NEW v \in Values, lyd_parse_xml(n, doc, v)
  PROVE  RefsDone(d, d')
<1>1. PICK q : q = ParsedMem(d, n, doc, v)
  OBVIOUS
<1>2. KindOf[n] = "c" /\ ({n} \cup Range(doc)) \cap Live(d) = {} /\ d' = Resolved(q, doc, v)
  BY <1>1, ParseParts
<1>3. ParseDone(d, L, n, doc, q)
  BY <1>1, <1>2, ParseRepr
<1>4. PICK K : Repr(q, K)
  BY <1>3 DEF ParseDone
<1>5. /\ Live(q) = Live(d) \cup ({n} \cup Range(doc)) /\ \A y \in Live(d) : q[y] = d[y]
      /\ q[n].leafref = None /\ \A x \in Range(doc) : q[x].leafref = None
  BY <1>3 DEF ParseDone
<1>6. /\ SameLinks(q, d')
      /\ \A x \in Live(q) : d'[x].leafref = IF x \in Range(doc) /\ IsRef(x) THEN Match(q, x, v) ELSE q[x].leafref
  <2>1. Range(doc) \subseteq Live(q)
    BY <1>5
  <2> QED
    BY <1>2, <1>4, <2>1, ResolvedLinks
<1>7. Live(d') = Live(q) /\ \A y \in Live(q) : d'[y].parent = q[y].parent
  BY <1>6 DEF SameLinks
<1>8. Loses(d, d')
  <2>1. \A y \in Live(d) : y \in Live(d') /\ d'[y].parent = d[y].parent
    BY <1>5, <1>7
  <2> QED
    BY <2>1, StayRefs
<1>9. ASSUME RefKinds(d), NEW y \in Live(d'), d'[y].leafref # None
      PROVE  IsRef(y) /\ d'[y].leafref \in Nodes /\ KindOf[d'[y].leafref] = "t"
  <2>1. y \in Live(q)
    BY <1>7
  <2>2. CASE y \in Range(doc) /\ IsRef(y)
    <3>1. d'[y].leafref = Match(q, y, v)
      BY <1>6, <2>1, <2>2
    <3>2. Match(q, y, v) \in Live(q) /\ KindOf[Match(q, y, v)] = "t"
      BY <1>4, <1>9, <2>1, <3>1, MatchFacts
    <3> QED
      BY <2>2, <3>1, <3>2 DEF Live
  <2>3. CASE ~(y \in Range(doc) /\ IsRef(y))
    <3>1. d'[y].leafref = q[y].leafref
      BY <1>6, <2>1, <2>3
    <3>2. y \in Live(d) /\ q[y] = d[y]
      BY <1>5, <1>9, <2>1, <3>1
    <3> QED
      BY <1>9, <3>1, <3>2 DEF RefKinds
  <2> QED
    BY <2>2, <2>3
<1>10. RefKinds(d) => RefKinds(d')
  BY <1>9 DEF RefKinds
<1> QED
  BY <1>8, <1>10 DEF RefsDone

\* Every call.
LEMMA NextRefs ==
  ASSUME NEW L, Repr(d, L), Next
  PROVE  RefsDone(d, d')
<1>4. ASSUME NEW n \in Nodes, lyd_new(n) PROVE RefsDone(d, d')
  <2>1. n \notin Live(d) /\ d' = Alloc(d, n, None) /\ None \in Values \cup {None}
    BY <1>4 DEF lyd_new, Alloc
  <2>2. NewDone(d, L, n, None, d')
    BY <2>1, NewRepr
  <2>3. Live(d') = Live(d) \cup {n} /\ d'[n].leafref = None /\ \A y \in Live(d) : d'[y] = d[y]
    BY <2>2 DEF NewDone, Fresh
  <2>4. RefsKept(d, d') /\ \A y \in Live(d) : y \in Live(d') /\ d'[y].parent = d[y].parent
    BY <2>3 DEF RefsKept
  <2> QED
    BY <2>4, StayRefs, KeptKinds DEF RefsDone
<1>5. ASSUME NEW n \in Nodes, lyd_unlink(n) PROVE RefsDone(d, d')
  <2>1. n \in Live(d) /\ d' = Unlinked(d, n)
    BY <1>5 DEF lyd_unlink
  <2>2. PICK s \in L : \E i \in 1..Len(s) : s[i] = n
    BY <2>1, ListOf
  <2>3. PICK i \in 1..Len(s) : s[i] = n
    BY <2>2
  <2>4. UnlinkDone(d, L, s, i, d')
    BY <2>1, <2>3, UnlinkRepr
  <2>5. Parting(d, n, d')
    BY <2>3, <2>4, UnlinkParts
  <2> QED
    BY <2>5, MovedRefs
<1>6. ASSUME NEW n \in Nodes, lyd_free(n) PROVE RefsDone(d, d')
  <2>1. n \in Live(d) /\ d' = Freed(d, n)
    BY <1>6 DEF lyd_free
  <2>2. PICK s \in L : \E i \in 1..Len(s) : s[i] = n
    BY <2>1, ListOf
  <2>3. PICK i \in 1..Len(s) : s[i] = n
    BY <2>2
  <2>4. FreedDone(d, L, s, i, d')
    BY <2>1, <2>3, FreedRepr
  <2> QED
    BY <2>4, LeftRefs DEF FreedDone
<1>7. ASSUME NEW n \in Nodes, lyd_free_withsiblings(n) PROVE RefsDone(d, d')
  <2>1. FreeListDone(d, L, n, d')
    BY <1>7, FreeListRepr
  <2>2. Left2(d, d')
    BY <2>1 DEF FreeListDone, AllDone
  <2> QED
    BY <2>2, LeftRefs
<1>8. ASSUME NEW n \in Nodes, lyd_validate(n) PROVE RefsDone(d, d')
  BY <1>8, ValidateLinks, DataRefs
<1>9. ASSUME NEW n \in Nodes, NEW v \in Values, lyd_change_leaf(n, v) PROVE RefsDone(d, d')
  BY <1>9, ChangeLinks, DataRefs
<1>10. ASSUME NEW n \in Nodes, NEW doc \in Docs, NEW v \in Values, lyd_parse_xml(n, doc, v) PROVE RefsDone(d, d')
  BY <1>10, ParseRefs
<1>11. ASSUME NEW n \in Nodes, NEW p \in Link, NEW v \in Values, lyd_new_leaf(p, n, v) PROVE RefsDone(d, d')
  <2>1. PICK q : q = Alloc(d, n, v)
    OBVIOUS
  <2>2. /\ n \notin Live(d) /\ KindOf[n] = "t" /\ (p # None => p \in Live(d) /\ KindOf[p] = "c")
        /\ d' = IF p = None THEN q ELSE Inserted(q, p, n)
    BY <1>11, <2>1 DEF lyd_new_leaf, Alloc
  <2>3. NewDone(d, L, n, v, q)
    BY <2>1, <2>2, NewRepr
  <2>4. PICK K : Repr(q, K)
    BY <2>3 DEF NewDone
  <2>5. Live(q) = Live(d) \cup {n} /\ q[n].leafref = None /\ \A y \in Live(d) : q[y] = d[y]
    BY <2>3 DEF NewDone, Fresh
  <2>6. CASE p = None
    <3>1. d' = q
      BY <2>2, <2>6
    <3>2. RefsKept(d, d') /\ \A y \in Live(d) : y \in Live(d') /\ d'[y].parent = d[y].parent
      BY <2>5, <3>1 DEF RefsKept
    <3> QED
      BY <3>2, StayRefs, KeptKinds DEF RefsDone
  <2>7. CASE p # None
    <3>1. n \in Live(q) /\ p \in Live(q) /\ KindOf[p] = "c" /\ KindOf[n] # "c" /\ d' = Inserted(q, p, n)
      BY <2>2, <2>5, <2>7
    <3>2. InsertDone(q, K, p, n, d')
      BY <2>4, <3>1, InsertRepr
    <3>3. RefsDone(q, d')
      BY <2>4, <3>1, <3>2, InsertRefs
    <3>4. /\ \A y \in Live(d) : y \in Live(q) /\ q[y] = d[y]
          /\ \A y \in Live(q) : y \notin Live(d) => q[y].leafref = None
      BY <2>5
    <3> QED
      BY <3>3, <3>4, GrownRefs
  <2> QED
    BY <2>6, <2>7
<1>12. ASSUME NEW n \in Nodes, NEW p \in Nodes, lyd_insert(p, n) PROVE RefsDone(d, d')
  <2>1. n \in Live(d) /\ p \in Live(d) /\ KindOf[p] = "c" /\ KindOf[n] # "c" /\ d' = Inserted(d, p, n)
    BY <1>12 DEF lyd_insert
  <2>2. InsertDone(d, L, p, n, d')
    BY <2>1, InsertRepr
  <2> QED
    BY <2>1, <2>2, InsertRefs
<1>13. ASSUME NEW n \in Nodes, NEW sib \in Nodes, NEW before \in BOOLEAN, lyd_insert_sibling(sib, n, before)
       PROVE  RefsDone(d, d')
  <2>1. /\ n \in Live(d) /\ sib \in Live(d) /\ sib # n /\ ((KindOf[sib] = "c") <=> (KindOf[n] = "c"))
        /\ d' = InsertedSibling(d, sib, n, before)
    BY <1>13 DEF lyd_insert_sibling
  <2>2. SiblingDone(d, L, sib, n, before, d')
    BY <2>1, SiblingRepr
  <2> QED
    BY <2>1, <2>2, SiblingRefs
<1> QED
  BY <1>4, <1>5, <1>6, <1>7, <1>8, <1>9, <1>10, <1>11, <1>12, <1>13 DEF Next

\* The leafref pointers of the reachable states, on top of whole lists.
LEMMA RefKindsKept ==
  ASSUME Spelled, RefKinds(d), [Next]_vars
  PROVE  RefKinds(d')
<1>1. CASE Next
  <2>1. PICK L : Repr(d, L)
    BY DEF Spelled
  <2> QED
    BY <1>1, <2>1, NextRefs DEF RefsDone
<1>2. CASE UNCHANGED vars
  BY <1>2 DEF vars
<1> QED
  BY <1>1, <1>2

\* Where the schema has no leafref leaf-list (for which lyd_get_node2 finds no
\* instances, tree_data.c), lyd_unlink and everything that calls it takes the
\* pointer to a moved or freed target from every leafref that stays beside it:
\* for trees of any size and after any sequence of calls.
THEOREM PointersTaken ==
  ASSUME \A n \in Nodes : KindOf[n] # "m"
  PROVE  Spec => TargetLeaves
<1>1. Init => Spelled /\ RefKinds(d)
  <2>1. Init => Spelled
    BY InitRepr DEF Spelled
  <2>2. Init => RefKinds(d)
    BY DEF Init, RefKinds, Live
  <2> QED
    BY <2>1, <2>2
<1>2. Spelled /\ RefKinds(d) /\ [Next]_vars => Spelled' /\ RefKinds(d)'
  <2>1. Spelled /\ UNCHANGED vars => Spelled'
    BY DEF Spelled, vars
  <2>2. Spelled /\ [Next]_vars => Spelled'
    BY <2>1, NextSpelled
  <2> QED
    BY <2>2, RefKindsKept
<1> DEFINE A == \A s \in Live(d) \cap Live(d') :
                  LET t == d[s].leafref IN
                  /\ t # None /\ d[s].parent # None
                  /\ d'[s].parent = d[s].parent
                  /\ t \in Live(d) /\ d[t].parent = d[s].parent
                  /\ t \notin Live(d') \/ d'[t].parent # d[t].parent
                  => d'[s].leafref # t
<1>3. Spelled /\ RefKinds(d) /\ [Next]_vars => [A]_vars
  <2>1. SUFFICES ASSUME Spelled, RefKinds(d), Next,
                        NEW s \in Live(d) \cap Live(d'), NEW t, t = d[s].leafref,
                        t # None, d[s].parent # None, d'[s].parent = d[s].parent,
                        t \in Live(d), d[t].parent = d[s].parent,
                        t \notin Live(d') \/ d'[t].parent # d[t].parent
                 PROVE  d'[s].leafref # t
    OBVIOUS
  <2>2. PICK L : Repr(d, L)
    BY <2>1 DEF Spelled
  <2>3. Loses(d, d')
    BY <2>1, <2>2, NextRefs DEF RefsDone
  <2>4. IsRef(s) /\ KindOf[t] = "t" /\ t \in Nodes /\ s \in Nodes
    BY <2>1 DEF RefKinds, Live
  <2>5. KindOf[s] = "r"
    BY <2>4 DEF IsRef
  <2>6. RefersTo(d, s, t)
    BY <2>1, <2>4, <2>5 DEF RefersTo
  <2> QED
    BY <2>1, <2>3, <2>4, <2>6 DEF Loses
<1>4. TargetLeaves <=> [][A]_vars
  BY DEF TargetLeaves
<1> HIDE DEF A
<1> QED
  BY <1>1, <1>2, <1>3, <1>4, PTL DEF Spec
-----------------------------------------------------------------------------
(* The pointers implement Forest                                           *)

\* tops and kids of Forest for any memory.
TopsOf(m) == {FollowFrom(m, n) : n \in {x \in Live(m) : m[x].parent = None /\ m[m[x].prev].next = None}}
KidsOf(m) == [n \in Nodes |-> IF n \in Live(m) THEN Children(m, n) ELSE << >>]

\* T are the lists in M that have no parent in m, and K has the others.
View(m, M, T, K) ==
  /\ T = {s \in M : m[s[1]].parent = None}
  /\ K = [p \in Nodes |-> K[p]]
  /\ \A p \in Nodes : K[p] = << >> \/ (K[p] \in M /\ m[K[p][1]].parent = p)
  /\ \A s \in M : m[s[1]].parent # None => m[s[1]].parent \in Nodes /\ K[m[s[1]].parent] = s

\* So are tops and kids of the lists the pointers spell.
LEMMA ViewOf ==
  ASSUME NEW m, NEW L, Repr(m, L)
  PROVE  View(m, L, TopsOf(m), KidsOf(m))
<1>1. ASSUME NEW n \in Live(m), m[n].parent = None, m[m[n].prev].next = None
      PROVE  FollowFrom(m, n) \in L /\ m[FollowFrom(m, n)[1]].parent = None
  <2>1. PICK s \in L : \E i \in 1..Len(s) : s[i] = n
    BY ListOf
  <2>2. PICK i \in 1..Len(s) : s[i] = n
    BY <2>1
  <2>3. /\ Len(s) \in Nat /\ 1 \in 1..Len(s) /\ \A j \in 1..Len(s) : s[j] # None
    BY ReprList
  <2>4. Ring(m, s)
    BY DEF Repr
  <2>5. i = 1
    <3>1. SUFFICES ASSUME i # 1 PROVE FALSE
      OBVIOUS
    <3>2. PICK j \in 1..Len(s) : j = i - 1 /\ j # Len(s) /\ j + 1 = i
      BY <2>3, <3>1
    <3>3. m[n].prev = s[j] /\ m[s[j]].next = s[i]
      BY <2>2, <2>4, <3>1, <3>2 DEF Ring
    <3> QED
      BY <1>1, <2>3, <3>3
  <2>6. FollowFrom(m, s[1]) = s
    BY <2>3, SiblingsList
  <2> QED
    BY <1>1, <2>2, <2>5, <2>6
<1>2. ASSUME NEW s \in L, m[s[1]].parent = None
      PROVE  /\ s[1] \in Live(m) /\ m[s[1]].parent = None /\ m[m[s[1]].prev].next = None
             /\ FollowFrom(m, s[1]) = s
  <2>1. Len(s) \in Nat /\ 1 \in 1..Len(s) /\ Len(s) \in 1..Len(s)
    BY ReprList
  <2>2. Ring(m, s)
    BY DEF Repr
  <2>3. s[1] \in Live(m) /\ m[s[1]].prev = s[Len(s)] /\ m[s[Len(s)]].next = None
    BY <2>1, <2>2 DEF Ring
  <2>4. FollowFrom(m, s[1]) = s
    BY <2>1, SiblingsList
  <2> QED
    BY <1>2, <2>3, <2>4
<1>3. TopsOf(m) = {s \in L : m[s[1]].parent = None}
  <2>1. ASSUME NEW x \in TopsOf(m) PROVE x \in L /\ m[x[1]].parent = None
    <3>1. PICK n \in {y \in Live(m) : m[y].parent = None /\ m[m[y].prev].next = None} : x = FollowFrom(m, n)
      BY DEF TopsOf
    <3>2. n \in Live(m) /\ m[n].parent = None /\ m[m[n].prev].next = None
      BY <3>1
    <3> QED
      BY <1>1, <3>1, <3>2
  <2>2. ASSUME NEW s \in L, m[s[1]].parent = None PROVE s \in TopsOf(m)
    BY <1>2, <2>2 DEF TopsOf
  <2> QED
    BY <2>1, <2>2
<1>4. KidsOf(m) = [p \in Nodes |-> KidsOf(m)[p]]
  BY DEF KidsOf
<1>5. ASSUME NEW p \in Nodes
      PROVE  KidsOf(m)[p] = << >> \/ (KidsOf(m)[p] \in L /\ m[KidsOf(m)[p][1]].parent = p)
  <2>1. CASE p \notin Live(m)
    BY <2>1 DEF KidsOf
  <2>2. CASE p \in Live(m)
    <3>1. KidsOf(m)[p] = Children(m, p)
      BY <2>2 DEF KidsOf
    <3>2. CASE m[p].child = None
      BY <2>2, <3>1, <3>2, ChildrenList
    <3>3. CASE m[p].child # None
      <4>1. PICK s \in L : m[s[1]].parent = p
        BY <2>2, <3>3, ChildrenList
      <4>2. Children(m, p) = s
        BY <2>2, <4>1, ChildrenList
      <4> QED
        BY <3>1, <4>1, <4>2
    <3> QED
      BY <3>2, <3>3
  <2> QED
    BY <2>1, <2>2
<1>6. ASSUME NEW s \in L, m[s[1]].parent # None
      PROVE  m[s[1]].parent \in Nodes /\ KidsOf(m)[m[s[1]].parent] = s
  <2>1. PICK p : p = m[s[1]].parent
    OBVIOUS
  <2>2. p \in Live(m) /\ p \in Nodes
    BY <1>6, <2>1 DEF Repr, OwnList, Live
  <2>3. Children(m, p) = s
    BY <2>1, <2>2, ChildrenList
  <2> QED
    BY <2>1, <2>2, <2>3 DEF KidsOf
<1> QED
  BY <1>3, <1>4, <1>5, <1>6 DEF View

\* There is one view of the lists.
LEMMA OneView ==
  ASSUME NEW m, NEW M, NEW T, NEW K, NEW T2, NEW K2, View(m, M, T, K), View(m, M, T2, K2), << >> \notin M,
         \A p \in Nodes : p # None
  PROVE  T = T2 /\ K = K2
<1>1. T = T2
  BY DEF View
<1>2. ASSUME NEW p \in Nodes PROVE K[p] = K2[p]
  <2>1. CASE K[p] # << >>
    <3>1. K[p] \in M /\ m[K[p][1]].parent = p
      BY <2>1 DEF View
    <3>2. m[K[p][1]].parent # None
      BY <3>1
    <3>3. K2[m[K[p][1]].parent] = K[p]
      BY <3>1, <3>2 DEF View
    <3> QED
      BY <3>1, <3>3
  <2>2. CASE K2[p] # << >>
    <3>1. K2[p] \in M /\ m[K2[p][1]].parent = p
      BY <2>2 DEF View
    <3>2. m[K2[p][1]].parent # None
      BY <3>1
    <3>3. K[m[K2[p][1]].parent] = K2[p]
      BY <3>1, <3>2 DEF View
    <3> QED
      BY <3>1, <3>3
  <2>3. CASE K[p] = << >> /\ K2[p] = << >>
    BY <2>3
  <2> QED
    BY <2>1, <2>2, <2>3
<1>3. K = [p \in Nodes |-> K[p]] /\ K2 = [p \in Nodes |-> K2[p]]
  BY DEF View
<1> QED
  BY <1>1, <1>2, <1>3

\* So what is a view of the lists is tops and kids.
LEMMA ViewIs ==
  ASSUME NEW m, NEW L, Repr(m, L), NEW T, NEW K, View(m, L, T, K)
  PROVE  TopsOf(m) = T /\ KidsOf(m) = K
<1>1. View(m, L, TopsOf(m), KidsOf(m))
  BY ViewOf
<1>2. << >> \notin L /\ \A p \in Nodes : p # None
  BY NoneIsNothing DEF Repr
<1> QED
  BY <1>1, <1>2, OneView

\* The nodes in the lists are the ones that are allocated.
PlacedOf(T, K) == UNION {Range(s) : s \in T \cup {K[p] : p \in Nodes}}
LEMMA PlacedLive ==
  ASSUME NEW m, NEW L, Repr(m, L), NEW T, NEW K, View(m, L, T, K)
  PROVE  PlacedOf(T, K) = Live(m)
<1>1. ASSUME NEW x \in PlacedOf(T, K) PROVE x \in Live(m)
  <2>1. PICK s \in T \cup {K[p] : p \in Nodes} : x \in Range(s)
    BY DEF PlacedOf
  <2>2. s # << >>
    BY <2>1, EmptyList
  <2>3. s \in L
    BY <2>2 DEF View
  <2> QED
    BY <2>1, <2>3, ReprList
<1>2. ASSUME NEW x \in Live(m) PROVE x \in PlacedOf(T, K)
  <2>1. PICK s \in L : \E i \in 1..Len(s) : s[i] = x
    BY ListOf
  <2>2. x \in Range(s)
    BY <2>1, ReprList
  <2>3. s \in T \cup {K[p] : p \in Nodes}
    <3>1. CASE m[s[1]].parent = None
      BY <3>1 DEF View
    <3>2. CASE m[s[1]].parent # None
      BY <3>2 DEF View
    <3> QED
      BY <3>1, <3>2
  <2> QED
    BY <2>2, <2>3 DEF PlacedOf
<1> QED
  BY <1>1, <1>2

\* Lists are changed or removed: list t becomes f[t].
LEMMA ViewMap ==
  ASSUME NEW m, NEW M, NEW T, NEW K, View(m, M, T, K), NEW q, NEW f, f[<< >>] = << >>,
         \A t \in M : f[t] # << >> => q[f[t][1]].parent = m[t[1]].parent
  PROVE  View(q, {f[t] : t \in M} \ {<< >>}, {f[t] : t \in T} \ {<< >>}, [p \in Nodes |-> f[K[p]]])
<1>1. PICK N, S, J : N = {f[t] : t \in M} \ {<< >>} /\ S = {f[t] : t \in T} \ {<< >>} /\ J = [p \in Nodes |-> f[K[p]]]
  OBVIOUS
<1>2. S = {s \in N : q[s[1]].parent = None}
  <2>1. ASSUME NEW s \in S PROVE s \in N /\ q[s[1]].parent = None
    BY <1>1 DEF View
  <2>2. ASSUME NEW s \in N, q[s[1]].parent = None PROVE s \in S
    <3>1. PICK t \in M : s = f[t] /\ f[t] # << >>
      BY <1>1
    <3>2. m[t[1]].parent = None
      BY <2>2, <3>1
    <3>3. t \in T
      BY <3>2 DEF View
    <3> QED
      BY <1>1, <3>1, <3>3
  <2> QED
    BY <2>1, <2>2
<1>3. J = [p \in Nodes |-> J[p]]
  BY <1>1
<1>4. ASSUME NEW p \in Nodes PROVE J[p] = << >> \/ (J[p] \in N /\ q[J[p][1]].parent = p)
  <2>1. J[p] = f[K[p]]
    BY <1>1
  <2>2. CASE K[p] = << >>
    BY <2>1, <2>2
  <2>3. CASE K[p] # << >> /\ J[p] # << >>
    <3>1. K[p] \in M /\ m[K[p][1]].parent = p
      BY <2>3 DEF View
    <3> QED
      BY <1>1, <2>1, <2>3, <3>1
  <2> QED
    BY <2>2, <2>3
<1>5. ASSUME NEW s \in N, q[s[1]].parent # None
      PROVE  q[s[1]].parent \in Nodes /\ J[q[s[1]].parent] = s
  <2>1. PICK t \in M : s = f[t] /\ f[t] # << >>
    BY <1>1
  <2>2. m[t[1]].parent = q[s[1]].parent
    BY <2>1
  <2>3. m[t[1]].parent \in Nodes /\ K[m[t[1]].parent] = t
    BY <1>5, <2>2 DEF View
  <2> QED
    BY <1>1, <2>1, <2>2, <2>3
<1>6. View(q, N, S, J)
  BY <1>2, <1>3, <1>4, <1>5 DEF View
<1> QED
  BY <1>1, <1>6

\* A list without a parent is new.
LEMMA ViewTop ==
  ASSUME NEW m, NEW M, NEW T, NEW K, View(m, M, T, K), NEW q, NEW x, q[x[1]].parent = None,
         \A s \in M : q[s[1]].parent = m[s[1]].parent
  PROVE  View(q, M \cup {x}, T \cup {x}, K)
<1>1. T \cup {x} = {s \in M \cup {x} : q[s[1]].parent = None}
  BY DEF View
<1>2. K = [p \in Nodes |-> K[p]]
  BY DEF View
<1>3. \A p \in Nodes : K[p] = << >> \/ (K[p] \in M \cup {x} /\ q[K[p][1]].parent = p)
  BY DEF View
<1>4. \A s \in M \cup {x} : q[s[1]].parent # None => q[s[1]].parent \in Nodes /\ K[q[s[1]].parent] = s
  BY DEF View
<1> QED
  BY <1>1, <1>2, <1>3, <1>4 DEF View

\* A list of children is new.
LEMMA ViewKids ==
  ASSUME NEW m, NEW M, NEW T, NEW K, View(m, M, T, K), NEW q, NEW x, NEW p \in Nodes, p # None,
         q[x[1]].parent = p, K[p] = << >>, << >> \notin M,
         \A s \in M : q[s[1]].parent = m[s[1]].parent
  PROVE  View(q, M \cup {x}, T, [K EXCEPT ![p] = x])
<1>1. PICK J : J = [K EXCEPT ![p] = x]
  OBVIOUS
<1>2. K = [y \in Nodes |-> K[y]]
  BY DEF View
<1>3. J = [y \in Nodes |-> J[y]] /\ J[p] = x /\ \A y \in Nodes : y # p => J[y] = K[y]
  BY <1>1, <1>2
<1>4. T = {s \in M \cup {x} : q[s[1]].parent = None}
  BY DEF View
<1>5. \A y \in Nodes : J[y] = << >> \/ (J[y] \in M \cup {x} /\ q[J[y][1]].parent = y)
  BY <1>3 DEF View
<1>6. ASSUME NEW s \in M \cup {x}, q[s[1]].parent # None
      PROVE  q[s[1]].parent \in Nodes /\ J[q[s[1]].parent] = s
  <2>1. CASE s = x
    BY <1>3, <2>1
  <2>2. CASE s \in M
    <3>1. m[s[1]].parent \in Nodes /\ K[m[s[1]].parent] = s /\ q[s[1]].parent = m[s[1]].parent
      BY <1>6, <2>2 DEF View
    <3>2. m[s[1]].parent # p
      BY <2>2, <3>1
    <3> QED
      BY <1>3, <3>1, <3>2
  <2> QED
    BY <2>1, <2>2
<1>7. View(q, M \cup {x}, T, J)
  BY <1>3, <1>4, <1>5, <1>6 DEF View
<1> QED
  BY <1>1, <1>7
\* The operators of Forest on one list: the position of a node, the list
\* without it, and with n next to it.
Where(s, n) == CHOOSE i \in DOMAIN s : s[i] = n
Cut(s, n) == IF n \in Range(s) THEN RemoveAt(s, Where(s, n)) ELSE s
Ahead(s, sib, n) == IF sib \in Range(s) THEN InsertAt(s, Where(s, sib), n) ELSE s
Behind(s, sib, n) == IF sib \in Range(s) THEN InsertAt(s, Where(s, sib) + 1, n) ELSE s
TopsCut(T, n) == {Cut(s, n) : s \in T} \ {<< >>}
KidsCut(K, n) == [p \in Nodes |-> Cut(K[p], n)]

\* Two parts of a list.
LEMMA PartFacts ==
  ASSUME NEW S, NEW s \in Seq(S), NEW a \in Nat, NEW b \in Nat, b <= Len(s), 1 <= a, a <= b + 1
  PROVE  /\ SubSeq(s, a, b) \in Seq(S) /\ Len(SubSeq(s, a, b)) = b + 1 - a
         /\ \A j \in 1..(b + 1 - a) : SubSeq(s, a, b)[j] = s[a + j - 1]
<1>1. Len(s) \in Nat /\ \A j \in 1..Len(s) : s[j] \in S
  BY ListFacts
<1>2. \A j \in a..b : j \in 1..Len(s)
  BY <1>1
<1>3. \A j \in a..b : s[j] \in S
  BY <1>1, <1>2
<1>4. /\ SubSeq(s, a, b) \in Seq(S) /\ Len(SubSeq(s, a, b)) = IF a <= b THEN b - a + 1 ELSE 0
      /\ \A j \in 1..(b - a + 1) : SubSeq(s, a, b)[j] = s[a + j - 1]
  BY <1>3, SubSeqProperties
<1>5. b - a + 1 = b + 1 - a /\ (~(a <= b) => b + 1 - a = 0)
  OBVIOUS
<1> QED
  BY <1>4, <1>5

\* RemoveAt of the list module drops the node at a position.
LEMMA RemoveIsDrop ==
  ASSUME NEW S, NEW s \in Seq(S), NEW i \in 1..Len(s)
  PROVE  RemoveAt(s, i) = Drop(s, i)
<1>1. PICK l \in Nat : l = Len(s)
  BY ListFacts
<1>2. PICK a, b : a = SubSeq(s, 1, i - 1) /\ b = SubSeq(s, i + 1, l)
  OBVIOUS
<1>3. i \in 1..l /\ i - 1 \in Nat /\ i + 1 \in Nat /\ i - 1 <= l /\ 1 <= (i - 1) + 1 /\ 1 <= i + 1 /\ i + 1 <= l + 1
  BY <1>1
<1>4. a \in Seq(S) /\ Len(a) = i - 1 /\ \A j \in 1..(i - 1) : a[j] = s[j]
  <2>1. /\ a \in Seq(S) /\ Len(a) = (i - 1) + 1 - 1
        /\ \A j \in 1..((i - 1) + 1 - 1) : a[j] = s[1 + j - 1]
    BY <1>1, <1>2, <1>3, PartFacts
  <2>2. (i - 1) + 1 - 1 = i - 1 /\ \A j \in 1..(i - 1) : 1 + j - 1 = j
    BY <1>3
  <2> QED
    BY <2>1, <2>2
<1>5. b \in Seq(S) /\ Len(b) = l - i /\ \A j \in 1..(l - i) : b[j] = s[i + j]
  <2>1. /\ b \in Seq(S) /\ Len(b) = l + 1 - (i + 1)
        /\ \A j \in 1..(l + 1 - (i + 1)) : b[j] = s[(i + 1) + j - 1]
    BY <1>1, <1>2, <1>3, PartFacts
  <2>2. l + 1 - (i + 1) = l - i /\ \A j \in 1..(l - i) : (i + 1) + j - 1 = i + j
    BY <1>3
  <2> QED
    BY <2>1, <2>2
<1>6. /\ a \o b \in Seq(S) /\ Len(a \o b) = Len(a) + Len(b)
      /\ \A j \in 1..(Len(a) + Len(b)) : (a \o b)[j] = IF j <= Len(a) THEN a[j] ELSE b[j - Len(a)]
  <2>1. a \in Seq(S) /\ b \in Seq(S)
    BY <1>4, <1>5
  <2> QED
    BY <2>1, ConcatProperties
<1>7. /\ Drop(s, i) \in Seq(S) /\ Len(Drop(s, i)) = l - 1
      /\ \A j \in 1..(l - 1) : Drop(s, i)[j] = s[Skip(i, j)]
  BY <1>1, DropFacts
<1>8. Len(a) + Len(b) = l - 1
  BY <1>3, <1>4, <1>5
<1>9. ASSUME NEW j \in 1..(l - 1) PROVE (a \o b)[j] = Drop(s, i)[j]
  <2>1. (a \o b)[j] = IF j <= i - 1 THEN a[j] ELSE b[j - (i - 1)]
    BY <1>4, <1>6, <1>8
  <2>2. CASE j <= i - 1
    <3>1. j \in 1..(i - 1) /\ j < i
      BY <1>3, <2>2
    <3> QED
      BY <1>4, <1>7, <2>1, <2>2, <3>1 DEF Skip
  <2>3. CASE ~(j <= i - 1)
    <3>1. j - (i - 1) \in 1..(l - i) /\ i + (j - (i - 1)) = j + 1 /\ ~(j < i)
      BY <1>3, <2>3
    <3>2. b[j - (i - 1)] = s[i + (j - (i - 1))]
      BY <1>5, <3>1
    <3>3. b[j - (i - 1)] = s[j + 1]
      BY <3>1, <3>2
    <3> QED
      BY <1>7, <2>1, <2>3, <3>1, <3>3 DEF Skip
  <2> QED
    BY <2>2, <2>3
<1>10. a \o b = Drop(s, i)
  BY <1>6, <1>7, <1>8, <1>9, SeqEqual
<1> QED
  BY <1>1, <1>2, <1>10 DEF RemoveAt

\* InsertAt puts it there.
LEMMA InsertIsGrow ==
  ASSUME NEW S, NEW s \in Seq(S), NEW n \in S, NEW k \in 1..(Len(s) + 1)
  PROVE  InsertAt(s, k, n) = Grow(s, k, n)
<1>1. PICK l \in Nat : l = Len(s)
  BY ListFacts
<1>2. PICK a, b, c : a = SubSeq(s, 1, k - 1) /\ b = <<n>> /\ c = SubSeq(s, k, l)
  OBVIOUS
<1>3. k \in 1..(l + 1) /\ k \in Nat /\ k - 1 \in Nat /\ k - 1 <= l /\ 1 <= (k - 1) + 1 /\ 1 <= k /\ k <= l + 1
  BY <1>1
<1>4. a \in Seq(S) /\ Len(a) = k - 1 /\ \A j \in 1..(k - 1) : a[j] = s[j]
  <2>1. /\ a \in Seq(S) /\ Len(a) = (k - 1) + 1 - 1
        /\ \A j \in 1..((k - 1) + 1 - 1) : a[j] = s[1 + j - 1]
    BY <1>1, <1>2, <1>3, PartFacts
  <2>2. (k - 1) + 1 - 1 = k - 1 /\ \A j \in 1..(k - 1) : 1 + j - 1 = j
    BY <1>3
  <2> QED
    BY <2>1, <2>2
<1>5. b \in Seq(S) /\ Len(b) = 1 /\ b[1] = n
  BY <1>2, Single
<1>6. c \in Seq(S) /\ Len(c) = l + 1 - k /\ \A j \in 1..(l + 1 - k) : c[j] = s[k + j - 1]
  BY <1>1, <1>2, <1>3, PartFacts
<1>7. PICK e : e = a \o b
  OBVIOUS
<1>8. /\ e \in Seq(S) /\ Len(e) = Len(a) + Len(b)
      /\ \A j \in 1..(Len(a) + Len(b)) : e[j] = IF j <= Len(a) THEN a[j] ELSE b[j - Len(a)]
  <2>1. a \in Seq(S) /\ b \in Seq(S)
    BY <1>4, <1>5
  <2> QED
    BY <1>7, <2>1, ConcatProperties
<1>9. Len(a) + Len(b) = k /\ Len(e) = k
  BY <1>3, <1>4, <1>5, <1>8
<1>10. e[k] = n /\ \A j \in 1..(k - 1) : e[j] = s[j]
  <2>1. k \in 1..k /\ ~(k <= k - 1) /\ k - (k - 1) = 1
    BY <1>3
  <2>2. \A j \in 1..(k - 1) : j \in 1..k /\ j <= k - 1
    BY <1>3
  <2>3. e[k] = b[k - (k - 1)]
    BY <1>4, <1>8, <1>9, <2>1
  <2> QED
    BY <1>4, <1>5, <1>8, <1>9, <2>1, <2>2, <2>3
<1>11. /\ e \o c \in Seq(S) /\ Len(e \o c) = Len(e) + Len(c)
       /\ \A j \in 1..(Len(e) + Len(c)) : (e \o c)[j] = IF j <= Len(e) THEN e[j] ELSE c[j - Len(e)]
  <2>1. e \in Seq(S) /\ c \in Seq(S)
    BY <1>6, <1>8
  <2> QED
    BY <2>1, ConcatProperties
<1>12. /\ Grow(s, k, n) \in Seq(S) /\ Len(Grow(s, k, n)) = l + 1
       /\ \A j \in 1..(l + 1) : Grow(s, k, n)[j] = IF j < k THEN s[j] ELSE IF j = k THEN n ELSE s[j - 1]
  BY <1>1, GrowFacts DEF Grow
<1>13. Len(e) + Len(c) = l + 1
  BY <1>3, <1>6, <1>9
<1>14. ASSUME NEW j \in 1..(l + 1) PROVE (e \o c)[j] = Grow(s, k, n)[j]
  <2>1. (e \o c)[j] = IF j <= k THEN e[j] ELSE c[j - k]
    BY <1>9, <1>11, <1>13
  <2>2. CASE j < k
    <3>1. j \in 1..(k - 1) /\ j <= k
      BY <1>3, <2>2
    <3> QED
      BY <1>10, <1>12, <2>1, <2>2, <3>1
  <2>3. CASE j = k
    <3>1. j <= k /\ ~(j < k)
      BY <1>3, <2>3
    <3> QED
      BY <1>10, <1>12, <2>1, <2>3, <3>1
  <2>4. CASE j > k
    <3>1. j - k \in 1..(l + 1 - k) /\ k + (j - k) - 1 = j - 1 /\ ~(j <= k) /\ ~(j < k) /\ j # k
      BY <1>3, <2>4
    <3>2. c[j - k] = s[k + (j - k) - 1]
      BY <1>6, <3>1
    <3>3. c[j - k] = s[j - 1]
      BY <3>1, <3>2
    <3> QED
      BY <1>12, <2>1, <3>1, <3>3
  <2>5. j < k \/ j = k \/ j > k
    BY <1>3
  <2> QED
    BY <2>2, <2>3, <2>4, <2>5
<1>15. e \o c = Grow(s, k, n)
  BY <1>11, <1>12, <1>13, <1>14, SeqEqual
<1> QED
  BY <1>1, <1>2, <1>7, <1>15 DEF InsertAt

\* Out and Before and After in the lists of a memory: they change the list that
\* has the node, and no other.
LEMMA CutFacts ==
  ASSUME NEW m, NEW L, Repr(m, L), NEW s \in L, NEW i \in 1..Len(s), NEW n, n = s[i]
  PROVE  /\ Cut(s, n) = Drop(s, i) /\ Where(s, n) = i
         /\ \A t \in L : t # s => n \notin Range(t) /\ Cut(t, n) = t
         /\ Cut(<< >>, n) = << >>
<1>1. /\ s \in Seq(Nodes) /\ DOMAIN s = 1..Len(s) /\ Range(s) = {s[j] : j \in 1..Len(s)}
      /\ \A j, k \in 1..Len(s) : s[j] = s[k] => j = k
  BY ReprList
<1>2. Where(s, n) = i
  BY <1>1 DEF Where
<1>3. n \in Range(s)
  BY <1>1
<1>4. RemoveAt(s, i) = Drop(s, i)
  BY <1>1, RemoveIsDrop
<1>5. ASSUME NEW t \in L, t # s PROVE n \notin Range(t)
  <2>1. Range(t) = {t[j] : j \in 1..Len(t)}
    BY ReprList
  <2>2. \A j \in 1..Len(t) : t[j] # n
    BY <1>5 DEF Repr, Apart
  <2> QED
    BY <2>1, <2>2
<1>6. n \notin Range(<< >>)
  BY EmptyList
<1> QED
  BY <1>2, <1>3, <1>4, <1>5, <1>6 DEF Cut

\* The list is empty without its last node.
LEMMA DropEmpty ==
  ASSUME NEW S, NEW s \in Seq(S), NEW i \in 1..Len(s)
  PROVE  Drop(s, i) = << >> <=> Len(s) = 1
<1>1. Drop(s, i) \in Seq(S) /\ Len(Drop(s, i)) = Len(s) - 1 /\ Len(s) \in Nat
  BY DropFacts
<1>2. Drop(s, i) # << >> <=> Len(Drop(s, i)) > 0
  BY <1>1, ListFacts
<1>3. PICK l \in Nat, k \in Nat : l = Len(s) /\ k = Len(Drop(s, i)) /\ k = l - 1
  BY <1>1, ListFacts
<1> QED
  BY <1>2, <1>3
\* The node n of the list s is taken out and the lists in X disappear.
CutKids(K, X, n) == [p \in Nodes |-> IF K[p] \in X THEN << >> ELSE Cut(K[p], n)]
Staying(m, L, n, u) == \A t \in L : \A j \in 1..Len(t) : t[j] # n => u[t[j]].parent = m[t[1]].parent
LEMMA CutView ==
  ASSUME NEW m, NEW L, Repr(m, L), NEW T, NEW K, View(m, L, T, K),
         NEW s \in L, NEW i \in 1..Len(s), NEW n, n = s[i], NEW X, s \notin X, << >> \notin X, NEW u,
         Staying(m, L \ X, n, u)
  PROVE  View(u, ((L \ X) \ {s}) \cup Rest(s, i), TopsCut(T \ X, n), CutKids(K, X, n))
<1>1. PICK f : f = [t \in L \cup {<< >>} |-> IF t \in X THEN << >> ELSE Cut(t, n)]
  OBVIOUS
<1>2. /\ Cut(s, n) = Drop(s, i) /\ Cut(<< >>, n) = << >>
      /\ \A t \in L : t # s => n \notin Range(t) /\ Cut(t, n) = t
  BY CutFacts
<1>3. /\ s \in Seq(Nodes) /\ \A j, k \in 1..Len(s) : s[j] = s[k] => j = k
  BY ReprList
<1>4. (Drop(s, i) = << >> <=> Len(s) = 1) /\ << >> \notin L
  BY <1>3, DropEmpty DEF Repr
<1>5. f[<< >>] = << >> /\ f[s] = Drop(s, i) /\ \A t \in L : t # s => f[t] = IF t \in X THEN << >> ELSE t
  BY <1>1, <1>2
<1>6. ASSUME NEW t \in L, f[t] # << >> PROVE u[f[t][1]].parent = m[t[1]].parent
  <2>1. CASE t # s
    <3>1. f[t] = t /\ t \in L \ X
      BY <1>5, <1>6, <2>1
    <3>2. 1 \in 1..Len(t) /\ t[1] # n
      BY <2>1, ReprList DEF Repr, Apart
    <3> QED
      BY <3>1, <3>2 DEF Staying
  <2>2. CASE t = s
    <3>1. Len(s) \in Nat /\ Len(s) # 1 /\ Len(s) > 0
      BY <1>4, <1>5, <1>6, <2>2, ReprList
    <3>a. PICK l \in Nat : l = Len(s) /\ l # 1 /\ l > 0
      BY <3>1
    <3>b. 1 \in 1..(l - 1)
      BY <3>a
    <3>2. 1 \in 1..(Len(s) - 1)
      BY <3>a, <3>b
    <3>3. f[t][1] = s[Skip(i, 1)] /\ Skip(i, 1) \in 1..Len(s) /\ Skip(i, 1) # i
      BY <1>3, <1>5, <2>2, <3>2, DropFacts
    <3>4. s[Skip(i, 1)] # n /\ s \in L \ X
      BY <1>3, <3>3
    <3> QED
      BY <2>2, <3>3, <3>4 DEF Staying
  <2> QED
    BY <2>1, <2>2
<1>7. View(u, {f[t] : t \in L} \ {<< >>}, {f[t] : t \in T} \ {<< >>}, [p \in Nodes |-> f[K[p]]])
  BY <1>5, <1>6, ViewMap
<1>8. {f[t] : t \in L} \ {<< >>} = ((L \ X) \ {s}) \cup Rest(s, i)
  <2>1. ASSUME NEW x \in {f[t] : t \in L}, x # << >> PROVE x \in ((L \ X) \ {s}) \cup Rest(s, i)
    <3>1. PICK t \in L : x = f[t]
      OBVIOUS
    <3>2. CASE t = s
      BY <1>4, <1>5, <2>1, <3>1, <3>2 DEF Rest
    <3>3. CASE t # s
      BY <1>5, <2>1, <3>1, <3>3
    <3> QED
      BY <3>2, <3>3
  <2>2. ASSUME NEW x \in (L \ X) \ {s} PROVE x \in {f[t] : t \in L} /\ x # << >>
    BY <1>4, <1>5
  <2>3. ASSUME NEW x \in Rest(s, i) PROVE x \in {f[t] : t \in L} /\ x # << >>
    <3>1. x = f[s] /\ x # << >>
      BY <1>4, <1>5 DEF Rest
    <3> QED
      BY <3>1
  <2> QED
    BY <2>1, <2>2, <2>3
<1>9. {f[t] : t \in T} \ {<< >>} = TopsCut(T \ X, n)
  <2>1. T \subseteq L
    BY DEF View
  <2>2. \A t \in T : f[t] = IF t \in X THEN << >> ELSE Cut(t, n)
    BY <1>1, <2>1
  <2> QED
    BY <2>2 DEF TopsCut
<1>10. [p \in Nodes |-> f[K[p]]] = CutKids(K, X, n)
  <2>1. \A p \in Nodes : K[p] \in L \cup {<< >>}
    BY DEF View
  <2>2. \A p \in Nodes : f[K[p]] = IF K[p] \in X THEN << >> ELSE Cut(K[p], n)
    BY <1>1, <2>1
  <2> QED
    BY <2>2 DEF CutKids
<1> QED
  BY <1>7, <1>8, <1>9, <1>10

\* lyd_unlink: what is left when n, which is alone now, is not counted.
LEMMA PartView ==
  ASSUME NEW m, NEW L, Repr(m, L), NEW T, NEW K, View(m, L, T, K),
         NEW s \in L, NEW i \in 1..Len(s), NEW n, n = s[i], NEW u, \A y \in Live(m) : y # n => u[y].parent = m[y].parent
  PROVE  View(u, (L \ {s}) \cup Rest(s, i), TopsCut(T, n), KidsCut(K, n))
<1>1. PICK X : X = {}
  OBVIOUS
<1>2. s \notin X /\ << >> \notin X /\ L \ X = L /\ T \ X = T
  BY <1>1
<1>3. Staying(m, L \ X, n, u)
  <2>1. SUFFICES ASSUME NEW t \in L, NEW j \in 1..Len(t), t[j] # n PROVE u[t[j]].parent = m[t[1]].parent
    BY <1>2 DEF Staying
  <2>2. t[j] \in Live(m) /\ m[t[j]].parent = m[t[1]].parent
    BY DEF Repr, Ring
  <2> QED
    BY <2>1, <2>2
<1>4. View(u, ((L \ X) \ {s}) \cup Rest(s, i), TopsCut(T \ X, n), CutKids(K, X, n))
  BY <1>2, <1>3, CutView
<1>5. CutKids(K, X, n) = KidsCut(K, n)
  BY <1>1 DEF KidsCut, CutKids
<1> QED
  BY <1>2, <1>4, <1>5

\* And with n.
LEMMA UnlinkView ==
  ASSUME NEW m, NEW L, Repr(m, L), NEW T, NEW K, View(m, L, T, K),
         NEW s \in L, NEW i \in 1..Len(s), NEW n, n = s[i], NEW u, \A y \in Live(m) : y # n => u[y].parent = m[y].parent,
         u[n].parent = None
  PROVE  View(u, Parted(L, s, i), TopsCut(T, n) \cup {<<n>>}, KidsCut(K, n))
<1>1. View(u, (L \ {s}) \cup Rest(s, i), TopsCut(T, n), KidsCut(K, n))
  BY PartView
<1>2. <<n>>[1] = n
  OBVIOUS
<1>3. View(u, ((L \ {s}) \cup Rest(s, i)) \cup {<<n>>}, TopsCut(T, n) \cup {<<n>>}, KidsCut(K, n))
  BY <1>1, <1>2, ViewTop
<1>4. ((L \ {s}) \cup Rest(s, i)) \cup {<<n>>} = Parted(L, s, i)
  BY DEF Parted
<1> QED
  BY <1>3, <1>4

\* lyd_free.
LEMMA FreeView ==
  ASSUME NEW m, NEW L, Repr(m, L), NEW T, NEW K, View(m, L, T, K),
         NEW s \in L, NEW i \in 1..Len(s), NEW n, n = s[i], NEW q, FreedDone(m, L, s, i, q)
  PROVE  /\ Repr(q, (Childless(m, L, n) \ {s}) \cup Rest(s, i))
         /\ View(q, (Childless(m, L, n) \ {s}) \cup Rest(s, i), TopsCut(T, n), [KidsCut(K, n) EXCEPT ![n] = << >>])
<1>1. /\ Repr(q, (Childless(m, L, n) \ {s}) \cup Rest(s, i)) /\ Survive(m, q)
      /\ Live(q) = Live(m) \ ({n} \cup Range(Children(m, n)))
  BY DEF FreedDone, Left2
<1>2. PICK X : X = {t \in L : m[t[1]].parent = n}
  OBVIOUS
<1>3. n \in Live(m) /\ n \in Nodes /\ n # None
  BY ReprList
<1>4. s \notin X
  <2>1. SUFFICES ASSUME m[s[1]].parent = n PROVE FALSE
    BY <1>2
  <2>2. KindOf[n] = "c" /\ KindOf[s[1]] # "c"
    BY <1>3, <2>1 DEF Repr, OwnList
  <2>3. (KindOf[n] = "c") <=> (KindOf[s[1]] = "c")
    BY DEF Repr, Ring
  <2> QED
    BY <2>2, <2>3
<1>5. ASSUME NEW t \in L \ X, NEW j \in 1..Len(t), t[j] # n PROVE q[t[j]].parent = m[t[1]].parent
  <2>1. t[j] \in Live(m) /\ m[t[j]].parent = m[t[1]].parent
    BY DEF Repr, Ring
  <2>2. t[j] \notin Range(Children(m, n))
    <3>1. SUFFICES ASSUME t[j] \in Range(Children(m, n)) PROVE FALSE
      OBVIOUS
    <3>2. Children(m, n) # << >>
      BY <3>1, EmptyList
    <3>3. PICK c \in L : m[c[1]].parent = n
      BY <1>3, <3>2, ChildrenList
    <3>4. Children(m, n) = c
      BY <1>3, <3>3, ChildrenList
    <3>5. PICK k \in 1..Len(c) : c[k] = t[j]
      BY <3>1, <3>4, ReprList
    <3>6. c = t
      BY <3>5 DEF Repr, Apart
    <3> QED
      BY <1>2, <3>3, <3>6
  <2>3. t[j] \in Live(q)
    BY <1>1, <1>5, <2>1, <2>2
  <2> QED
    BY <1>1, <2>1, <2>3 DEF Survive
<1>6. << >> \notin X
  BY <1>2 DEF Repr
<1>7. View(q, ((L \ X) \ {s}) \cup Rest(s, i), TopsCut(T \ X, n), CutKids(K, X, n))
  <2>1. Staying(m, L \ X, n, q)
    BY <1>5 DEF Staying
  <2> QED
    BY <1>4, <1>6, <2>1, CutView
<1>8. L \ X = Childless(m, L, n)
  BY <1>2 DEF Childless
<1>9. T \ X = T
  BY <1>2, <1>3 DEF View
<1>10. CutKids(K, X, n) = [KidsCut(K, n) EXCEPT ![n] = << >>]
  <2>1. Cut(<< >>, n) = << >>
    BY CutFacts
  <2>2. (IF K[n] \in X THEN << >> ELSE Cut(K[n], n)) = << >>
    BY <1>2, <1>3, <2>1 DEF View
  <2>3. \A p \in Nodes : p # n => K[p] \notin X
    BY <1>2, <1>6 DEF View
  <2> QED
    BY <1>3, <2>2, <2>3 DEF KidsCut, CutKids
<1> QED
  BY <1>1, <1>7, <1>8, <1>9, <1>10

\* lyd_free_withsiblings.
FreedKids(K, s) == [p \in Nodes |-> IF p \in Range(s) \/ K[p] = s THEN << >> ELSE K[p]]
LEMMA FreeListView ==
  ASSUME NEW m, NEW L, Repr(m, L), NEW T, NEW K, View(m, L, T, K), NEW s \in L, NEW q, AllDone(m, L, s, q)
  PROVE  \E N : Repr(q, N) /\ View(q, N, T \ {s}, FreedKids(K, s))
<1>1. PICK N : N = {t \in L : t # s /\ m[t[1]].parent \notin Range(s)}
  OBVIOUS
<1>2. Repr(q, N) /\ Survive(m, q)
  BY <1>1 DEF AllDone, Left2
<1>3. PICK f : f = [t \in L \cup {<< >>} |-> IF t \in N THEN t ELSE << >>]
  OBVIOUS
<1>4. << >> \notin L /\ N \subseteq L /\ None \notin Range(s)
  <2>1. None \notin Range(s)
    <3>1. Range(s) = {s[j] : j \in 1..Len(s)} /\ \A j \in 1..Len(s) : s[j] # None
      BY ReprList
    <3> QED
      BY <3>1
  <2> QED
    BY <1>1, <2>1 DEF Repr
<1>5. f[<< >>] = << >> /\ \A t \in L : f[t] = IF t \in N THEN t ELSE << >>
  BY <1>3, <1>4
<1>6. ASSUME NEW t \in L, f[t] # << >> PROVE q[f[t][1]].parent = m[t[1]].parent
  <2>1. t \in N /\ f[t] = t
    BY <1>5, <1>6
  <2>2. t[1] \in Live(q)
    BY <1>2, <2>1, ReprList
  <2> QED
    BY <1>2, <2>1, <2>2 DEF Survive
<1>7. View(q, {f[t] : t \in L} \ {<< >>}, {f[t] : t \in T} \ {<< >>}, [p \in Nodes |-> f[K[p]]])
  BY <1>5, <1>6, ViewMap
<1>8. {f[t] : t \in L} \ {<< >>} = N
  BY <1>4, <1>5
<1>9. {f[t] : t \in T} \ {<< >>} = T \ {s}
  <2>1. T \subseteq L /\ \A t \in T : m[t[1]].parent = None
    BY DEF View
  <2>2. \A t \in T : t \in N <=> t # s
    BY <1>1, <1>4, <2>1
  <2> QED
    BY <1>4, <1>5, <2>1, <2>2
<1>10. [p \in Nodes |-> f[K[p]]] = FreedKids(K, s)
  <2>1. ASSUME NEW p \in Nodes PROVE f[K[p]] = IF p \in Range(s) \/ K[p] = s THEN << >> ELSE K[p]
    <3>1. CASE K[p] = << >>
      BY <1>5, <3>1
    <3>2. CASE K[p] # << >>
      <4>1. K[p] \in L /\ m[K[p][1]].parent = p
        BY <3>2 DEF View
      <4>2. K[p] \in N <=> ~(p \in Range(s) \/ K[p] = s)
        BY <1>1, <4>1
      <4> QED
        BY <1>5, <4>1, <4>2
    <3> QED
      BY <3>1, <3>2
  <2> QED
    BY <2>1 DEF FreedKids
<1> QED
  BY <1>2, <1>7, <1>8, <1>9, <1>10
\* What is cut out of a list is not in it any more.
LEMMA CutGone ==
  ASSUME NEW m, NEW L, Repr(m, L), NEW n \in Live(m), NEW t \in L \cup {<< >>}
  PROVE  n \notin Range(Cut(t, n)) /\ Cut(t, n) # <<n>>
<1>1. PICK s \in L : \E i \in 1..Len(s) : s[i] = n
  BY ListOf
<1>2. PICK i \in 1..Len(s) : s[i] = n
  BY <1>1
<1>3. /\ Cut(s, n) = Drop(s, i) /\ Cut(<< >>, n) = << >>
      /\ \A x \in L : x # s => n \notin Range(x) /\ Cut(x, n) = x
  BY <1>2, CutFacts
<1>4. n \notin Range(Cut(t, n))
  <2>1. CASE t = s
    <3>1. s \in Seq(Nodes) /\ \A j, k \in 1..Len(s) : s[j] = s[k] => j = k
      BY ReprList
    <3>2. Range(Drop(s, i)) = Range(s) \ {n}
      BY <1>2, <3>1, DropRange
    <3> QED
      BY <1>3, <2>1, <3>2
  <2>2. CASE t # s
    BY <1>3, <2>2, EmptyList
  <2> QED
    BY <2>1, <2>2
<1>5. Range(<<n>>) = {n}
  BY Single
<1> QED
  BY <1>4, <1>5

\* Before and After.
Nearby(s, sib, n, before) == IF before THEN Ahead(s, sib, n) ELSE Behind(s, sib, n)
LEMMA NearbyFacts ==
  ASSUME NEW m, NEW L, Repr(m, L), NEW t \in L, NEW j \in 1..Len(t), NEW sib, sib = t[j], NEW n \in Nodes,
         NEW before \in BOOLEAN, NEW k, k = IF before THEN j ELSE j + 1
  PROVE  /\ Nearby(t, sib, n, before) = Grow(t, k, n) /\ k \in 1..(Len(t) + 1)
         /\ \A x \in L : x # t => Nearby(x, sib, n, before) = x
         /\ Nearby(<< >>, sib, n, before) = << >>
<1>1. t \in Seq(Nodes) /\ Len(t) \in Nat /\ Range(t) = {t[i] : i \in 1..Len(t)}
  BY ReprList
<1>2. Where(t, sib) = j /\ sib \in Range(t) /\ \A x \in L : x # t => sib \notin Range(x)
  <2>1. Where(t, sib) = j /\ \A x \in L : x # t => sib \notin Range(x)
    BY CutFacts
  <2> QED
    BY <1>1, <2>1
<1>3. k \in 1..(Len(t) + 1)
  <2>1. PICK l \in Nat : l = Len(t) /\ j \in 1..l
    BY <1>1
  <2>2. k \in 1..(l + 1)
    BY <2>1
  <2> QED
    BY <2>1, <2>2
<1>4. InsertAt(t, k, n) = Grow(t, k, n)
  BY <1>1, <1>3, InsertIsGrow
<1>5. Nearby(t, sib, n, before) = InsertAt(t, k, n)
  BY <1>2 DEF Nearby, Ahead, Behind
<1>6. sib \notin Range(<< >>)
  BY EmptyList
<1> QED
  BY <1>2, <1>3, <1>4, <1>5, <1>6 DEF Nearby, Ahead, Behind

\* A list with one more node starts with that node or as before.
LEMMA GrownHead ==
  ASSUME NEW s \in Seq(Nodes), NEW n \in Nodes, NEW k \in 1..(Len(s) + 1), 1 \in 1..Len(s)
  PROVE  Grow(s, k, n) # << >> /\ (Grow(s, k, n)[1] = n \/ Grow(s, k, n)[1] = s[1])
<1>1. /\ Grow(s, k, n) \in Seq(Nodes) /\ Len(Grow(s, k, n)) = Len(s) + 1 /\ Len(s) \in Nat
      /\ Grow(s, k, n)[k] = n
      /\ \A j \in 1..Len(s) : j < k => Grow(s, k, n)[j] = s[j]
  BY GrowFacts
<1>2. PICK g : g = Grow(s, k, n)
  OBVIOUS
<1>3. g \in Seq(Nodes) /\ Len(g) = Len(s) + 1 /\ Len(s) \in Nat
  BY <1>1, <1>2
<1>4. Len(g) > 0
  BY <1>3
<1>5. g # << >>
  BY <1>3, <1>4, ListFacts
<1>6. CASE k = 1
  BY <1>1, <1>2, <1>5, <1>6
<1>7. CASE k # 1
  <2>1. 1 < k
    BY <1>3, <1>7
  <2> QED
    BY <1>1, <1>2, <1>5, <2>1
<1> QED
  BY <1>6, <1>7

\* lyd_insert_before and lyd_insert_after of a node that is alone.
TopsNear(T, sib, n, before) == {Nearby(x, sib, n, before) : x \in T}
KidsNear(K, sib, n, before) == [p \in Nodes |-> Nearby(K[p], sib, n, before)]
LEMMA PlaceView ==
  ASSUME NEW m, NEW L, Repr(m, L), NEW T, NEW K, View(m, L, T, K), NEW n \in Live(m), <<n>> \in L, m[n].parent = None,
         NEW t \in L, t # <<n>>, NEW j \in 1..Len(t), NEW sib, sib = t[j], NEW before \in BOOLEAN,
         NEW k, k = (IF before THEN j ELSE j + 1), NEW q, PlaceDone(m, L, t, k, n, q)
  PROVE  /\ Repr(q, (L \ {t, <<n>>}) \cup {Grow(t, k, n)})
         /\ View(q, (L \ {t, <<n>>}) \cup {Grow(t, k, n)}, TopsNear(T \ {<<n>>}, sib, n, before),
                 KidsNear(K, sib, n, before))
<1>1. n \in Nodes /\ n # None
  BY NoneIsNothing DEF Live
<1>2. /\ Nearby(t, sib, n, before) = Grow(t, k, n) /\ k \in 1..(Len(t) + 1)
      /\ \A x \in L : x # t => Nearby(x, sib, n, before) = x
      /\ Nearby(<< >>, sib, n, before) = << >>
  BY <1>1, NearbyFacts
<1>3. PICK g : g = Grow(t, k, n)
  OBVIOUS
<1>4. /\ t \in Seq(Nodes) /\ Len(t) \in Nat /\ 1 \in 1..Len(t) /\ t[1] \in Live(m)
      /\ \A x \in L : 1 \in 1..Len(x) /\ x[1] \in Live(m)
  BY ReprList
<1>5. g # << >> /\ (g[1] = n \/ g[1] = t[1])
  <2>1. t \in Seq(Nodes) /\ n \in Nodes /\ k \in 1..(Len(t) + 1) /\ 1 \in 1..Len(t)
    BY <1>1, <1>2, <1>4
  <2>2. Grow(t, k, n) # << >> /\ (Grow(t, k, n)[1] = n \/ Grow(t, k, n)[1] = t[1])
    BY <2>1, GrownHead
  <2> QED
    BY <1>3, <2>2
<1>6. /\ Repr(q, (L \ {t, <<n>>}) \cup {g})
      /\ \A y \in Live(m) : q[y].parent = IF y = n THEN m[t[1]].parent ELSE m[y].parent
  BY <1>3 DEF PlaceDone
<1>7. PICK f : f = [x \in L \cup {<< >>} |-> IF x = <<n>> THEN << >> ELSE Nearby(x, sib, n, before)]
  OBVIOUS
<1>8. << >> \notin L /\ <<n>> # << >> /\ <<n>>[1] = n
  BY DEF Repr
<1>9. f[<< >>] = << >> /\ f[<<n>>] = << >> /\ f[t] = g /\ \A x \in L : x # t /\ x # <<n>> => f[x] = x
  BY <1>2, <1>3, <1>7, <1>8
<1>10. ASSUME NEW x \in L, f[x] # << >> PROVE q[f[x][1]].parent = m[x[1]].parent
  <2>1. CASE x = t
    <3>1. f[x][1] = n \/ f[x][1] = t[1]
      BY <1>5, <1>9, <2>1
    <3> QED
      BY <1>4, <1>6, <2>1, <3>1
  <2>2. CASE x # t
    <3>1. x # <<n>> /\ f[x] = x
      BY <1>9, <1>10, <2>2
    <3>2. x[1] # n
      <4>1. 1 \in 1..Len(<<n>>) /\ 1 \in 1..Len(x)
        BY <1>4
      <4> QED
        BY <1>8, <3>1, <4>1 DEF Repr, Apart
    <3> QED
      BY <1>4, <1>6, <3>1, <3>2
  <2> QED
    BY <2>1, <2>2
<1>11. View(q, {f[x] : x \in L} \ {<< >>}, {f[x] : x \in T} \ {<< >>}, [p \in Nodes |-> f[K[p]]])
  BY <1>9, <1>10, ViewMap
<1>12. {f[x] : x \in L} \ {<< >>} = (L \ {t, <<n>>}) \cup {g}
  <2>1. ASSUME NEW y \in {f[x] : x \in L}, y # << >> PROVE y \in (L \ {t, <<n>>}) \cup {g}
    <3>1. PICK x \in L : y = f[x]
      OBVIOUS
    <3> QED
      BY <1>9, <2>1, <3>1
  <2>2. ASSUME NEW y \in L \ {t, <<n>>} PROVE y \in {f[x] : x \in L} /\ y # << >>
    BY <1>8, <1>9
  <2>3. g \in {f[x] : x \in L} /\ g # << >>
    BY <1>5, <1>9
  <2> QED
    BY <2>1, <2>2, <2>3
<1>13. {f[x] : x \in T} \ {<< >>} = {Nearby(x, sib, n, before) : x \in T \ {<<n>>}}
  <2>1. T \subseteq L
    BY DEF View
  <2>2. \A x \in T \ {<<n>>} : f[x] = Nearby(x, sib, n, before) /\ f[x] # << >>
    BY <1>5, <1>7, <1>8, <1>9, <2>1
  <2> QED
    BY <1>9, <2>2
<1>14. [p \in Nodes |-> f[K[p]]] = [p \in Nodes |-> Nearby(K[p], sib, n, before)]
  <2>1. ASSUME NEW p \in Nodes PROVE K[p] \in L \cup {<< >>} /\ K[p] # <<n>>
    <3>1. p # None
      BY NoneIsNothing
    <3> QED
      BY <1>8, <3>1 DEF View
  <2> QED
    BY <1>7, <2>1
<1> QED
  BY <1>3, <1>6, <1>11, <1>12, <1>13, <1>14 DEF TopsNear, KidsNear

\* lyd_insert of a list that has no parent.
LEMMA PlainView ==
  ASSUME NEW m, NEW L, Repr(m, L), NEW T, NEW K, View(m, L, T, K), NEW p \in Live(m),
         NEW t \in L, m[t[1]].parent = None, NEW q, PlainDone(m, L, p, t, q)
  PROVE  \E N : Repr(q, N) /\ View(q, N, T \ {t}, [K EXCEPT ![p] = @ \o t])
<1>1. p \in Nodes /\ p # None
  BY NoneIsNothing DEF Live
<1>2. /\ t \in Seq(Nodes) /\ 1 \in 1..Len(t) /\ t[1] \in Live(m) /\ t[1] \in Range(t)
      /\ \A x \in L : 1 \in 1..Len(x) /\ x[1] \in Live(m)
  <2>1. /\ t \in Seq(Nodes) /\ 1 \in 1..Len(t) /\ Range(t) = {t[i] : i \in 1..Len(t)}
        /\ \A x \in L : 1 \in 1..Len(x) /\ x[1] \in Live(m)
    BY ReprList
  <2> QED
    BY <2>1
<1>3. << >> \notin L
  BY DEF Repr
<1>4. \A x \in L : x # t => x[1] \notin Range(t)
  <2>1. SUFFICES ASSUME NEW x \in L, x # t, x[1] \in Range(t) PROVE FALSE
    OBVIOUS
  <2>2. PICK i \in 1..Len(t) : t[i] = x[1]
    BY <2>1, ReprList
  <2> QED
    BY <1>2, <2>1, <2>2 DEF Repr, Apart
<1>5. \A x \in Nodes : K[x] \in L \cup {<< >>} /\ K[x] # t
  <2>1. SUFFICES ASSUME NEW x \in Nodes PROVE K[x] \in L \cup {<< >>} /\ K[x] # t
    OBVIOUS
  <2>2. x # None
    BY NoneIsNothing
  <2> QED
    BY <1>3, <2>2 DEF View
<1>6. K = [x \in Nodes |-> K[x]] /\ T \subseteq L
  BY DEF View
<1>7. CASE m[p].child = None
  <2>1. /\ Repr(q, L)
        /\ \A y \in Live(m) : q[y].parent = IF y \in Range(t) THEN p ELSE m[y].parent
    BY <1>7 DEF PlainDone, AdoptDone
  <2>2. PICK f : f = [x \in L \cup {<< >>} |-> IF x = t THEN << >> ELSE x]
    OBVIOUS
  <2>3. f[<< >>] = << >> /\ f[t] = << >> /\ \A x \in L : x # t => f[x] = x
    BY <2>2
  <2>4. \A x \in L : x # t => q[x[1]].parent = m[x[1]].parent
    BY <1>2, <1>4, <2>1
  <2>5. \A x \in L : f[x] # << >> => q[f[x][1]].parent = m[x[1]].parent
    BY <2>3, <2>4
  <2>6. View(q, {f[x] : x \in L} \ {<< >>}, {f[x] : x \in T} \ {<< >>}, [y \in Nodes |-> f[K[y]]])
    BY <2>3, <2>5, ViewMap
  <2>7. {f[x] : x \in L} \ {<< >>} = L \ {t}
    BY <1>3, <2>3
  <2>8. {f[x] : x \in T} \ {<< >>} = T \ {t}
    BY <1>3, <1>6, <2>3
  <2>9. [y \in Nodes |-> f[K[y]]] = K
    BY <1>5, <1>6, <2>2
  <2>10. View(q, L \ {t}, T \ {t}, K)
    BY <2>6, <2>7, <2>8, <2>9
  <2>11. K[p] = << >>
    <3>1. \A x \in L : m[x[1]].parent # p
      BY <1>7, ChildrenList
    <3> QED
      BY <1>1, <3>1 DEF View
  <2>12. q[t[1]].parent = p
    BY <1>2, <2>1
  <2>13. View(q, (L \ {t}) \cup {t}, T \ {t}, [K EXCEPT ![p] = t])
    BY <1>1, <1>3, <2>10, <2>11, <2>12, ViewKids
  <2>14. (L \ {t}) \cup {t} = L
    OBVIOUS
  <2>15. << >> \o t = t
    BY <1>2, ConcatEmptySeq
  <2>16. [K EXCEPT ![p] = @ \o t] = [K EXCEPT ![p] = t]
    BY <2>11, <2>15
  <2> QED
    BY <2>1, <2>13, <2>14, <2>16
<1>8. CASE m[p].child # None
  <2>1. PICK s \in L : m[s[1]].parent = p
    BY <1>8, ChildrenList
  <2>2. PICK c : c = s \o t
    OBVIOUS
  <2>3. /\ Repr(q, (L \ {s, t}) \cup {c})
        /\ \A y \in Live(m) : q[y].parent = IF y \in Range(t) THEN p ELSE m[y].parent
    BY <2>1, <2>2 DEF PlainDone, JoinDone
  <2>4. s # t /\ s \notin T
    BY <1>1, <2>1 DEF View
  <2>5. c # << >> /\ c[1] = s[1]
    <3>1. s \in Seq(Nodes) /\ 1 \in 1..Len(s)
      BY ReprList
    <3>2. Joined(s, t, c)
      BY <1>2, <2>2, <3>1, JoinedFacts
    <3>3. c[1] = s[1]
      BY <3>1, <3>2 DEF Joined
    <3>4. c # << >>
      BY <2>3 DEF Repr
    <3> QED
      BY <3>3, <3>4
  <2>6. PICK f : f = [x \in L \cup {<< >>} |-> IF x = t THEN << >> ELSE IF x = s THEN c ELSE x]
    OBVIOUS
  <2>7. f[<< >>] = << >> /\ f[t] = << >> /\ f[s] = c /\ \A x \in L : x # t /\ x # s => f[x] = x
    BY <1>3, <2>4, <2>6
  <2>8. ASSUME NEW x \in L, f[x] # << >> PROVE q[f[x][1]].parent = m[x[1]].parent
    <3>1. x # t
      BY <2>7, <2>8
    <3>2. f[x][1] = x[1]
      BY <2>5, <2>7, <3>1
    <3> QED
      BY <1>2, <1>4, <2>3, <3>1, <3>2
  <2>9. View(q, {f[x] : x \in L} \ {<< >>}, {f[x] : x \in T} \ {<< >>}, [y \in Nodes |-> f[K[y]]])
    BY <2>7, <2>8, ViewMap
  <2>10. {f[x] : x \in L} \ {<< >>} = (L \ {s, t}) \cup {c}
    <3>1. ASSUME NEW y \in {f[x] : x \in L}, y # << >> PROVE y \in (L \ {s, t}) \cup {c}
      <4>1. PICK x \in L : y = f[x]
        OBVIOUS
      <4> QED
        BY <2>7, <3>1, <4>1
    <3>2. ASSUME NEW y \in L \ {s, t} PROVE y \in {f[x] : x \in L} /\ y # << >>
      BY <1>3, <2>7
    <3>3. c \in {f[x] : x \in L}
      BY <2>7
    <3> QED
      BY <2>5, <3>1, <3>2, <3>3
  <2>11. {f[x] : x \in T} \ {<< >>} = T \ {t}
    BY <1>3, <1>6, <2>4, <2>7
  <2>12. [y \in Nodes |-> f[K[y]]] = [K EXCEPT ![p] = @ \o t]
    <3>1. K[p] = s
      BY <1>1, <2>1 DEF View
    <3>2. \A y \in Nodes : y # p => K[y] # s
      BY <1>3, <2>1 DEF View
    <3>3. f[K[p]] = K[p] \o t
      BY <2>2, <2>7, <3>1
    <3>4. \A y \in Nodes : y # p => f[K[y]] = K[y]
      BY <1>5, <2>7, <3>2
    <3> QED
      BY <1>1, <1>6, <3>3, <3>4
  <2> QED
    BY <2>3, <2>9, <2>10, <2>11, <2>12
<1> QED
  BY <1>7, <1>8
\* A node that is not allocated has no children.
LEMMA NoKids ==
  ASSUME NEW m, NEW L, Repr(m, L), NEW T, NEW K, View(m, L, T, K), NEW n \in Nodes, n \notin Live(m)
  PROVE  K[n] = << >> /\ [K EXCEPT ![n] = << >>] = K
<1>1. K[n] = << >>
  <2>1. SUFFICES ASSUME K[n] # << >> PROVE FALSE
    OBVIOUS
  <2>2. PICK s \in L : m[s[1]].parent = n
    BY <2>1 DEF View
  <2>3. n # None
    BY NoneIsNothing
  <2> QED
    BY <2>2, <2>3 DEF Repr, OwnList
<1>2. K = [p \in Nodes |-> K[p]]
  BY DEF View
<1> QED
  BY <1>1, <1>2

\* lyd_new.
LEMMA NewView ==
  ASSUME NEW m, NEW L, Repr(m, L), NEW T, NEW K, View(m, L, T, K), NEW n \in Nodes, NEW v, NEW q, NewDone(m, L, n, v, q)
  PROVE  Repr(q, L \cup {<<n>>}) /\ View(q, L \cup {<<n>>}, T \cup {<<n>>}, K)
<1>1. Repr(q, L \cup {<<n>>}) /\ q[n] = Fresh(n, v) /\ \A y \in Live(m) : q[y] = m[y]
  BY DEF NewDone
<1>2. <<n>>[1] = n /\ q[n].parent = None
  BY <1>1 DEF Fresh
<1>3. \A s \in L : q[s[1]].parent = m[s[1]].parent
  <2>1. \A s \in L : s[1] \in Live(m)
    BY ReprList
  <2> QED
    BY <1>1, <2>1
<1>4. q[<<n>>[1]].parent = None
  BY <1>2
<1>5. View(q, L \cup {<<n>>}, T \cup {<<n>>}, K)
  BY <1>3, <1>4, ViewTop
<1> QED
  BY <1>1, <1>5

\* lyd_parse_xml, before the leafrefs are resolved.
LEMMA ParseView ==
  ASSUME NEW m, NEW L, Repr(m, L), NEW T, NEW K, View(m, L, T, K), NEW n \in Nodes, NEW doc \in Seq(Nodes),
         n \notin Live(m), n \notin Range(doc), NEW q, ParseDone(m, L, n, doc, q)
  PROVE  \E N : Repr(q, N) /\ View(q, N, T \cup {<<n>>}, [K EXCEPT ![n] = doc])
<1>1. /\ Repr(q, L \cup ({<<n>>} \cup NonEmpty(doc))) /\ \A y \in Live(m) : q[y] = m[y]
      /\ q[n].parent = None /\ \A x \in Range(doc) : q[x].parent = n
  BY DEF ParseDone
<1>2. \A s \in L : q[s[1]].parent = m[s[1]].parent
  <2>1. \A s \in L : s[1] \in Live(m)
    BY ReprList
  <2> QED
    BY <1>1, <2>1
<1>3. <<n>>[1] = n /\ n # None /\ << >> \notin L /\ <<n>> # << >>
  BY NoneIsNothing DEF Repr
<1>4. q[<<n>>[1]].parent = None
  BY <1>1, <1>3
<1>5. View(q, L \cup {<<n>>}, T \cup {<<n>>}, K)
  BY <1>2, <1>4, ViewTop
<1>6. K[n] = << >> /\ [K EXCEPT ![n] = << >>] = K
  BY NoKids
<1>7. CASE doc = << >>
  <2>1. L \cup ({<<n>>} \cup NonEmpty(doc)) = L \cup {<<n>>}
    BY <1>7 DEF NonEmpty
  <2> QED
    BY <1>1, <1>5, <1>6, <1>7, <2>1
<1>8. CASE doc # << >>
  <2>1. L \cup ({<<n>>} \cup NonEmpty(doc)) = (L \cup {<<n>>}) \cup {doc}
    BY <1>8 DEF NonEmpty
  <2>2. doc[1] \in Range(doc)
    <3>1. Range(doc) = {doc[j] : j \in 1..Len(doc)} /\ 1 \in 1..Len(doc)
      BY <1>8, ListFacts
    <3> QED
      BY <3>1
  <2>3. q[doc[1]].parent = n
    BY <1>1, <2>2
  <2>4. << >> \notin L \cup {<<n>>}
    BY <1>3
  <2>5. View(q, (L \cup {<<n>>}) \cup {doc}, T \cup {<<n>>}, [K EXCEPT ![n] = doc])
    BY <1>3, <1>5, <1>6, <2>3, <2>4, ViewKids
  <2> QED
    BY <1>1, <2>1, <2>5
<1> QED
  BY <1>7, <1>8

\* lyd_change_leaf and lyd_validate leave the lists alone.
LEMMA KeepView ==
  ASSUME NEW m, NEW L, Repr(m, L), NEW T, NEW K, View(m, L, T, K), NEW q, SameLinks(m, q)
  PROVE  Repr(q, L) /\ View(q, L, T, K)
<1>1. Repr(q, L)
  BY SameLinksRepr
<1>2. \A s \in L : q[s[1]].parent = m[s[1]].parent
  <2>1. \A s \in L : s[1] \in Live(m)
    BY ReprList
  <2> QED
    BY <2>1 DEF SameLinks
<1> QED
  BY <1>1, <1>2 DEF View

\* lyd_insert: InsertAll or InsertLast.
AllInserted(T, K, p, n, T2, K2) == \E t \in T : t[1] = n /\ T2 = T \ {t} /\ K2 = [K EXCEPT ![p] = @ \o t]
LastInserted(T, K, p, n, T2, K2) == T2 = TopsCut(T, n) /\ K2 = [KidsCut(K, n) EXCEPT ![p] = @ \o <<n>>]
Inserting(T, K, p, n, T2, K2) == AllInserted(T, K, p, n, T2, K2) \/ LastInserted(T, K, p, n, T2, K2)
LEMMA InsertView ==
  ASSUME NEW m, NEW L, Repr(m, L), NEW T, NEW K, View(m, L, T, K), NEW p \in Live(m), NEW n \in Live(m),
         NEW q, InsertDone(m, L, p, n, q)
  PROVE  \E N, T2, K2 : Repr(q, N) /\ View(q, N, T2, K2) /\ Inserting(T, K, p, n, T2, K2)
<1>1. ASSUME NEW t \in L, t[1] = n, m[n].parent = None, PlainDone(m, L, p, t, q)
      PROVE  \E N, T2, K2 : Repr(q, N) /\ View(q, N, T2, K2) /\ Inserting(T, K, p, n, T2, K2)
  <2>1. m[t[1]].parent = None /\ t \in T
    BY <1>1 DEF View
  <2>2. PICK N : Repr(q, N) /\ View(q, N, T \ {t}, [K EXCEPT ![p] = @ \o t])
    BY <1>1, <2>1, PlainView
  <2>3. AllInserted(T, K, p, n, T \ {t}, [K EXCEPT ![p] = @ \o t])
    BY <1>1, <2>1 DEF AllInserted
  <2> QED
    BY <2>2, <2>3 DEF Inserting
<1>2. ASSUME NEW s \in L, NEW i \in 1..Len(s), NEW u, s[i] = n,
             UnlinkDone(m, L, s, i, u), PlainDone(u, Parted(L, s, i), p, <<n>>, q)
      PROVE  \E N, T2, K2 : Repr(q, N) /\ View(q, N, T2, K2) /\ Inserting(T, K, p, n, T2, K2)
  <2>1. /\ Repr(u, Parted(L, s, i)) /\ Live(u) = Live(m) /\ u[n].parent = None
        /\ \A y \in Live(m) : y # n => u[y].parent = m[y].parent
    BY <1>2 DEF UnlinkDone, Parted
  <2>2. View(u, Parted(L, s, i), TopsCut(T, n) \cup {<<n>>}, KidsCut(K, n))
    BY <1>2, <2>1, UnlinkView
  <2>3. <<n>> \in Parted(L, s, i) /\ <<n>>[1] = n
    BY <1>2 DEF Parted
  <2>4. u[<<n>>[1]].parent = None /\ p \in Live(u)
    BY <2>1, <2>3
  <2>5. PICK N : /\ Repr(q, N)
                 /\ View(q, N, (TopsCut(T, n) \cup {<<n>>}) \ {<<n>>}, [KidsCut(K, n) EXCEPT ![p] = @ \o <<n>>])
    BY <1>2, <2>1, <2>2, <2>3, <2>4, PlainView
  <2>6. (TopsCut(T, n) \cup {<<n>>}) \ {<<n>>} = TopsCut(T, n)
    <3>1. T \subseteq L
      BY DEF View
    <3>2. \A t \in T : Cut(t, n) # <<n>>
      BY <3>1, CutGone
    <3> QED
      BY <3>2 DEF TopsCut
  <2>7. LastInserted(T, K, p, n, TopsCut(T, n), [KidsCut(K, n) EXCEPT ![p] = @ \o <<n>>])
    BY DEF LastInserted
  <2> QED
    BY <2>5, <2>6, <2>7 DEF Inserting
<1> QED
  BY <1>1, <1>2 DEF InsertDone

\* lyd_insert_before and lyd_insert_after.
LEMMA SiblingView ==
  ASSUME NEW m, NEW L, Repr(m, L), NEW T, NEW K, View(m, L, T, K), NEW n \in Live(m), NEW sib, NEW before \in BOOLEAN,
         NEW q, SiblingDone(m, L, sib, n, before, q)
  PROVE  \E N : Repr(q, N) /\ View(q, N, TopsNear(TopsCut(T, n), sib, n, before),
                                   KidsNear(KidsCut(K, n), sib, n, before))
<1>1. PICK s \in L : \E i \in 1..Len(s) : \E u :
        /\ s[i] = n /\ AloneDone(m, L, s, i, u) /\ Repr(u, Parted(L, s, i)) /\ Live(u) = Live(m)
        /\ \E t \in Parted(L, s, i) : \E j \in 1..Len(t) :
             /\ t[j] = sib /\ t # <<n>> /\ j \in Nat
             /\ PlaceDone(u, Parted(L, s, i), t, IF before THEN j ELSE j + 1, n, q)
  BY DEF SiblingDone
<1>2. PICK i \in 1..Len(s) : \E u :
        /\ s[i] = n /\ AloneDone(m, L, s, i, u) /\ Repr(u, Parted(L, s, i)) /\ Live(u) = Live(m)
        /\ \E t \in Parted(L, s, i) : \E j \in 1..Len(t) :
             /\ t[j] = sib /\ t # <<n>> /\ j \in Nat
             /\ PlaceDone(u, Parted(L, s, i), t, IF before THEN j ELSE j + 1, n, q)
  BY <1>1
<1>3. PICK u :
        /\ s[i] = n /\ AloneDone(m, L, s, i, u) /\ Repr(u, Parted(L, s, i)) /\ Live(u) = Live(m)
        /\ \E t \in Parted(L, s, i) : \E j \in 1..Len(t) :
             /\ t[j] = sib /\ t # <<n>> /\ j \in Nat
             /\ PlaceDone(u, Parted(L, s, i), t, IF before THEN j ELSE j + 1, n, q)
  BY <1>2
<1>4. PICK t \in Parted(L, s, i) : \E j \in 1..Len(t) :
             /\ t[j] = sib /\ t # <<n>> /\ j \in Nat
             /\ PlaceDone(u, Parted(L, s, i), t, IF before THEN j ELSE j + 1, n, q)
  BY <1>3
<1>5. PICK j \in 1..Len(t) :
             /\ t[j] = sib /\ t # <<n>> /\ j \in Nat
             /\ PlaceDone(u, Parted(L, s, i), t, IF before THEN j ELSE j + 1, n, q)
  BY <1>4
<1>6. PICK k : k = IF before THEN j ELSE j + 1
  OBVIOUS
<1>7. PICK M : M = Parted(L, s, i)
  OBVIOUS
<1>8. u[n].parent = None /\ \A y \in Live(m) : y # n => u[y].parent = m[y].parent
  BY <1>3 DEF AloneDone, UnlinkDone
<1>9. PICK V, J : V = TopsCut(T, n) /\ J = KidsCut(K, n)
  OBVIOUS
<1>10. View(u, M, V \cup {<<n>>}, J)
  BY <1>3, <1>7, <1>8, <1>9, UnlinkView
<1>11. /\ Repr(u, M) /\ n \in Live(u) /\ <<n>> \in M /\ t \in M /\ t # <<n>> /\ sib = t[j]
       /\ PlaceDone(u, M, t, k, n, q)
  BY <1>3, <1>5, <1>6, <1>7 DEF Parted
<1>12. /\ Repr(q, (M \ {t, <<n>>}) \cup {Grow(t, k, n)})
       /\ View(q, (M \ {t, <<n>>}) \cup {Grow(t, k, n)},
               TopsNear((V \cup {<<n>>}) \ {<<n>>}, sib, n, before),
               KidsNear(J, sib, n, before))
  <2>1. j \in 1..Len(t) /\ u[n].parent = None
    BY <1>5, <1>8
  <2>2. PICK W : W = V \cup {<<n>>}
    OBVIOUS
  <2>3. View(u, M, W, J)
    BY <1>10, <2>2
  <2>4. /\ Repr(q, (M \ {t, <<n>>}) \cup {Grow(t, k, n)})
        /\ View(q, (M \ {t, <<n>>}) \cup {Grow(t, k, n)},
                TopsNear(W \ {<<n>>}, sib, n, before),
                KidsNear(J, sib, n, before))
    BY <1>6, <1>11, <2>1, <2>3, PlaceView
  <2> QED
    BY <2>2, <2>4
<1>13. (V \cup {<<n>>}) \ {<<n>>} = V
  <2>1. T \subseteq L
    BY DEF View
  <2>2. \A x \in T : Cut(x, n) # <<n>>
    BY <2>1, CutGone
  <2> QED
    BY <1>9, <2>2 DEF TopsCut
<1> QED
  BY <1>9, <1>12, <1>13
\* The nodes that are placed are the ones that are allocated.
LEMMA PlacedNow ==
  ASSUME NEW L, Repr(d, L)
  PROVE  F!Placed = Live(d)
<1>1. PlacedOf(TopsOf(d), KidsOf(d)) = Live(d)
  BY ViewOf, PlacedLive
<1> QED
  BY <1>1 DEF F!Placed, F!Lists, F!Range, PlacedOf, TopsOf, KidsOf, Heads, Range

\* What the next memory has as tops and kids.
Becomes(T, K) == TopsOf(d') = T /\ KidsOf(d') = K

\* A new tree is Create,
LEMMA CreateMap ==
  ASSUME NEW L, Repr(d, L), NEW n \in Nodes, NEW s \in Docs \cup {<< >>}, ({n} \cup Range(s)) \cap Live(d) = {},
         Becomes(TopsOf(d) \cup {<<n>>}, [KidsOf(d) EXCEPT ![n] = s])
  PROVE  F!Next
<1>1. F!Create(n, s)
  BY PlacedNow DEF F!Create, F!Range, Range, Becomes, TopsOf, KidsOf, Heads
<1> QED
  BY <1>1 DEF F!Next

\* a new leaf in a container CreateIn,
LEMMA CreateInMap ==
  ASSUME NEW L, Repr(d, L), NEW p \in Nodes, NEW n \in Nodes, n \notin Live(d),
         Becomes(TopsOf(d), [KidsOf(d) EXCEPT ![p] = Append(@, n)])
  PROVE  F!Next
<1>1. F!CreateIn(p, n)
  BY PlacedNow DEF F!CreateIn, Becomes, TopsOf, KidsOf, Heads
<1> QED
  BY <1>1 DEF F!Next

\* lyd_unlink Unlink,
LEMMA UnlinkMap ==
  ASSUME NEW L, Repr(d, L), NEW n \in Live(d),
         Becomes(TopsCut(TopsOf(d), n) \cup {<<n>>}, KidsCut(KidsOf(d), n))
  PROVE  F!Next
<1>1. F!Unlink(n)
  BY PlacedNow DEF F!Unlink, F!TopsOut, F!KidsOut, F!Out, F!Position, F!Range, F!RemoveAt,
     TopsOf, KidsOf, TopsCut, KidsCut, Cut, Where, Heads, Range, RemoveAt, Becomes
<1>2. n \in Nodes
  BY DEF Live
<1> QED
  BY <1>1, <1>2 DEF F!Next

\* lyd_free Free,
LEMMA FreeMap ==
  ASSUME NEW L, Repr(d, L), NEW n \in Live(d),
         Becomes(TopsCut(TopsOf(d), n), [KidsCut(KidsOf(d), n) EXCEPT ![n] = << >>])
  PROVE  F!Next
<1>1. F!Free(n)
  BY PlacedNow DEF F!Free, F!TopsOut, F!KidsOut, F!Out, F!Position, F!Range, F!RemoveAt,
     TopsOf, KidsOf, TopsCut, KidsCut, Cut, Where, Heads, Range, RemoveAt, Becomes
<1>2. n \in Nodes
  BY DEF Live
<1> QED
  BY <1>1, <1>2 DEF F!Next

\* lyd_free_withsiblings FreeList,
LEMMA FreeListMap ==
  ASSUME NEW n \in Nodes, NEW s \in TopsOf(d) \cup {KidsOf(d)[p] : p \in Nodes}, n \in Range(s),
         Becomes(TopsOf(d) \ {s}, FreedKids(KidsOf(d), s))
  PROVE  F!Next
<1>1. F!FreeList(n)
  BY DEF F!FreeList, F!Lists, F!Range, TopsOf, KidsOf, FreedKids, Heads, Range, Becomes
<1> QED
  BY <1>1 DEF F!Next

\* lyd_insert InsertLast
LEMMA InsertLastMap ==
  ASSUME NEW L, Repr(d, L), NEW p \in Nodes, NEW n \in Live(d),
         Becomes(TopsCut(TopsOf(d), n), [KidsCut(KidsOf(d), n) EXCEPT ![p] = Append(@, n)])
  PROVE  F!Next
<1>1. F!InsertLast(p, n)
  BY PlacedNow DEF F!InsertLast, F!TopsOut, F!KidsOut, F!Out, F!Position, F!Range, F!RemoveAt,
     TopsOf, KidsOf, TopsCut, KidsCut, Cut, Where, Heads, Range, RemoveAt, Becomes
<1>2. n \in Nodes
  BY DEF Live
<1> QED
  BY <1>1, <1>2 DEF F!Next

\* or InsertAll,
LEMMA InsertAllMap ==
  ASSUME NEW p \in Nodes, NEW n \in Nodes, NEW s \in TopsOf(d), Head(s) = n,
         Becomes(TopsOf(d) \ {s}, [KidsOf(d) EXCEPT ![p] = @ \o s])
  PROVE  F!Next
<1>1. F!InsertAll(p, n)
  BY DEF F!InsertAll, TopsOf, KidsOf, Heads, Becomes
<1> QED
  BY <1>1 DEF F!Next

\* and lyd_insert_before and lyd_insert_after are InsertBy.
LEMMA InsertByMap ==
  ASSUME NEW L, Repr(d, L), NEW n \in Live(d), NEW sib \in Live(d), n # sib, NEW before \in BOOLEAN,
         Becomes(TopsNear(TopsCut(TopsOf(d), n), sib, n, before), KidsNear(KidsCut(KidsOf(d), n), sib, n, before))
  PROVE  F!Next
<1>1. n \in Nodes /\ sib \in Nodes
  BY DEF Live
<1>2. CASE before
  <2>1. /\ TopsOf(d') = {Ahead(x, sib, n) : x \in TopsCut(TopsOf(d), n)}
        /\ KidsOf(d') = [p \in Nodes |-> Ahead(Cut(KidsOf(d)[p], n), sib, n)]
    BY <1>2 DEF Becomes, TopsNear, KidsNear, Nearby, KidsCut
  <2>2. F!InsertBy(F!Before, sib, n)
    BY <2>1, PlacedNow DEF F!InsertBy, F!Before, F!InsertAt, F!TopsOut, F!KidsOut, F!Out, F!Position, F!Range, F!RemoveAt,
       TopsOf, KidsOf, TopsCut, Cut, Where, Heads, Range, RemoveAt, Ahead, InsertAt
  <2> QED
    BY <1>1, <2>2 DEF F!Next
<1>3. CASE ~before
  <2>1. /\ TopsOf(d') = {Behind(x, sib, n) : x \in TopsCut(TopsOf(d), n)}
        /\ KidsOf(d') = [p \in Nodes |-> Behind(Cut(KidsOf(d)[p], n), sib, n)]
    BY <1>3 DEF Becomes, TopsNear, KidsNear, Nearby, KidsCut
  <2>2. F!InsertBy(F!After, sib, n)
    BY <2>1, PlacedNow DEF F!InsertBy, F!After, F!InsertAt, F!TopsOut, F!KidsOut, F!Out, F!Position, F!Range, F!RemoveAt,
       TopsOf, KidsOf, TopsCut, Cut, Where, Heads, Range, RemoveAt, Behind, InsertAt
  <2> QED
    BY <1>1, <2>2 DEF F!Next
<1> QED
  BY <1>2, <1>3
\* A call that leaves the lists alone.
LEMMA KeepMap ==
  ASSUME NEW L, Repr(d, L), SameLinks(d, d')
  PROVE  UNCHANGED F!forestVars
<1>1. View(d, L, TopsOf(d), KidsOf(d))
  BY ViewOf
<1>2. Repr(d', L) /\ View(d', L, TopsOf(d), KidsOf(d))
  BY <1>1, KeepView
<1>3. TopsOf(d') = TopsOf(d) /\ KidsOf(d') = KidsOf(d)
  BY <1>2, ViewIs
<1> QED
  BY <1>3 DEF F!forestVars, TopsOf, KidsOf, Heads

\* A list in front of one node more.
LEMMA AppendIs ==
  ASSUME NEW m, NEW L, Repr(m, L), NEW T, NEW K, View(m, L, T, K), NEW n \in Nodes, NEW p \in Nodes
  PROVE  K[p] \o <<n>> = Append(K[p], n)
<1>1. K[p] \in Seq(Nodes)
  <2>1. CASE K[p] = << >>
    BY <2>1, EmptyList
  <2>2. CASE K[p] # << >>
    BY <2>2, ReprList DEF View
  <2> QED
    BY <2>1, <2>2
<1> QED
  BY <1>1

\* Every call is a step of Forest or leaves tops and kids alone.
LEMMA NextForest ==
  ASSUME Spelled, Next
  PROVE  F!Next \/ UNCHANGED F!forestVars
<1>1. PICK L : Repr(d, L)
  BY DEF Spelled
<1>2. PICK T, K : T = TopsOf(d) /\ K = KidsOf(d)
  OBVIOUS
<1>3. View(d, L, T, K)
  BY <1>1, <1>2, ViewOf
<1>4. ASSUME NEW N, Repr(d', N), NEW T2, NEW K2, View(d', N, T2, K2) PROVE Becomes(T2, K2)
  BY <1>4, ViewIs DEF Becomes
<1>5. ASSUME NEW n \in Nodes, NEW v, n \notin Live(d), NewDone(d, L, n, v, d') PROVE F!Next
  <2>1. Repr(d', L \cup {<<n>>}) /\ View(d', L \cup {<<n>>}, T \cup {<<n>>}, K)
    BY <1>1, <1>3, <1>5, NewView
  <2>2. [K EXCEPT ![n] = << >>] = K
    BY <1>1, <1>3, <1>5, NoKids
  <2>3. Becomes(TopsOf(d) \cup {<<n>>}, [KidsOf(d) EXCEPT ![n] = << >>])
    BY <1>2, <1>4, <2>1, <2>2
  <2>4. ({n} \cup Range(<< >>)) \cap Live(d) = {}
    BY <1>5, EmptyList
  <2> QED
    BY <1>1, <2>3, <2>4, CreateMap
<1>6. ASSUME NEW n \in Nodes, lyd_new(n) PROVE F!Next
  <2>1. n \notin Live(d) /\ d' = Alloc(d, n, None) /\ None \in Values \cup {None}
    BY <1>6 DEF lyd_new, Alloc
  <2>2. NewDone(d, L, n, None, d')
    BY <1>1, <2>1, NewRepr
  <2> QED
    BY <1>5, <2>1, <2>2
<1>7. ASSUME NEW n \in Nodes, lyd_unlink(n) PROVE F!Next
  <2>1. n \in Live(d) /\ d' = Unlinked(d, n)
    BY <1>7 DEF lyd_unlink
  <2>2. PICK s \in L : \E i \in 1..Len(s) : s[i] = n
    BY <1>1, <2>1, ListOf
  <2>3. PICK i \in 1..Len(s) : s[i] = n
    BY <2>2
  <2>4. UnlinkDone(d, L, s, i, d')
    BY <1>1, <2>1, <2>3, UnlinkRepr
  <2>5. /\ Repr(d', Parted(L, s, i)) /\ d'[n].parent = None
        /\ \A y \in Live(d) : y # n => d'[y].parent = d[y].parent
    BY <2>1, <2>3, <2>4 DEF UnlinkDone, Parted
  <2>6. View(d', Parted(L, s, i), TopsCut(T, n) \cup {<<n>>}, KidsCut(K, n))
    BY <1>1, <1>3, <2>3, <2>5, UnlinkView
  <2>7. Becomes(TopsCut(TopsOf(d), n) \cup {<<n>>}, KidsCut(KidsOf(d), n))
    BY <1>2, <1>4, <2>5, <2>6
  <2> QED
    BY <1>1, <2>1, <2>7, UnlinkMap
<1>8. ASSUME NEW n \in Nodes, lyd_free(n) PROVE F!Next
  <2>1. n \in Live(d) /\ d' = Freed(d, n)
    BY <1>8 DEF lyd_free
  <2>2. PICK s \in L : \E i \in 1..Len(s) : s[i] = n
    BY <1>1, <2>1, ListOf
  <2>3. PICK i \in 1..Len(s) : s[i] = n
    BY <2>2
  <2>4. FreedDone(d, L, s, i, d')
    BY <1>1, <2>1, <2>3, FreedRepr
  <2>5. PICK N : Repr(d', N) /\ View(d', N, TopsCut(T, n), [KidsCut(K, n) EXCEPT ![n] = << >>])
    BY <1>1, <1>3, <2>3, <2>4, FreeView
  <2>6. Becomes(TopsCut(TopsOf(d), n), [KidsCut(KidsOf(d), n) EXCEPT ![n] = << >>])
    BY <1>2, <1>4, <2>5
  <2> QED
    BY <1>1, <2>1, <2>6, FreeMap
<1>9. ASSUME NEW n \in Nodes, lyd_free_withsiblings(n) PROVE F!Next
  <2>1. PICK s \in L : \E i \in 1..Len(s) : s[i] = n /\ AllDone(d, L, s, d')
    BY <1>1, <1>9, FreeListRepr DEF FreeListDone
  <2>2. n \in Range(s)
    BY <1>1, <2>1, ReprList
  <2>3. PICK N : Repr(d', N) /\ View(d', N, T \ {s}, FreedKids(K, s))
    BY <1>1, <1>3, <2>1, FreeListView
  <2>4. Becomes(TopsOf(d) \ {s}, FreedKids(KidsOf(d), s))
    BY <1>2, <1>4, <2>3
  <2>5. s \in TopsOf(d) \cup {KidsOf(d)[p] : p \in Nodes}
    BY <1>2, <1>3 DEF View
  <2> QED
    BY <2>2, <2>4, <2>5, FreeListMap
<1>10. ASSUME NEW n \in Nodes, lyd_validate(n) PROVE UNCHANGED F!forestVars
  <2>1. SameLinks(d, d')
    BY <1>1, <1>10, ValidateLinks DEF DataDone
  <2> QED
    BY <1>1, <2>1, KeepMap
<1>11. ASSUME NEW n \in Nodes, NEW v \in Values, lyd_change_leaf(n, v) PROVE UNCHANGED F!forestVars
  <2>1. SameLinks(d, d')
    BY <1>1, <1>11, ChangeLinks DEF DataDone
  <2> QED
    BY <1>1, <2>1, KeepMap
<1>12. ASSUME NEW n \in Nodes, NEW doc \in Docs, NEW v \in Values, lyd_parse_xml(n, doc, v) PROVE F!Next
  <2>1. PICK q : q = ParsedMem(d, n, doc, v)
    OBVIOUS
  <2>2. KindOf[n] = "c" /\ ({n} \cup Range(doc)) \cap Live(d) = {} /\ d' = Resolved(q, doc, v)
    BY <1>12, <2>1, ParseParts
  <2>3. ParseDone(d, L, n, doc, q)
    BY <1>1, <2>1, <2>2, ParseRepr
  <2>4. doc \in Seq(Nodes) /\ n \notin Range(doc) /\ n \notin Live(d)
    <3>1. /\ doc \in Seq(Nodes) /\ \A j \in 1..Len(doc) : KindOf[doc[j]] # "c"
          /\ Range(doc) = {doc[j] : j \in 1..Len(doc)}
      BY DocFacts
    <3> QED
      BY <2>2, <3>1
  <2>5. PICK N : Repr(q, N) /\ View(q, N, T \cup {<<n>>}, [K EXCEPT ![n] = doc])
    BY <1>1, <1>3, <2>3, <2>4, ParseView
  <2>6. Range(doc) \subseteq Live(q)
    BY <2>3 DEF ParseDone
  <2>7. SameLinks(q, d')
    BY <2>2, <2>5, <2>6, ResolvedLinks
  <2>8. Repr(d', N) /\ View(d', N, T \cup {<<n>>}, [K EXCEPT ![n] = doc])
    BY <2>5, <2>7, KeepView
  <2>9. Becomes(TopsOf(d) \cup {<<n>>}, [KidsOf(d) EXCEPT ![n] = doc])
    BY <1>2, <1>4, <2>8
  <2> QED
    BY <1>1, <2>2, <2>9, CreateMap
<1>13. ASSUME NEW n \in Nodes, NEW p \in Link, NEW v \in Values, lyd_new_leaf(p, n, v) PROVE F!Next
  <2>1. PICK q : q = Alloc(d, n, v)
    OBVIOUS
  <2>2. /\ n \notin Live(d) /\ KindOf[n] = "t" /\ (p # None => p \in Live(d) /\ KindOf[p] = "c")
        /\ d' = IF p = None THEN q ELSE Inserted(q, p, n)
    BY <1>13, <2>1 DEF lyd_new_leaf, Alloc
  <2>3. NewDone(d, L, n, v, q)
    BY <1>1, <2>1, <2>2, NewRepr
  <2>4. CASE p = None
    BY <1>5, <2>2, <2>3, <2>4
  <2>5. CASE p # None
    <3>1. PICK M : M = L \cup {<<n>>}
      OBVIOUS
    <3>2. Repr(q, M) /\ View(q, M, T \cup {<<n>>}, K)
      BY <1>1, <1>3, <2>3, <3>1, NewView
    <3>3. Live(q) = Live(d) \cup {n} /\ q[n] = Fresh(n, v)
      BY <2>3 DEF NewDone
    <3>4. n \in Live(q) /\ p \in Live(q) /\ p \in Nodes /\ KindOf[p] = "c" /\ KindOf[n] # "c" /\ d' = Inserted(q, p, n)
      BY <2>2, <2>5, <3>3 DEF Live
    <3>5. InsertDone(q, M, p, n, d')
      BY <3>2, <3>4, InsertRepr
    <3>6. q[n].parent = None /\ <<n>> \in M /\ <<n>>[1] = n /\ Len(<<n>>) = 1
      BY <3>1, <3>3 DEF Fresh
    <3>7. \A t \in M : \A i \in 1..Len(t) : t[i] = n => t = <<n>> /\ i = 1
      <4>1. SUFFICES ASSUME NEW t \in M, NEW i \in 1..Len(t), t[i] = n PROVE t = <<n>> /\ i = 1
        OBVIOUS
      <4>2. 1 \in 1..Len(<<n>>)
        BY <3>6
      <4>3. t = <<n>>
        BY <3>2, <3>6, <4>1, <4>2 DEF Repr, Apart
      <4> QED
        BY <3>6, <4>3
    <3>8. PlainDone(q, M, p, <<n>>, d')
      <4>1. ASSUME NEW t \in M, t[1] = n PROVE t = <<n>>
        BY <3>2, <3>7, <4>1, ReprList
      <4> QED
        BY <3>5, <3>6, <3>7, <4>1 DEF InsertDone
    <3>9. q[<<n>>[1]].parent = None
      BY <3>6
    <3>10. PICK N : Repr(d', N) /\ View(d', N, (T \cup {<<n>>}) \ {<<n>>}, [K EXCEPT ![p] = @ \o <<n>>])
      BY <3>2, <3>4, <3>6, <3>8, <3>9, PlainView
    <3>11. <<n>> \notin T
      <4>1. SUFFICES ASSUME <<n>> \in L PROVE FALSE
        BY <1>3 DEF View
      <4>2. <<n>>[1] \in Live(d)
        BY <1>1, <4>1, ReprList
      <4> QED
        BY <2>2, <3>6, <4>2
    <3>12. (T \cup {<<n>>}) \ {<<n>>} = T
      BY <3>11
    <3>13. [K EXCEPT ![p] = @ \o <<n>>] = [K EXCEPT ![p] = Append(@, n)]
      <4>1. K[p] \o <<n>> = Append(K[p], n)
        BY <1>1, <1>3, <3>4, AppendIs
      <4> QED
        BY <4>1
    <3>14. Becomes(TopsOf(d), [KidsOf(d) EXCEPT ![p] = Append(@, n)])
      BY <1>2, <1>4, <3>10, <3>12, <3>13
    <3> QED
      BY <1>1, <2>2, <3>4, <3>14, CreateInMap
  <2> QED
    BY <2>4, <2>5
<1>14. ASSUME NEW n \in Nodes, NEW p \in Nodes, lyd_insert(p, n) PROVE F!Next
  <2>1. n \in Live(d) /\ p \in Live(d) /\ KindOf[p] = "c" /\ KindOf[n] # "c" /\ d' = Inserted(d, p, n)
    BY <1>14 DEF lyd_insert
  <2>2. InsertDone(d, L, p, n, d')
    BY <1>1, <2>1, InsertRepr
  <2>3. PICK N, T2, K2 : Repr(d', N) /\ View(d', N, T2, K2) /\ Inserting(T, K, p, n, T2, K2)
    BY <1>1, <1>3, <2>1, <2>2, InsertView
  <2>4. Becomes(T2, K2)
    BY <1>4, <2>3
  <2>5. CASE AllInserted(T, K, p, n, T2, K2)
    <3>1. PICK t \in T : t[1] = n /\ T2 = T \ {t} /\ K2 = [K EXCEPT ![p] = @ \o t]
      BY <2>5 DEF AllInserted
    <3>2. t \in L
      BY <1>3 DEF View
    <3>3. Head(t) = n
      BY <1>1, <3>1, <3>2, ReprList
    <3>4. t \in TopsOf(d) /\ Becomes(TopsOf(d) \ {t}, [KidsOf(d) EXCEPT ![p] = @ \o t])
      BY <1>2, <2>4, <3>1
    <3> QED
      BY <3>3, <3>4, InsertAllMap
  <2>6. CASE LastInserted(T, K, p, n, T2, K2)
    <3>1. T2 = TopsCut(T, n) /\ K2 = [KidsCut(K, n) EXCEPT ![p] = @ \o <<n>>]
      BY <2>6 DEF LastInserted
    <3>2. PICK s \in L : \E i \in 1..Len(s) : s[i] = n
      BY <1>1, <2>1, ListOf
    <3>3. PICK i \in 1..Len(s) : s[i] = n
      BY <3>2
    <3>4. UnlinkDone(d, L, s, i, Unlinked(d, n))
      BY <1>1, <3>3, UnlinkRepr
    <3>5. PICK u : u = Unlinked(d, n)
      OBVIOUS
    <3>6. /\ Repr(u, Parted(L, s, i)) /\ u[n].parent = None
          /\ \A y \in Live(d) : y # n => u[y].parent = d[y].parent
      BY <2>1, <3>3, <3>4, <3>5 DEF UnlinkDone, Parted
    <3>7. View(u, Parted(L, s, i), TopsCut(T, n) \cup {<<n>>}, KidsCut(K, n))
      BY <1>1, <1>3, <3>3, <3>6, UnlinkView
    <3>8. K2 = [KidsCut(K, n) EXCEPT ![p] = Append(@, n)]
      <4>1. PICK J : J = KidsCut(K, n)
        OBVIOUS
      <4>2. J[p] \o <<n>> = Append(J[p], n)
        BY <3>6, <3>7, <4>1, AppendIs
      <4> QED
        BY <3>1, <4>1, <4>2
    <3>9. Becomes(TopsCut(TopsOf(d), n), [KidsCut(KidsOf(d), n) EXCEPT ![p] = Append(@, n)])
      BY <1>2, <2>4, <3>1, <3>8
    <3> QED
      BY <1>1, <2>1, <3>9, InsertLastMap
  <2> QED
    BY <2>3, <2>5, <2>6 DEF Inserting
<1>15. ASSUME NEW n \in Nodes, NEW sib \in Nodes, NEW before \in BOOLEAN, lyd_insert_sibling(sib, n, before)
       PROVE  F!Next
  <2>1. /\ n \in Live(d) /\ sib \in Live(d) /\ sib # n /\ ((KindOf[sib] = "c") <=> (KindOf[n] = "c"))
        /\ d' = InsertedSibling(d, sib, n, before)
    BY <1>15 DEF lyd_insert_sibling
  <2>2. SiblingDone(d, L, sib, n, before, d')
    BY <1>1, <2>1, SiblingRepr
  <2>3. PICK N : Repr(d', N) /\ View(d', N, TopsNear(TopsCut(T, n), sib, n, before), KidsNear(KidsCut(K, n), sib, n, before))
    BY <1>1, <1>3, <2>1, <2>2, SiblingView
  <2>4. Becomes(TopsNear(TopsCut(TopsOf(d), n), sib, n, before), KidsNear(KidsCut(KidsOf(d), n), sib, n, before))
    BY <1>2, <1>4, <2>3
  <2> QED
    BY <1>1, <2>1, <2>4, InsertByMap
<1> QED
  BY <1>6, <1>7, <1>8, <1>9, <1>10, <1>11, <1>12, <1>13, <1>14, <1>15 DEF Next

\* The pointers of the data tree implement ordered lists: read as the lists they
\* spell, every call of the API is a creation, insertion, unlinking or freeing
\* of Forest that moves the nodes it names and keeps the order of all others, or
\* changes no list (tree_data.c), for any number of nodes.
THEOREM TreeIsForest == Spec => ImplementsForest
<1>1. Init => Spelled /\ F!Init
  <2>1. Init => Spelled
    BY InitRepr DEF Spelled
  <2>2. Init => Live(d) = {}
    BY DEF Init, Live
  <2>3. Live(d) = {} => F!Init
    BY DEF F!Init, Heads
  <2> QED
    BY <2>1, <2>2, <2>3
<1>2. Spelled /\ [Next]_vars => Spelled'
  <2>1. Spelled /\ UNCHANGED vars => Spelled'
    BY DEF Spelled, vars
  <2> QED
    BY <2>1, NextSpelled
<1>3. Spelled /\ [Next]_vars => [F!Next]_(F!forestVars)
  <2>1. UNCHANGED vars => UNCHANGED F!forestVars
    BY DEF vars, F!forestVars, Heads
  <2> QED
    BY <2>1, NextForest
<1> QED
  BY <1>1, <1>2, <1>3, PTL DEF Spec, ImplementsForest, F!Spec
=============================================================================
