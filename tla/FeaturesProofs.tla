--------------------------- MODULE FeaturesProofs ---------------------------
(***************************************************************************)
(* Proofs about Features: its type invariant, that it keeps the promise of *)
(* FeatureSet, and that the recursion fits a stack as deep as the longest  *)
(* chain of if-feature statements, for any features and modules.           *)
(***************************************************************************)
EXTENDS Features, TLAPS

\* Local variables that are sets of features make a frame, NoFrame is one.
LEMMA FrameType ==
  /\ NoFrame \in Frame
  /\ \A o, r, s \in SUBSET Feature : [own |-> o, refs |-> r, sub |-> s] \in Frame
  /\ \A x \in Frame : x.own \in SUBSET Feature /\ x.refs \in SUBSET Feature /\ x.sub \in SUBSET Feature
BY DEF Frame, NoFrame

\* Type correctness of lys_features_change.
THEOREM TypeCorrect == Spec => []TypeOK
<1>1. Init => TypeOK
  <2> SUFFICES ASSUME Init PROVE TypeOK
    OBVIOUS
  <2>1. frames \in [1..MaxDepth -> Frame] /\ \A i \in 1..MaxDepth : frames[i] = NoFrame
    BY FeaturesType, FrameType DEF Init
  <2>2. depth \in 0..MaxDepth
    BY FeaturesType DEF Init
  <2> QED
    BY <2>1, <2>2, Zenon DEF Init, TypeOK
<1>2. TypeOK /\ [Next]_vars => TypeOK'
  <2> SUFFICES ASSUME TypeOK, [Next]_vars PROVE TypeOK'
    OBVIOUS
  <2> USE FeaturesType DEF TypeOK
  <2>1. ASSUME NEW m \in Holder, NEW name \in Feature \cup {All}, NEW o \in {"enable", "disable"},
               lys_features_change(m, name, o)
        PROVE TypeOK'
    <3>1. OwnNamed(m, name) \in SUBSET Feature /\ SubNamed(m, name) \in SUBSET Feature
      BY DEF OwnNamed, SubNamed, Own, OfSubmodules
    <3>2. frames' \in [1..MaxDepth -> Frame]
      BY <2>1, <3>1, FrameType DEF lys_features_change
    <3>3. \A i \in 1..MaxDepth : i > depth' => frames'[i] = NoFrame
      BY <2>1, <3>1 DEF lys_features_change
    <3> QED
      BY <2>1, <3>1, <3>2, <3>3 DEF lys_features_change
  <2>2. CASE VisitOwn
    <3>1. depth \in 1..MaxDepth /\ Top \in Frame
      BY <2>2 DEF VisitOwn, Running, Top
    <3>2. PICK f \in Top.own :
            /\ enabled' = Flag(f)
            /\ visited' = visited \cup {f}
            /\ frames' = [frames EXCEPT ![depth] = [own |-> Rest(f), refs |-> References(f), sub |-> Top.sub]]
      BY <2>2 DEF VisitOwn
    <3>3. f \in Feature /\ Rest(f) \in SUBSET Feature /\ References(f) \in SUBSET Feature
      BY <3>1, <3>2, FrameType DEF References, Rest
    <3>4. enabled' \in SUBSET Feature /\ visited' \in SUBSET Feature
      BY <3>2, <3>3 DEF Flag
    <3>5. frames' \in [1..MaxDepth -> Frame] /\ \A i \in 1..MaxDepth : i > depth => frames'[i] = NoFrame
      <4>1. [own |-> Rest(f), refs |-> References(f), sub |-> Top.sub] \in Frame
        BY <3>1, <3>3, FrameType
      <4> QED
        BY <3>1, <3>2, <4>1
    <3> QED
      BY <2>2, <3>4, <3>5 DEF VisitOwn
  <2>3. CASE Recurse
    <3>1. depth \in 1..MaxDepth /\ Top \in Frame
      BY <2>3 DEF Recurse, Running, Top
    <3>2. PICK g \in Top.refs :
            IF depth < MaxDepth
            THEN /\ depth' = depth + 1
                 /\ frames' = [frames EXCEPT ![depth] = [own |-> Top.own, refs |-> Top.refs \ {g}, sub |-> Top.sub],
                                             ![depth + 1] = [own |-> {g}, refs |-> {}, sub |-> {}]]
                 /\ UNCHANGED crashed
            ELSE crashed' = TRUE /\ UNCHANGED <<depth, frames>>
      BY <2>3 DEF Recurse
    <3>3. /\ [own |-> Top.own, refs |-> Top.refs \ {g}, sub |-> Top.sub] \in Frame
          /\ [own |-> {g}, refs |-> {}, sub |-> {}] \in Frame
      BY <3>1, <3>2, FrameType
    <3>4. /\ frames' \in [1..MaxDepth -> Frame] /\ depth' \in 0..MaxDepth
          /\ \A i \in 1..MaxDepth : i > depth' => frames'[i] = NoFrame
      <4>1. CASE depth < MaxDepth
        <5> DEFINE inner == [own |-> {g}, refs |-> {}, sub |-> {}]
                   outer == [own |-> Top.own, refs |-> Top.refs \ {g}, sub |-> Top.sub]
        <5>1. depth' = depth + 1 /\ frames' = [frames EXCEPT ![depth] = outer, ![depth + 1] = inner]
          BY <3>2, <4>1
        <5>2. inner \in Frame /\ outer \in Frame
          BY <3>3
        <5> HIDE DEF inner, outer
        <5>3. depth' \in 0..MaxDepth
          BY <3>1, <4>1, <5>1
        <5>4. frames' \in [1..MaxDepth -> Frame]
          BY <5>1, <5>2
        <5>5. ASSUME NEW i \in 1..MaxDepth, i > depth' PROVE frames'[i] = NoFrame
          <6>1. i > depth /\ i # depth /\ i # depth + 1
            BY <3>1, <5>1, <5>5
          <6>2. frames'[i] = frames[i]
            BY <5>1, <6>1
          <6> QED
            BY <6>1, <6>2
        <5> QED
          BY <5>3, <5>4, <5>5
      <4>2. CASE ~(depth < MaxDepth)
        BY <3>2, <4>2
      <4> QED
        BY <4>1, <4>2
    <3>5. crashed' \in BOOLEAN
      BY <3>2, Zenon
    <3> QED
      BY <2>3, <3>4, <3>5 DEF Recurse
  <2>4. CASE VisitSub
    <3>1. depth \in 1..MaxDepth /\ Top \in Frame
      BY <2>4 DEF VisitSub, Running, Top
    <3>2. PICK f \in Top.sub :
            /\ enabled' = Flag(f)
            /\ visited' = visited \cup {f}
            /\ frames' = [frames EXCEPT ![depth] = [own |-> {}, refs |-> {}, sub |-> Top.sub \ {f}]]
      BY <2>4 DEF VisitSub
    <3>3. enabled' \in SUBSET Feature /\ visited' \in SUBSET Feature
      BY <3>1, <3>2, FrameType DEF Flag
    <3>4. frames' \in [1..MaxDepth -> Frame] /\ \A i \in 1..MaxDepth : i > depth => frames'[i] = NoFrame
      <4>1. [own |-> {}, refs |-> {}, sub |-> Top.sub \ {f}] \in Frame
        BY <3>1, FrameType
      <4> QED
        BY <3>1, <3>2, <4>1
    <3> QED
      BY <2>4, <3>3, <3>4 DEF VisitSub
  <2>5. CASE Return
    <3>1. depth \in 1..MaxDepth /\ frames[depth] = NoFrame /\ depth' = depth - 1 /\ frames' = frames
      BY <2>5 DEF Return, Running, Top, Popped
    <3>2. \A i \in 1..MaxDepth : i > depth' => frames'[i] = NoFrame
      BY <3>1
    <3> QED
      BY <2>5, <3>1, <3>2 DEF Return
  <2>6. CASE UNCHANGED vars
    BY <2>6 DEF vars
  <2> QED
    BY <2>1, <2>2, <2>3, <2>4, <2>5, <2>6 DEF Next, Step
<1> QED
  BY <1>1, <1>2, PTL DEF Spec

-----------------------------------------------------------------------------
(* The depth of the recursion                                              *)

\* rank falls along if-feature statements, and the features that frame i waits
\* for are low enough to be visited with the frames above it that are left.
Ranked(rank) ==
  /\ \A f \in Feature : \A h \in refs[f] : rank[h] < rank[f]
  /\ \A i \in 1..MaxDepth :
       /\ \A f \in frames[i].own : rank[f] <= MaxDepth - i + 1
       /\ \A f \in frames[i].refs : rank[f] <= MaxDepth - i
Fits == ~crashed /\ \E rank \in [Feature -> 1..MaxDepth] : Ranked(rank)

\* If features can be ranked so that if-feature statements refer to lower ranks
\* only, lys_features_change needs no more frames than there are ranks.
THEOREM StackSuffices == ASSUME Layered PROVE Spec => []NoOverflow
<1>1. Init => Fits
  <2> SUFFICES ASSUME Init PROVE Fits
    OBVIOUS
  <2>1. PICK rank \in [Feature -> 1..MaxDepth] : \A f \in Feature : \A h \in refs[f] : rank[h] < rank[f]
    BY Layered DEF Init, Layered
  <2>2. \A i \in 1..MaxDepth : frames[i].own = {} /\ frames[i].refs = {}
    BY DEF Init, NoFrame
  <2>3. Ranked(rank)
    BY <2>1, <2>2 DEF Ranked
  <2> QED
    BY <2>3, Zenon DEF Fits, Init
<1>2. TypeOK /\ Fits /\ [Next]_vars => Fits'
  <2> SUFFICES ASSUME TypeOK, Fits, [Next]_vars PROVE Fits'
    OBVIOUS
  <2>1. PICK rank \in [Feature -> 1..MaxDepth] : Ranked(rank)
    BY DEF Fits
  <2>2. ASSUME Ranked(rank)', ~crashed' PROVE Fits'
    BY <2>2, Zenon DEF Fits
  <2>3. ~crashed
    BY DEF Fits
  <2> USE FeaturesType
  <2>4. ASSUME NEW m \in Holder, NEW name \in Feature \cup {All}, NEW o \in {"enable", "disable"},
               lys_features_change(m, name, o)
        PROVE Fits'
    <3>1. OwnNamed(m, name) \in SUBSET Feature
      BY DEF OwnNamed, Own
    <3>2. /\ frames' = [frames EXCEPT ![1] = [own |-> OwnNamed(m, name), refs |-> {}, sub |-> SubNamed(m, name)]]
          /\ refs' = refs
      BY <2>4 DEF lys_features_change
    <3>3. Ranked(rank)'
      BY <2>1, <3>1, <3>2 DEF Ranked, TypeOK
    <3>4. ~crashed'
      BY <2>3, <2>4, Zenon DEF lys_features_change
    <3> QED
      BY <2>2, <3>3, <3>4
  <2>5. CASE VisitOwn
    <3>1. depth \in 1..MaxDepth /\ Top \in Frame /\ Top = frames[depth] /\ refs' = refs
      BY <2>5 DEF VisitOwn, Running, Top, TypeOK
    <3>2. PICK f \in Top.own :
            frames' = [frames EXCEPT ![depth] = [own |-> Rest(f), refs |-> References(f), sub |-> Top.sub]]
      BY <2>5 DEF VisitOwn
    <3>3. f \in Feature /\ Rest(f) \subseteq Top.own /\ References(f) \subseteq refs[f] /\ refs[f] \subseteq Feature
      BY <3>1, <3>2, FrameType DEF Rest, References, TypeOK
    <3>4. \A h \in References(f) : rank[h] <= MaxDepth - depth
      <4>1. rank[f] \in 1..MaxDepth /\ rank[f] <= MaxDepth - depth + 1
        BY <2>1, <3>1, <3>3 DEF Ranked
      <4>2. \A h \in refs[f] : rank[h] < rank[f] /\ rank[h] \in 1..MaxDepth
        BY <2>1, <3>3 DEF Ranked
      <4> QED
        BY <3>1, <3>3, <4>1, <4>2
    <3>5. ASSUME NEW i \in 1..MaxDepth
          PROVE /\ \A h \in frames'[i].own : rank[h] <= MaxDepth - i + 1
                /\ \A h \in frames'[i].refs : rank[h] <= MaxDepth - i
      <4>1. CASE i = depth
        BY <2>1, <3>1, <3>2, <3>3, <3>4, <4>1 DEF Ranked, TypeOK
      <4>2. CASE i # depth
        BY <2>1, <3>1, <3>2, <4>2 DEF Ranked, TypeOK
      <4> QED
        BY <4>1, <4>2
    <3>6. Ranked(rank)'
      BY <2>1, <3>1, <3>5 DEF Ranked
    <3>7. ~crashed'
      BY <2>3, <2>5, Zenon DEF VisitOwn
    <3> QED
      BY <2>2, <3>6, <3>7
  <2>6. CASE Recurse
    <3>1. depth \in 1..MaxDepth /\ Top \in Frame /\ Top = frames[depth] /\ refs' = refs
      BY <2>6 DEF Recurse, Running, Top, TypeOK
    <3>2. PICK g \in Top.refs :
            IF depth < MaxDepth
            THEN /\ depth' = depth + 1
                 /\ frames' = [frames EXCEPT ![depth] = [own |-> Top.own, refs |-> Top.refs \ {g}, sub |-> Top.sub],
                                             ![depth + 1] = [own |-> {g}, refs |-> {}, sub |-> {}]]
                 /\ UNCHANGED crashed
            ELSE crashed' = TRUE /\ UNCHANGED <<depth, frames>>
      BY <2>6 DEF Recurse
    <3>3. g \in Feature /\ rank[g] \in 1..MaxDepth /\ rank[g] <= MaxDepth - depth
      BY <2>1, <3>1, <3>2, FrameType DEF Ranked
    <3>4. depth < MaxDepth
      BY <3>1, <3>3
    <3> DEFINE inner == [own |-> {g}, refs |-> {}, sub |-> {}]
               outer == [own |-> Top.own, refs |-> Top.refs \ {g}, sub |-> Top.sub]
    <3>5. frames' = [frames EXCEPT ![depth] = outer, ![depth + 1] = inner] /\ crashed' = crashed
      BY <3>2, <3>4
    <3>6. ASSUME NEW i \in 1..MaxDepth
          PROVE /\ \A h \in frames'[i].own : rank[h] <= MaxDepth - i + 1
                /\ \A h \in frames'[i].refs : rank[h] <= MaxDepth - i
      <4>1. CASE i = depth
        <5>1. frames'[i] = outer
          <6> HIDE DEF inner, outer
          <6> QED
            BY <3>1, <3>5, <4>1 DEF TypeOK
        <5> QED
          BY <2>1, <3>1, <4>1, <5>1 DEF Ranked
      <4>2. CASE i = depth + 1
        <5>1. frames'[i] = inner
          <6> HIDE DEF inner, outer
          <6> QED
            BY <3>1, <3>5, <4>2 DEF TypeOK
        <5> QED
          BY <3>1, <3>3, <4>2, <5>1
      <4>3. CASE i # depth /\ i # depth + 1
        <5>1. frames'[i] = frames[i]
          <6> HIDE DEF inner, outer
          <6> QED
            BY <3>1, <3>5, <4>3 DEF TypeOK
        <5> QED
          BY <2>1, <5>1 DEF Ranked
      <4> QED
        BY <4>1, <4>2, <4>3
    <3>7. Ranked(rank)'
      BY <2>1, <3>1, <3>6 DEF Ranked
    <3> QED
      BY <2>2, <2>3, <3>5, <3>7
  <2>7. CASE VisitSub
    <3>1. PICK f \in Top.sub : frames' = [frames EXCEPT ![depth] = [own |-> {}, refs |-> {}, sub |-> Top.sub \ {f}]]
      BY <2>7 DEF VisitSub
    <3>2. refs' = refs /\ depth \in 1..MaxDepth
      BY <2>7 DEF VisitSub, Running, TypeOK
    <3>3. Ranked(rank)'
      BY <2>1, <3>1, <3>2 DEF Ranked, TypeOK
    <3>4. ~crashed'
      BY <2>3, <2>7, Zenon DEF VisitSub
    <3> QED
      BY <2>2, <3>3, <3>4
  <2>8. CASE Return
    <3>1. Ranked(rank)'
      BY <2>1, <2>8 DEF Ranked, Return
    <3>2. ~crashed'
      BY <2>3, <2>8, Zenon DEF Return
    <3> QED
      BY <2>2, <3>1, <3>2
  <2>9. CASE UNCHANGED vars
    <3>1. Ranked(rank)'
      BY <2>1, <2>9 DEF Ranked, vars
    <3>2. ~crashed'
      BY <2>3, <2>9, Zenon DEF vars
    <3> QED
      BY <2>2, <3>1, <3>2
  <2> QED
    BY <2>4, <2>5, <2>6, <2>7, <2>8, <2>9 DEF Next, Step
<1>3. Fits => NoOverflow
  BY DEF Fits, NoOverflow
<1> QED
  BY <1>1, <1>2, <1>3, TypeCorrect, PTL DEF Spec

-----------------------------------------------------------------------------
(* What a call has done when it returns                                    *)

\* The features that the running call still has to visit.
Waiting == {f \in Feature : \E i \in 1..MaxDepth : f \in frames[i].own \/ f \in frames[i].refs \/ f \in frames[i].sub}

\* A call that enables: the flags written so far, and the features written or
\* waiting, which hold what the call names, hold what those written refer to,
\* and never leave what can be reached from the features named.
Enabling ==
  op = "enable" =>
    /\ enabled = before \cup visited
    /\ target \subseteq visited \cup Waiting
    /\ \A f \in visited : refs[f] \subseteq visited \cup Waiting
    /\ visited \cup Waiting \subseteq Promise!Reach(target)

\* A call that disables visits the features it names and follows no reference.
Disabling == op = "disable" => enabled = before \ visited /\ visited \cup Waiting = target

\* The features of submodules that wait to be visited refer to no others.
SubsPlain == \A i \in 1..MaxDepth : \A f \in frames[i].sub : refs[f] = {}

Progress == SubsPlain /\ (depth > 0 => Enabling /\ Disabling /\ target \in Targets)

\* Reach(S) has S, is closed under if-feature statements, and is the least such set.
LEMMA ReachFacts ==
  ASSUME refs \in [Feature -> SUBSET Feature], NEW S \in SUBSET Feature
  PROVE  /\ Promise!Reach(S) \subseteq Feature
         /\ S \subseteq Promise!Reach(S)
         /\ \A f \in Promise!Reach(S) : refs[f] \subseteq Promise!Reach(S)
         /\ \A C \in SUBSET Feature :
              S \subseteq C /\ (\A g \in C : refs[g] \subseteq C) => Promise!Reach(S) \subseteq C
<1>1. Promise!Reach(S) \subseteq Feature /\ S \subseteq Promise!Reach(S)
  BY DEF Promise!Reach
<1>2. ASSUME NEW f \in Promise!Reach(S), NEW h \in refs[f] PROVE h \in Promise!Reach(S)
  <2>1. h \in Feature
    BY DEF Promise!Reach
  <2>2. ASSUME NEW C \in SUBSET Feature, S \subseteq C, \A g \in C : refs[g] \subseteq C PROVE h \in C
    BY <2>2 DEF Promise!Reach
  <2> QED
    BY <2>1, <2>2 DEF Promise!Reach
<1>3. \A C \in SUBSET Feature :
        S \subseteq C /\ (\A g \in C : refs[g] \subseteq C) => Promise!Reach(S) \subseteq C
  BY DEF Promise!Reach
<1> QED
  BY <1>1, <1>2, <1>3

\* How a call begins.
LEMMA BeginProgress ==
  ASSUME SubmodulesPlain, TypeOK, Progress,
         NEW m \in Holder, NEW name \in Feature \cup {All}, NEW o \in {"enable", "disable"},
         lys_features_change(m, name, o)
  PROVE  Progress'
<1> DEFINE own == OwnNamed(m, name)
           sub == SubNamed(m, name)
<1>1. own \in SUBSET Feature /\ sub \in SUBSET Feature /\ sub \subseteq OfSubmodules(m)
  BY DEF OwnNamed, SubNamed, Own, OfSubmodules
<1>2. /\ depth = 0 /\ op' = o /\ before' = enabled /\ target' = own \cup sub /\ visited' = {} /\ refs' = refs
      /\ frames' = [frames EXCEPT ![1] = [own |-> own, refs |-> {}, sub |-> sub]] /\ enabled' = enabled
  BY DEF lys_features_change
<1>3. target' \in Targets'
  BY <1>2 DEF Targets
<1> HIDE DEF own, sub
<1>4. \A i \in 1..MaxDepth : frames'[i] = IF i = 1 THEN [own |-> own, refs |-> {}, sub |-> sub] ELSE NoFrame
  BY <1>2, FeaturesType DEF TypeOK
<1>5. Waiting' = target'
  BY <1>1, <1>2, <1>4, FeaturesType DEF Waiting, NoFrame
<1>6. SubsPlain'
  <2>1. \A f \in sub : refs[f] = {}
    BY <1>1 DEF SubmodulesPlain, TypeOK
  <2> QED
    BY <1>2, <1>4, <2>1 DEF SubsPlain, NoFrame
<1>7. Enabling'
  <2>1. refs' \in [Feature -> SUBSET Feature] /\ target' \in SUBSET Feature
    BY <1>1, <1>2, FeaturesType DEF TypeOK
  <2>2. target' \subseteq Promise!Reach(target)'
    BY <2>1 DEF Promise!Reach
  <2> QED
    BY <1>2, <1>5, <2>2 DEF Enabling
<1>8. Disabling'
  BY <1>2, <1>5 DEF Disabling
<1> QED
  BY <1>3, <1>6, <1>7, <1>8 DEF Progress
\* Visiting a feature f that waits: its flag is written and, to enable it, the
\* features it refers to wait from then on.
LEMMA VisitProgress ==
  ASSUME TypeOK, Progress, depth > 0, NEW f \in Waiting,
         enabled' = Flag(f), visited' = visited \cup {f},
         UNCHANGED <<refs, op, depth, before, target>>,
         Waiting \ {f} \subseteq Waiting', Waiting' \subseteq Waiting \cup References(f),
         op = "enable" => refs[f] \subseteq Waiting',
         SubsPlain'
  PROVE  Progress'
<1>1. refs \in [Feature -> SUBSET Feature] /\ target \in SUBSET Feature /\ f \in Feature
  BY FeaturesType DEF TypeOK, Waiting
<1>2. Promise!Reach(target)' = Promise!Reach(target)
  BY DEF Promise!Reach
<1>3. visited \cup Waiting \subseteq visited' \cup Waiting'
  OBVIOUS
<1>4. ASSUME op = "enable" PROVE Enabling'
  <2>1. enabled' = before' \cup visited'
    BY <1>4 DEF Progress, Enabling, Flag
  <2>2. target' \subseteq visited' \cup Waiting'
    BY <1>3, <1>4 DEF Progress, Enabling
  <2>3. \A g \in visited' : refs'[g] \subseteq visited' \cup Waiting'
    BY <1>3, <1>4 DEF Progress, Enabling
  <2>4. visited' \cup Waiting' \subseteq Promise!Reach(target)
    <3>1. visited \cup Waiting \subseteq Promise!Reach(target)
      BY <1>4 DEF Progress, Enabling
    <3>2. refs[f] \subseteq Promise!Reach(target)
      BY <1>1, <3>1, ReachFacts
    <3> QED
      BY <1>4, <3>1, <3>2 DEF References
  <2> QED
    BY <1>2, <2>1, <2>2, <2>3, <2>4 DEF Enabling
<1>5. ASSUME op = "disable" PROVE Disabling'
  <2>1. enabled = before \ visited /\ visited \cup Waiting = target
    BY <1>5 DEF Progress, Disabling
  <2>2. Waiting' \subseteq Waiting /\ enabled' = enabled \ {f}
    BY <1>5 DEF References, Flag
  <2> QED
    BY <2>1, <2>2 DEF Disabling
<1>6. Enabling' /\ Disabling'
  BY <1>4, <1>5 DEF Enabling, Disabling
<1>7. target' \in Targets'
  BY DEF Progress, Targets
<1> QED
  BY <1>6, <1>7 DEF Progress

\* A step that leaves the flags and the features that wait leaves the progress.
LEMMA SameProgress ==
  ASSUME Progress, Waiting' = Waiting, SubsPlain', depth > 0,
         UNCHANGED <<refs, enabled, op, before, target, visited>>
  PROVE  Progress'
<1>1. Promise!Reach(target)' = Promise!Reach(target)
  BY DEF Promise!Reach
<1>2. Enabling' /\ Disabling'
  BY <1>1 DEF Progress, Enabling, Disabling
<1>3. target' \in Targets'
  BY DEF Progress, Targets
<1> QED
  BY <1>2, <1>3 DEF Progress

\* Every step of a call keeps the progress.
LEMMA StepProgress ==
  ASSUME SubmodulesPlain, TypeOK, Progress, Step
  PROVE  Progress'
<1>1. depth \in 1..MaxDepth /\ Top = frames[depth] /\ Top \in Frame
  BY DEF Step, VisitOwn, Recurse, VisitSub, Return, Running, Top, TypeOK
<1>2. Top.own \in SUBSET Feature /\ Top.refs \in SUBSET Feature /\ Top.sub \in SUBSET Feature
  BY <1>1, FrameType
<1>3. refs \in [Feature -> SUBSET Feature]
  BY FeaturesType DEF TypeOK
<1>4. CASE VisitOwn
  <2>1. PICK f \in Top.own :
          /\ enabled' = Flag(f)
          /\ visited' = visited \cup {f}
          /\ frames' = [frames EXCEPT ![depth] = [own |-> Rest(f), refs |-> References(f), sub |-> Top.sub]]
    BY <1>4 DEF VisitOwn
  <2>2. Top.refs = {} /\ UNCHANGED <<refs, op, depth, before, target>>
    BY <1>4 DEF VisitOwn
  <2>3. f \in Feature /\ f \in Waiting /\ References(f) \in SUBSET Feature
    BY <1>1, <1>2, <1>3, <2>1 DEF Waiting, References
  <2>4. /\ \A i \in 1..MaxDepth : i # depth => frames'[i] = frames[i]
        /\ frames'[depth] = [own |-> Rest(f), refs |-> References(f), sub |-> Top.sub]
    BY <1>1, <2>1 DEF TypeOK
  <2>5. ASSUME NEW g \in Waiting, g # f PROVE g \in Waiting'
    <3>1. PICK i \in 1..MaxDepth : g \in frames[i].own \/ g \in frames[i].refs \/ g \in frames[i].sub
      BY DEF Waiting
    <3>2. g \in frames'[i].own \/ g \in frames'[i].refs \/ g \in frames'[i].sub
      <4>1. CASE i = depth
        BY <1>1, <2>2, <2>4, <2>5, <3>1, <4>1 DEF Rest
      <4>2. CASE i # depth
        BY <2>4, <3>1, <4>2
      <4> QED
        BY <4>1, <4>2
    <3> QED
      BY <3>2 DEF Waiting
  <2>6. ASSUME NEW g \in Waiting' PROVE g \in Waiting \cup References(f)
    <3>1. PICK i \in 1..MaxDepth : g \in frames'[i].own \/ g \in frames'[i].refs \/ g \in frames'[i].sub
      BY DEF Waiting
    <3>2. g \in References(f) \/ g \in frames[i].own \/ g \in frames[i].refs \/ g \in frames[i].sub
      <4>1. CASE i = depth
        BY <1>1, <2>4, <3>1, <4>1 DEF Rest
      <4>2. CASE i # depth
        BY <2>4, <3>1, <4>2
      <4> QED
        BY <4>1, <4>2
    <3> QED
      BY <3>2 DEF Waiting
  <2>7. References(f) \subseteq Waiting'
    BY <1>1, <2>3, <2>4 DEF Waiting
  <2>8. op = "enable" => refs[f] \subseteq Waiting'
    BY <2>7 DEF References
  <2>9. SubsPlain'
    BY <1>1, <2>2, <2>4 DEF Progress, SubsPlain
  <2> QED
    BY <1>1, <2>1, <2>2, <2>3, <2>5, <2>6, <2>8, <2>9, VisitProgress
<1>5. CASE Recurse
  <2>1. PICK g \in Top.refs :
          IF depth < MaxDepth
          THEN /\ depth' = depth + 1
               /\ frames' = [frames EXCEPT ![depth] = [own |-> Top.own, refs |-> Top.refs \ {g}, sub |-> Top.sub],
                                           ![depth + 1] = [own |-> {g}, refs |-> {}, sub |-> {}]]
               /\ UNCHANGED crashed
          ELSE crashed' = TRUE /\ UNCHANGED <<depth, frames>>
    BY <1>5 DEF Recurse
  <2>2. UNCHANGED <<refs, enabled, op, before, target, visited>>
    BY <1>5 DEF Recurse
  <2>3. CASE depth < MaxDepth
    <3> DEFINE inner == [own |-> {g}, refs |-> {}, sub |-> {}]
               outer == [own |-> Top.own, refs |-> Top.refs \ {g}, sub |-> Top.sub]
    <3>1. frames' = [frames EXCEPT ![depth] = outer, ![depth + 1] = inner]
      BY <2>1, <2>3
    <3>2. /\ \A i \in 1..MaxDepth : i # depth /\ i # depth + 1 => frames'[i] = frames[i]
          /\ depth + 1 \in 1..MaxDepth /\ frames'[depth] = outer /\ frames'[depth + 1] = inner
          /\ frames[depth + 1] = NoFrame
      <4>1. depth + 1 \in 1..MaxDepth /\ depth + 1 > depth /\ depth # depth + 1
        BY <1>1, <2>3, FeaturesType
      <4>2. frames \in [1..MaxDepth -> Frame] /\ frames[depth + 1] = NoFrame
        BY <4>1 DEF TypeOK
      <4> HIDE DEF inner, outer
      <4>3. \A i \in 1..MaxDepth : i # depth /\ i # depth + 1 => frames'[i] = frames[i]
        BY <3>1, <4>2
      <4>4. frames'[depth] = outer
        BY <1>1, <3>1, <4>1, <4>2
      <4>5. frames'[depth + 1] = inner
        BY <3>1, <4>1, <4>2
      <4> QED
        BY <4>1, <4>2, <4>3, <4>4, <4>5
    <3>3. ASSUME NEW h \in Waiting PROVE h \in Waiting'
      <4>1. PICK i \in 1..MaxDepth : h \in frames[i].own \/ h \in frames[i].refs \/ h \in frames[i].sub
        BY DEF Waiting
      <4>2. CASE i = depth
        <5>1. \/ h \in frames'[depth].own \/ h \in frames'[depth].refs \/ h \in frames'[depth].sub
              \/ h \in frames'[depth + 1].own
          BY <1>1, <3>2, <4>1, <4>2
        <5> QED
          BY <1>1, <3>2, <5>1 DEF Waiting
      <4>3. CASE i = depth + 1
        BY <3>2, <4>1, <4>3 DEF NoFrame
      <4>4. CASE i # depth /\ i # depth + 1
        BY <3>2, <4>1, <4>4 DEF Waiting
      <4> QED
        BY <4>2, <4>3, <4>4
    <3>4. ASSUME NEW h \in Waiting' PROVE h \in Waiting
      <4>1. PICK i \in 1..MaxDepth : h \in frames'[i].own \/ h \in frames'[i].refs \/ h \in frames'[i].sub
        BY DEF Waiting
      <4>2. h \in Feature
        BY DEF Waiting
      <4>3. CASE i = depth \/ i = depth + 1
        <5>1. h \in frames[depth].own \/ h \in frames[depth].refs \/ h \in frames[depth].sub
          BY <1>1, <3>2, <4>1, <4>3
        <5> QED
          BY <1>1, <4>2, <5>1 DEF Waiting
      <4>4. CASE i # depth /\ i # depth + 1
        BY <3>2, <4>1, <4>2, <4>4 DEF Waiting
      <4> QED
        BY <4>3, <4>4
    <3>5. SubsPlain'
      <4>1. ASSUME NEW i \in 1..MaxDepth PROVE \A h \in frames'[i].sub : refs'[h] = {}
        <5>1. CASE i = depth
          BY <1>1, <2>2, <3>2, <5>1 DEF Progress, SubsPlain
        <5>2. CASE i = depth + 1
          BY <3>2, <5>2
        <5>3. CASE i # depth /\ i # depth + 1
          BY <2>2, <3>2, <5>3 DEF Progress, SubsPlain
        <5> QED
          BY <5>1, <5>2, <5>3
      <4> QED
        BY <4>1 DEF SubsPlain
    <3>6. Waiting' = Waiting
      BY <3>3, <3>4
    <3> QED
      BY <1>1, <2>2, <3>5, <3>6, SameProgress
  <2>4. CASE ~(depth < MaxDepth)
    <3>1. frames' = frames
      BY <2>1, <2>4
    <3>2. Waiting' = Waiting /\ SubsPlain'
      BY <2>2, <3>1 DEF Waiting, Progress, SubsPlain
    <3> QED
      BY <1>1, <2>2, <3>2, SameProgress
  <2> QED
    BY <2>3, <2>4
<1>6. CASE VisitSub
  <2>1. PICK f \in Top.sub :
          /\ enabled' = Flag(f)
          /\ visited' = visited \cup {f}
          /\ frames' = [frames EXCEPT ![depth] = [own |-> {}, refs |-> {}, sub |-> Top.sub \ {f}]]
    BY <1>6 DEF VisitSub
  <2>2. Top.refs = {} /\ Top.own = {} /\ UNCHANGED <<refs, op, depth, before, target>>
    BY <1>6 DEF VisitSub
  <2>3. f \in Waiting /\ refs[f] = {}
    BY <1>1, <1>2, <2>1 DEF Waiting, Progress, SubsPlain
  <2>4. /\ \A i \in 1..MaxDepth : i # depth => frames'[i] = frames[i]
        /\ frames'[depth] = [own |-> {}, refs |-> {}, sub |-> Top.sub \ {f}]
    BY <1>1, <2>1 DEF TypeOK
  <2>5. ASSUME NEW g \in Waiting, g # f PROVE g \in Waiting'
    <3>1. PICK i \in 1..MaxDepth : g \in frames[i].own \/ g \in frames[i].refs \/ g \in frames[i].sub
      BY DEF Waiting
    <3>2. g \in frames'[i].own \/ g \in frames'[i].refs \/ g \in frames'[i].sub
      BY <1>1, <2>2, <2>4, <2>5, <3>1
    <3> QED
      BY <3>2 DEF Waiting
  <2>6. ASSUME NEW g \in Waiting' PROVE g \in Waiting
    <3>1. PICK i \in 1..MaxDepth : g \in frames'[i].own \/ g \in frames'[i].refs \/ g \in frames'[i].sub
      BY DEF Waiting
    <3>2. g \in frames[i].own \/ g \in frames[i].refs \/ g \in frames[i].sub
      BY <1>1, <2>4, <3>1
    <3> QED
      BY <3>2 DEF Waiting
  <2>7. SubsPlain'
    BY <1>1, <2>2, <2>4 DEF Progress, SubsPlain
  <2> QED
    BY <1>1, <2>1, <2>2, <2>3, <2>5, <2>6, <2>7, VisitProgress
<1>7. CASE Return
  <2>1. frames' = frames /\ UNCHANGED <<refs, enabled, op, before, target, visited>>
    BY <1>7 DEF Return
  <2>2. Waiting' = Waiting /\ SubsPlain'
    BY <2>1 DEF Waiting, Progress, SubsPlain
  <2> QED
    BY <1>1, <2>1, <2>2, SameProgress
<1> QED
  BY <1>4, <1>5, <1>6, <1>7 DEF Step
\* A call that returns has kept its promise: the features it visited are those
\* that can be reached from the ones it names, or the ones it names.
LEMMA ReturnKeepsPromise ==
  ASSUME TypeOK, Progress, Return, depth = 1
  PROVE  Promise!Next
<1>1. /\ depth' = 0 /\ Seen = before /\ Seen' = enabled /\ refs' = refs
      /\ \A i \in 1..MaxDepth : frames[i] = NoFrame
  BY FeaturesType DEF Return, Running, Popped, Seen, TypeOK, Top
<1>2. Waiting = {}
  BY <1>1 DEF Waiting, NoFrame
<1>3. target \in Targets /\ Enabling /\ Disabling
  BY DEF Progress
<1>4. CASE op = "enable"
  <2>1. refs \in [Feature -> SUBSET Feature] /\ target \in SUBSET Feature /\ visited \in SUBSET Feature
    BY FeaturesType DEF TypeOK
  <2>2. visited = Promise!Reach(target)
    BY <1>2, <1>3, <1>4, <2>1, ReachFacts DEF Enabling
  <2>3. Promise!Enable(target)
    BY <1>1, <1>3, <1>4, <2>2 DEF Enabling, Promise!Enable
  <2> QED
    BY <1>3, <2>3 DEF Promise!Next
<1>5. CASE op = "disable"
  <2>1. Promise!Disable(target)
    BY <1>1, <1>2, <1>3, <1>5 DEF Disabling, Promise!Disable
  <2> QED
    BY <1>3, <2>1 DEF Promise!Next
<1> QED
  BY <1>4, <1>5 DEF TypeOK

\* If no feature of a submodule has an if-feature statement, lys_features_enable
\* and lys_features_disable change the flags as FeatureSet says, whatever the
\* modules and the if-feature statements are, circular ones included.
THEOREM KeepsPromise == ASSUME SubmodulesPlain PROVE Spec => Promised
<1>1. Init => Promise!Init
  BY FeaturesType DEF Init, Promise!Init, Seen
<1>2. Init => Progress
  BY DEF Init, Progress, SubsPlain, NoFrame
<1>3. TypeOK /\ Progress /\ [Next]_vars => Progress'
  <2> SUFFICES ASSUME TypeOK, Progress, [Next]_vars PROVE Progress'
    OBVIOUS
  <2>1. CASE UNCHANGED vars
    <3>1. Promise!Reach(target)' = Promise!Reach(target) /\ Waiting' = Waiting
      BY <2>1 DEF vars, Promise!Reach, Waiting
    <3> QED
      BY <2>1, <3>1 DEF vars, Progress, SubsPlain, Enabling, Disabling, Targets
  <2> QED
    BY <2>1, BeginProgress, StepProgress DEF Next
<1>4. TypeOK /\ Progress /\ [Next]_vars => [Promise!Next]_<<Seen, refs>>
  <2> SUFFICES ASSUME TypeOK, Progress, [Next]_vars PROVE [Promise!Next]_<<Seen, refs>>
    OBVIOUS
  <2>1. ASSUME NEW m \in Holder, NEW name \in Feature \cup {All}, NEW o \in {"enable", "disable"},
               lys_features_change(m, name, o)
        PROVE UNCHANGED <<Seen, refs>>
    BY <2>1 DEF lys_features_change, Seen
  <2>2. CASE VisitOwn \/ VisitSub
    BY <2>2 DEF VisitOwn, VisitSub, Running, Seen
  <2>3. CASE Recurse
    <3>1. depth \in 1..MaxDepth /\ (depth' = depth + 1 \/ depth' = depth) /\ before' = before /\ refs' = refs
      BY <2>3 DEF Recurse, Running, TypeOK
    <3> QED
      BY <3>1, FeaturesType DEF Seen
  <2>4. CASE Return /\ depth # 1
    <3>1. depth \in 1..MaxDepth /\ depth' = depth - 1 /\ depth' # 0 /\ before' = before /\ refs' = refs
      BY <2>4, FeaturesType DEF Return, Running, Popped, TypeOK
    <3> QED
      BY <3>1 DEF Seen
  <2>5. CASE UNCHANGED vars
    BY <2>5 DEF vars, Seen
  <2> QED
    BY <2>1, <2>2, <2>3, <2>4, <2>5, ReturnKeepsPromise DEF Next, Step
<1> QED
  BY <1>1, <1>2, <1>3, <1>4, TypeCorrect, PTL DEF Spec, Promised, Promise!Spec
=============================================================================
