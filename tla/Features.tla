------------------------------ MODULE Features ------------------------------
(***************************************************************************)
(* Enabling and disabling the features of a module (lys_features_change in *)
(* src/src/tree_schema.c), with the recursion over if-feature statements   *)
(* step by step.  A feature stands for its name: names are unique in a     *)
(* module and its submodules.  The order in which an array is walked is    *)
(* left open, every array is a set.                                        *)
(***************************************************************************)
EXTENDS Naturals, FiniteSets

CONSTANTS
  Feature,   \* the features of all modules
  Holder,    \* the modules and submodules
  Home,      \* feature -> the module or submodule that defines it
  Includes,  \* module -> the submodules it includes
  Graphs,    \* what the if-feature statements may be: feature -> features
  MaxDepth,  \* bound: frames of lys_features_change that the C stack holds
  All        \* the name "*"

ASSUME FeaturesType ==
  /\ Home \in [Feature -> Holder]
  /\ Includes \in [Holder -> SUBSET Holder]
  /\ \A m \in Holder : m \notin Includes[m]
  /\ Graphs \subseteq [Feature -> SUBSET Feature]
  /\ MaxDepth \in Nat \ {0}
  /\ All \notin Feature

VARIABLES
  refs,     \* feature -> the features of its if-feature statements, resolved
  enabled,  \* features with the flag LYS_FENABLED
  op,       \* "enable" or "disable", of the last call
  depth,    \* frames on the stack, 0 if no call is running
  frames,   \* their local variables
  crashed,  \* the stack has overflowed
  before,   \* enabled when the last call began
  target,   \* features that the last call names
  visited   \* features whose flag it has written

vars == <<refs, enabled, op, depth, frames, crashed, before, target, visited>>

-----------------------------------------------------------------------------

Own(m) == {f \in Feature : Home[f] = m}
OfSubmodules(m) == {f \in Feature : Home[f] \in Includes[m]}

\* Local variables of a call: what is left of the loop over the features of the
\* module itself, over the references of the one just enabled, and over the
\* features of the submodules.
Frame == [own : SUBSET Feature, refs : SUBSET Feature, sub : SUBSET Feature]
NoFrame == [own |-> {}, refs |-> {}, sub |-> {}]
Top == frames[depth]

\* A single feature ends the search where it is found, first in the module.
OwnNamed(m, name) == IF name = All THEN Own(m) ELSE Own(m) \cap {name}
SubNamed(m, name) ==
  IF name = All THEN OfSubmodules(m)
  ELSE IF name \in Own(m) THEN {} ELSE OfSubmodules(m) \cap {name}

\* By default all features are disabled.
Init ==
  /\ refs \in Graphs
  /\ enabled = {} /\ op = "disable" /\ crashed = FALSE
  /\ depth = 0 /\ frames = [i \in 1..MaxDepth |-> NoFrame]
  /\ before = {} /\ target = {} /\ visited = {}

-----------------------------------------------------------------------------
(* Mutants of the definitions below.                                       *)

References_once(f) == IF f \in enabled THEN {} ELSE refs[f]
Rest_same(f) == Top.own

-----------------------------------------------------------------------------

Flag(f) == IF op = "enable" THEN enabled \cup {f} ELSE enabled \ {f}
References(f) == IF op = "enable" THEN refs[f] ELSE {}
Rest(f) == Top.own \ {f}
Popped == depth - 1

\* lys_features_enable and lys_features_disable.
lys_features_change(m, name, o) ==
  /\ depth = 0 /\ ~crashed
  /\ op' = o
  /\ before' = enabled
  /\ target' = OwnNamed(m, name) \cup SubNamed(m, name)
  /\ visited' = {}
  /\ depth' = 1
  /\ frames' = [frames EXCEPT ![1] = [own |-> OwnNamed(m, name), refs |-> {}, sub |-> SubNamed(m, name)]]
  /\ UNCHANGED <<refs, enabled, crashed>>

Running == depth > 0 /\ ~crashed

\* One feature of the module itself.
VisitOwn ==
  /\ Running /\ Top.refs = {}
  /\ \E f \in Top.own :
       /\ enabled' = Flag(f)
       /\ visited' = visited \cup {f}
       /\ frames' = [frames EXCEPT ![depth] = [own |-> Rest(f), refs |-> References(f), sub |-> Top.sub]]
  /\ UNCHANGED <<refs, op, depth, crashed, before, target>>

\* The recursive call for one referenced feature.  Its module is the module or
\* submodule that defines it, so it is found as one of the module itself.
Recurse ==
  /\ Running
  /\ \E g \in Top.refs :
       IF depth < MaxDepth
       THEN /\ depth' = depth + 1
            /\ frames' = [frames EXCEPT ![depth] = [own |-> Top.own, refs |-> Top.refs \ {g}, sub |-> Top.sub],
                                        ![depth + 1] = [own |-> {g}, refs |-> {}, sub |-> {}]]
            /\ UNCHANGED crashed
       ELSE crashed' = TRUE /\ UNCHANGED <<depth, frames>>
  /\ UNCHANGED <<refs, enabled, op, before, target, visited>>

\* One feature of a submodule, after those of the module itself.
VisitSub ==
  /\ Running /\ Top.refs = {} /\ Top.own = {}
  /\ \E f \in Top.sub :
       /\ enabled' = Flag(f)
       /\ visited' = visited \cup {f}
       /\ frames' = [frames EXCEPT ![depth] = [own |-> {}, refs |-> {}, sub |-> Top.sub \ {f}]]
  /\ UNCHANGED <<refs, op, depth, crashed, before, target>>

Return ==
  /\ Running /\ Top = NoFrame
  /\ depth' = Popped
  /\ UNCHANGED <<refs, enabled, op, frames, crashed, before, target, visited>>

Step == VisitOwn \/ Recurse \/ VisitSub \/ Return

Next ==
  \/ \E m \in Holder, name \in Feature \cup {All}, o \in {"enable", "disable"} : lys_features_change(m, name, o)
  \/ Step

\* A call that has begun runs on.
Spec == Init /\ [][Next]_vars /\ WF_vars(Step)

-----------------------------------------------------------------------------
(* Properties                                                              *)

TypeOK ==
  /\ refs \in Graphs
  /\ enabled \in SUBSET Feature /\ before \in SUBSET Feature
  /\ target \in SUBSET Feature /\ visited \in SUBSET Feature
  /\ op \in {"enable", "disable"} /\ crashed \in BOOLEAN
  /\ depth \in 0..MaxDepth
  /\ frames \in [1..MaxDepth -> Frame]
  /\ \A i \in 1..MaxDepth : i > depth => frames[i] = NoFrame

\* The flags as the caller sees them: those of a call appear when it returns.
Seen == IF depth = 0 THEN enabled ELSE before

Targets == {OwnNamed(m, name) \cup SubNamed(m, name) : m \in Holder, name \in Feature \cup {All}}

\* A call has in the end set exactly the flags it promises to: it enables the
\* features it names and all they refer to through any number of if-feature
\* statements, and disables the features it names.
Promise == INSTANCE FeatureSet WITH enabled <- Seen
Promised == Promise!Spec

\* The recursion over if-feature statements, which has no end of its own, fits into
\* the stack.
NoOverflow == ~crashed

\* The running call meets a circle of if-feature statements: a feature it names
\* refers to one that refers to itself, through any number of statements.
Circular ==
  op = "enable" /\ \E f \in Promise!Reach(target) : f \in Promise!Reach(refs[f])

\* A call of lys_features_change returns if and only if the features it names lead
\* to no circle of if-feature statements, whatever else is circular; with as many
\* frames as there are features the stack suffices.  In a circle the recursion
\* has no end and uses up the stack.
Returns ==
  /\ depth > 0 /\ ~Circular ~> depth = 0
  /\ depth > 0 /\ Circular ~> crashed

\* Conditions on the if-feature statements: no feature of a submodule has one, and
\* features can be ranked so that each refers to lower ones only.
SubmodulesPlain == \A g \in Graphs, m \in Holder : \A f \in OfSubmodules(m) : g[f] = {}
Layered ==
  \A g \in Graphs : \E rank \in [Feature -> 1..MaxDepth] :
    \A f \in Feature : \A h \in g[f] : rank[h] < rank[f]
=============================================================================
