----------------------------- MODULE FeatureSet -----------------------------
(***************************************************************************)
(* What lys_features_enable and lys_features_disable promise               *)
(* (src/src/tree_schema.h): enabling features enables with them, in one    *)
(* step, every feature they refer to by if-feature, directly or through    *)
(* others; disabling changes the named features and no other.              *)
(***************************************************************************)

CONSTANTS
  Feature,  \* the features of the context
  Targets   \* the sets of features that a call can name

VARIABLES
  enabled,  \* the features that are enabled
  refs      \* feature -> the features of its if-feature statements

\* The features reached from S by if-feature statements, S included: those in
\* every set that has S and is closed under them.
Reach(S) ==
  {f \in Feature : \A C \in SUBSET Feature :
    S \subseteq C /\ (\A g \in C : refs[g] \subseteq C) => f \in C}

Init == enabled = {} /\ refs \in [Feature -> SUBSET Feature]

Enable(S) == enabled' = enabled \cup Reach(S) /\ UNCHANGED refs
Disable(S) == enabled' = enabled \ S /\ UNCHANGED refs

Next == \E S \in Targets : Enable(S) \/ Disable(S)

Spec == Init /\ [][Next]_<<enabled, refs>>
=============================================================================
