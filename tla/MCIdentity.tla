----------------------------- MODULE MCIdentity -----------------------------
(* An instance of Identity: modules in which no identity is resolved       *)
(* before its base is (back has a forward reference, but to the end of a   *)
(* chain), also one with a circular and one with an undefined base.        *)
EXTENDS Identity

I(n, b) == [name |-> n, base |-> b]

OrderedMods == {"types", "ext", "back", "ring", "typo"}
OrderedStmts ==
  [m \in OrderedMods |->
    CASE m = "types" -> <<I("t:any", None), I("t:if", "t:any"), I("t:eth", "t:if")>>
      [] m = "ext"   -> <<I("e:fast", "t:eth"), I("e:faster", "e:fast")>>
      [] m = "back"  -> <<I("b:1", "b:2"), I("b:2", None)>>
      [] m = "ring"  -> <<I("r:1", "r:2"), I("r:2", "r:3"), I("r:3", "r:1")>>
      [] m = "typo"  -> <<I("y:1", "y:9"), I("y:2", "t:if")>>]

\* What the proof of IdentrefExact assumes of the documents.
ASSUME OrderedHere == Ordered

=============================================================================
