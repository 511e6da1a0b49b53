---- MODULE MCDeviations ----
(***************************************************************************)
(* A module with the data nodes a, c { x, list y { k }, w } and z, which   *)
(* up to two modules deviate: the list, a last leaf and an only child with *)
(* all properties, the container in the middle by its config.              *)
(***************************************************************************)
EXTENDS Deviations

N == {"a", "c", "z", "x", "y", "k", "w"}
Tree == [n \in N \cup {"root"} |-> CASE n = "root" -> <<"a", "c", "z">> [] n = "c" -> <<"x", "y", "w">>
                                     [] n = "y" -> <<"k">> [] OTHER -> <<>>]
Kinds == [n \in N |-> CASE n = "c" -> "container" [] n = "y" -> "list" [] OTHER -> "leaf"]
NoKeys == {}

Bare == [config |-> "true", default |-> Absent, mandatory |-> Absent, min |-> Absent, max |-> Absent,
         type |-> "t", units |-> Absent, must |-> <<>>, unique |-> <<>>]
Full(n) ==
  CASE n = "y" -> [Bare EXCEPT !.min = "1", !.must = <<"m1", "m2", "m1">>, !.unique = <<"q1", "q2">>]
    [] n = "w" -> [Bare EXCEPT !.default = "d", !.units = "u", !.mandatory = "false", !.must = <<"m1">>]
    [] OTHER -> Bare
StartSet == {[n \in N |-> Bare], [n \in N |-> Full(n)]}

E(n, v) == [n |-> n, v |-> v]
Subs(n) ==
  CASE n = "y" -> {E("config", "false"), E("min", "1"), E("min", "2"), E("must", "m1"), E("must", "m3"),
                   E("unique", "q1"), E("unique", "q3")}
    [] n = "w" -> {E("default", "d"), E("default", "e"), E("mandatory", "false"), E("type", "t2"),
                   E("units", "u"), E("must", "m1"), E("unknown", "v")}
    [] n \in {"k", "x"} -> {E("units", "u")}
    [] n = "c" -> {E("config", "false")}
Mods == {"add", "replace", "delete"}
Ds(subs, k) == {[mod |-> m, subs |-> s] : m \in Mods, s \in [1..k -> subs]}
One(n) == {[target |-> n, deviates |-> <<d>>] : d \in Ds(Subs(n), 1)}
Pairs == {E("min", "1"), E("must", "m1"), E("unique", "q3")}
Two(n) == {[target |-> n, deviates |-> <<d>>] : d \in Ds(Pairs, 2)}
            \cup {[target |-> n, deviates |-> <<d1, d2>>] : d1 \in Ds(Pairs, 1), d2 \in Ds(Pairs, 1)}
NotSupported == [mod |-> "not-supported", subs |-> <<>>]
Gone(n) == {[target |-> n, deviates |-> <<NotSupported>>],
            [target |-> n, deviates |-> <<NotSupported, NotSupported>>]}

SomeStmts == One("y") \cup Two("y") \cup One("w") \cup One("c") \cup One("k") \cup Gone("k")
FewStmts == One("k") \cup One("c")
LostDeviates == {<<"delete", "units">>}
====
