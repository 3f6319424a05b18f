----------------------------- MODULE MCResolver -----------------------------
(***************************************************************************)
(* Small worlds for Resolver: r is what the user installs; a has two       *)
(* versions; b and c have one; c may be a rock the VM provides.            *)
(***************************************************************************)
EXTENDS Resolver

On(n, S) == [name |-> n, allow |-> S]
Any == {1, 2}

Lists(S) == {<<>>} \cup {<<d>> : d \in S} \cup {<<d, e>> : d \in S, e \in S}

RootLists == Lists({On("a", Any), On("a", {1}), On("a", {2}), On("b", Any)})
A1Lists   == {<<>>, <<On("b", Any)>>}
A2Lists   == {<<>>, <<On("c", Any), On("b", Any)>>, <<On("c", {2})>>}
BLists    == {<<>>, <<On("a", Any)>>, <<On("a", {1})>>, <<On("c", {1})>>,
              <<On("c", Any), On("a", {2})>>}
CLists    == {<<>>, <<On("b", Any)>>}

Make(r1, a1, a2, b1, c1, provided, tree) ==
    [index    |-> [n \in Names |-> IF n = "a" THEN {1, 2} ELSE {1}],
     deps     |-> [n \in Names |-> [v \in Versions |->
                     CASE n = "r" -> r1
                       [] n = "a" /\ v = 1 -> a1
                       [] n = "a" /\ v = 2 -> a2
                       [] n = "b" -> b1
                       [] n = "c" -> c1]],
     provided |-> [n \in Names |-> IF n = "c" THEN provided ELSE {}],
     tree     |-> [n \in Names |-> IF n = "a" THEN tree ELSE {}]]

ManyWorlds ==
    {Make(r1, a1, a2, b1, c1, p, t) :
        r1 \in RootLists, a1 \in A1Lists, a2 \in A2Lists, b1 \in BLists, c1 \in CLists,
        p \in {{}, {1}}, t \in {{}, {1}, {2}}}
=============================================================================
