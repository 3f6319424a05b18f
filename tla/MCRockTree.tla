----------------------------- MODULE MCRockTree -----------------------------
(***************************************************************************)
(* Catalogs of rocks for the model checker.  "a1" and "a2" are versions 1  *)
(* and 2 of rock a, "b1" is version 1 of rock b; a sorts before b.         *)
(***************************************************************************)
EXTENDS RockTree

TwoVersions == {"a1", "a2"}
ThreeRocks  == {"a1", "a2", "b1"}

CatName == [r \in Rocks |-> IF r = "b1" THEN 2 ELSE 1]
CatVer  == [r \in Rocks |-> IF r = "a2" THEN 2 ELSE 1]

NoInit == [i \in Items |-> i]
InitOf == [i \in Items |-> IF i = "foo.init" THEN "foo" ELSE i]

NoTargets == [r \in Rocks |-> {}]
NoBins    == [r \in Rocks |-> {}]

\* Every rock has the Lua module foo; a2 adds a C module of the same name.
FooDeclared ==
    [r \in Rocks |-> {<<"lua", "foo">>}]
FooStaged ==
    [r \in Rocks |-> IF r = "a2" THEN {<<"lib", "foo">>} ELSE {}]

\* a1 has foo, b1 has foo.init and a2 has both; a1 is a builtin rock, whose
\* modules the backend also leaves in the lua subtree of the build directory.
MixDeclared ==
    [r \in Rocks |-> CASE r = "a1" -> {<<"lua", "foo">>}
                       [] r = "a2" -> {<<"lua", "foo">>, <<"lua", "foo.init">>}
                       [] OTHER    -> {<<"lua", "foo.init">>}]
MixStaged ==
    [r \in Rocks |-> CASE r = "a1" -> {<<"lua", "foo">>}
                       [] r = "a2" -> {<<"lib", "foo">>}
                       [] OTHER    -> {<<"lib", "bar">>}]

\* b1 has a command, of the name of its C module.
ShareBins ==
    [r \in Rocks |-> IF r = "b1" THEN {"bar"} ELSE {}]

\* Short lists without duplicates, to compare Without with the loop it stands
\* for.
ASSUME WithoutIsFilter ==
    \A list \in UNION {[1..n -> Rocks] : n \in 0..3} : \A r \in Rocks :
        Distinct(list) => Without(list, r) = SelectSeq(list, LAMBDA x : x # r)

LuaFoo == {<<"lua", "foo">>}
AllFoo == {<<"lua", "foo">>, <<"lib", "foo">>}
=============================================================================
