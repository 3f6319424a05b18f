--------------------------- MODULE MCManifestStore ---------------------------
(***************************************************************************)
(* ManifestStore for the model checker: two versions of a, one of them     *)
(* also made with nothing but documentation, and b that depends on a of a  *)
(* namespace, at versions of a repository.                                 *)
(***************************************************************************)
EXTENDS ManifestStore

\* Readers run the same code.
Symmetric == Permutations(Readers)

MCStringRank == ("1.10-1" :> 1) @@ ("1.9-1" :> 2)

Foo  == <<"foo.lua">>
Init2 == <<"foo", "init.lua">>
FooC == <<"foo.so">>
Run  == <<"run">>
Doc  == <<"html", "index.html">>

MCModuleAt == (Foo :> "foo") @@ (Init2 :> "foo.init") @@ (FooC :> "foo")

V(raw, comps, rev) ==
    [raw |-> raw, comps |-> comps, hasRevision |-> rev > 0, revision |-> rev,
     isSCM |-> raw = "scm-1", isDev |-> raw = "dev"]
C(op, version) == [op |-> op, version |-> version]
D(name, cs)    == [name |-> name, namespace |-> "", constraints |-> cs]

Rock(file, lua, lib, bin, doc) ==
    LET sums(S) == [p \in S |-> "md5"]
    IN [Rockspec |-> "md5", RockspecFile |-> file,
        Dirs |-> [lua |-> sums(lua), lib |-> sums(lib), bin |-> sums(bin),
                  conf |-> sums({}), doc |-> sums(doc)]]

MCSpecs == {
    [name |-> "a", ver |-> "1.9-1", deps |-> <<>>, bin |-> [run |-> "src/run"],
     rm |-> Rock("a-1.9-1.rockspec", {Foo, Init2}, {}, {Run}, {})],
    [name |-> "a", ver |-> "1.9-1", deps |-> <<>>, bin |-> NoKeys,
     rm |-> Rock("a-1.9-1.rockspec", {}, {}, {}, {Doc})],
    [name |-> "a", ver |-> "1.10-1", bin |-> NoKeys,
     deps |-> <<D("lua", <<C(">=", V("5.1", <<5, 1>>, 0)), C("<", V("5.4-1", <<5, 4>>, 1))>>),
                D("a", <<>>)>>,
     rm |-> Rock("a-1.10-1.rockspec", {Foo}, {FooC}, {}, {})],
    [name |-> "b", ver |-> "1.9-1", bin |-> NoKeys,
     deps |-> <<[D("a", <<C(">=", V("scm-1", <<110000000>>, 1)),
                          C("<=", V("dev", <<120000000>>, 0))>>)
                 EXCEPT !.namespace = "user"]>>,
     rm |-> Rock("b-1.9-1.rockspec", {Init2}, {}, {}, {})]}
=============================================================================
