--------------------------- MODULE MCSourceBuild ----------------------------
(***************************************************************************)
(* Rocks for SourceBuild, packed the ways rock authors pack them.          *)
(***************************************************************************)
EXTENDS SourceBuild

Plain == [name |-> "x", kind |-> "rockspec", scheme |-> "http", md5 |-> "match",
          dir |-> NoName, deduced |-> "x-1", layout |-> {Dir("x-1")}, root |-> "x-1",
          backend |-> "builtin", mods |-> {1, 2}, passes |-> {"build", "install"},
          format3 |-> TRUE, luadir |-> FALSE, supported |-> TRUE]

\* A directory named like the archive, alone or with stray files beside it; one
\* named otherwise; one that source.dir names; a flat archive; a single file.
Archives ==
    {Plain,
     [Plain EXCEPT !.mods = {2}, !.layout = {Dir("x-1"), Dir("META"), File("pax")}],
     [Plain EXCEPT !.deduced = "v1"],
     [Plain EXCEPT !.layout = {Dir("x-1"), Dir("core")}, !.dir = "core", !.root = "core"],
     [Plain EXCEPT !.layout = {Dir("src"), File("x.lua")}, !.root = "."],
     [Plain EXCEPT !.layout = {File("x.lua")}, !.root = "."]}

\* The checkout of a repository named like one of its own directories, and of
\* one that holds nothing but a directory.
Checkouts ==
    {[Plain EXCEPT !.scheme = "git", !.md5 = "none", !.deduced = "checks", !.root = ".",
                   !.backend = l[1], !.layout = l[2]] :
        l \in {<<"cmake", {Dir("checks"), File("CMakeLists.txt")}>>, <<"make", {Dir("src")}>>}}

\* Each as a rockspec and bundled; an archive also off disk and with a wrong md5;
\* a checkout also of a version control system there is no backend for.
Fetched ==
    Archives \cup Checkouts \cup {[r EXCEPT !.scheme = "path"] : r \in Archives}
        \cup {[r EXCEPT !.md5 = "mismatch"] : r \in Archives}
        \cup {[r EXCEPT !.scheme = "tree"] : r \in Checkouts}
        \cup {[r EXCEPT !.scheme = "odd"] : r \in Checkouts}

Bundled == {[r EXCEPT !.kind = "src"] : r \in {f \in Fetched : f.scheme # "tree"}}

Catalog ==
    Fetched \cup Bundled \cup
    {[Plain EXCEPT !.kind = "binary"], [Plain EXCEPT !.supported = FALSE],
     [Plain EXCEPT !.backend = "none"], [Plain EXCEPT !.backend = "command"],
     [Plain EXCEPT !.backend = "make", !.passes = {"build"}],
     [Plain EXCEPT !.backend = "cmake", !.luadir = TRUE],
     [Plain EXCEPT !.backend = "cmake", !.passes = {}, !.format3 = FALSE]}

Other == [Plain EXCEPT !.name = "y"]

\* Other after any rock of the catalog, or before it.
Pairs == {<<r, Other>> : r \in Catalog} \cup {<<Other, r>> : r \in Catalog}

All == Catalog \cup {Other}
=============================================================================
