---------------------------- MODULE MCPickNewest ----------------------------
(***************************************************************************)
(* Candidate lists of three versions, and rockspecs with overlays, for     *)
(* PickNewest.                                                             *)
(***************************************************************************)
EXTENDS UpstreamMerge

Letters == [w \in {"a", "b"} |-> IF w = "a" THEN <<0, 9700>> ELSE <<0, 9800>>]

N1 == Number(1)
N2 == Number(2)
N0 == Number(0)
Rc == Word("rc")

\* 1, 1.0, 1.2, 1.2.2, 1.2rc1, 1.2rc2, 1.2alpha1, 2, 2a, scm
Bodies ==
    {<<N1>>, <<N1, N0>>, <<N1, N2>>, <<N1, N2, N2>>, <<N1, N2, Rc, N1>>,
     <<N1, N2, Rc, N2>>, <<N1, N2, Word("alpha"), N1>>, <<N2>>, <<N2, Word("a")>>,
     <<Word("scm")>>}

Few == {<<N1>>, <<N1, N0>>, <<N1, N2>>}

Of(bodies, revs) == {ParseVersion(b, rev) : b \in bodies, rev \in revs}

Triples(W) == {<<u, v, w>> : u \in W, v \in W, w \in W}

MCVersionOf ==
    [s \in {"1.0", "1.1", "1.2", "1.2-1", "1.2-2", "3.0", "4.0"} |->
        CASE s = "1.0" -> ParseVersion(<<N1, N0>>, NoRevision)
          [] s = "1.1" -> ParseVersion(<<N1, N1>>, NoRevision)
          [] s = "1.2" -> ParseVersion(<<N1, N2>>, NoRevision)
          [] s = "1.2-1" -> ParseVersion(<<N1, N2>>, 1)
          [] s = "1.2-2" -> ParseVersion(<<N1, N2>>, 2)
          [] s = "3.0" -> ParseVersion(<<Number(3), N0>>, NoRevision)
          [] s = "4.0" -> ParseVersion(<<Number(4), N0>>, NoRevision)]

\* The constraints of dep, then other rocks, and strings that are no dependency.
MCWords ==
    LET W(name, segs) == [name |-> name, segs |-> segs]
        Dep(segs)     == W(<<"dep">>, segs)
    IN ("dep"                 :> Dep(<<>>)) @@
       ("dep ~> 1.2"          :> Dep(<< <<"~>", "1.2">> >>)) @@
       ("dep 1.2"             :> Dep(<< <<"", "1.2">> >>)) @@
       ("dep != 1.2-1 < 1.2"  :> Dep(<< <<"!=", "1.2-1">>, <<"<", "1.2">> >>)) @@
       ("dep>=1.2-1, <=1.2-2" :> Dep(<< <<">=", "1.2-1">>, <<"<=", "1.2-2">> >>)) @@
       ("dep > 1.2-1"         :> Dep(<< <<">", "1.2-1">> >>)) @@
       ("user/rock = 1.2"     :> W(<<"user", "rock">>, << <<"=", "1.2">> >>)) @@
       ("x/y/z"               :> W(<<"x", "y", "z">>, <<>>)) @@
       (">= 1.2"              :> W(<<>>, << <<">=", "1.2">> >>)) @@
       ("dep => 1.2"          :> Dep(<< <<"=>", "1.2">> >>))

Constraints == {"dep", "dep ~> 1.2", "dep 1.2", "dep != 1.2-1 < 1.2",
                "dep>=1.2-1, <=1.2-2", "dep > 1.2-1"}

-----------------------------------------------------------------------------
(* Rockspecs.                                                              *)

List(q)       == [i \in DOMAIN q |-> S(q[i])]
Lua(q, f)     == T(List(q), f)
Key(k, v)     == k :> v
File(globals) == [reads |-> {}, globals |-> T(<<>>, globals)]
With(file, k, v) == [file EXCEPT !.globals.key = (k :> v) @@ @]

Source == T(<<>>, Key("url", S("u")) @@ Key("tag", S("t")))
Make   == T(<<>>, Key("type", S("make")) @@ Key("makefile", S("m")))

Plainly ==
    File(Key("package", S("p")) @@ Key("version", S("1.2-1")) @@ Key("source", Source)
         @@ Key("rockspec_format", S("3.0")) @@ Key("build", Make)
         @@ Key("dependencies", Lua(<<"dep">>, NoKeys)))

\* A table with any of the overlays for each of three platforms, or none.
WithOverlays(t, overlays) ==
    {T(t.seq, t.key @@ Key("platforms", T(<<>>, f))) :
        f \in UNION {[P -> overlays] : P \in SUBSET {"unix", "linux", "bsd"}}}

DepLists ==
    UNION {WithOverlays(Lua(q, NoKeys), {Lua(<<"dep ~> 1.2">>, NoKeys),
                                         Lua(<<"dep 1.2", "user/rock = 1.2">>, NoKeys),
                                         Lua(<<"dep", "x/y/z", "dep > 1.2-1">>, NoKeys)}) :
              q \in {<<>>, <<"dep">>, <<"dep", "user/rock = 1.2">>}}

Sources ==
    WithOverlays(Source, {T(<<>>, Key("tag", S("t2"))),
                          T(<<>>, Key("url", S("u2")) @@ Key("branch", S("b"))),
                          T(<<>>, Key("url", S("u3")) @@ Key("dir", S("d")))})

Modules(m) == Key("modules", T(<<>>, m))

\* Modules as paths, as arrays of sources and as tables; variables, targets,
\* directories and installed files.  An overlay keeps the form of a module.
Builds ==
    LET base1 == T(<<>>, Key("type", S("builtin")) @@ Key("copy_directories", Lua(<<"doc", "samples">>, NoKeys))
                   @@ Modules(Key("m", S("m.lua")) @@ Key("c", Lua(<<"a.c", "b.c">>, Key("defines", Lua(<<"D">>, NoKeys))))))
        base2 == T(<<>>, Key("variables", T(<<>>, Key("V", S("1")))))
        over1 == T(<<>>, Key("copy_directories", Lua(<<"extra">>, NoKeys))
                   @@ Modules(Key("c", Lua(<<"z.c">>, Key("defines", Lua(<<"E", "F">>, NoKeys))))
                              @@ Key("n", S("n.lua"))))
        over2 == T(<<>>, Key("type", S("cmake")) @@ Key("build_target", S("all"))
                   @@ Key("variables", T(<<>>, Key("V", S("2")) @@ Key("W", S("3"))))
                   @@ Key("install", T(<<>>, Key("bin", T(<<>>, Key("run", S("r")))))))
        over3 == T(<<>>, Key("copy_directories", Lua(<<"x", "y", "z">>, NoKeys))
                   @@ Modules(Key("m", S("m2.lua")) @@ Key("n", S("n2.lua")))
                   @@ Key("install", T(<<>>, Key("bin", T(<<>>, Key("run", S("q"))))
                                             @@ Key("conf", T(<<>>, Key("c", S("k")))))))
    IN UNION {WithOverlays(b, {over1, over2, over3}) : b \in {base1, base2}}

Externals ==
    LET z(h) == T(<<>>, Key("Z", T(<<>>, Key("header", S(h)))))
    IN WithOverlays(z("z.h"), {z("zlib.h")})

\* Older formats, wrong types, unknown globals, bad dependencies and overlays.
Odd ==
    LET old   == With(Plainly, "rockspec_format", S("1.0"))
        none  == [Plainly EXCEPT !.globals.key = [k \in DOMAIN @ \ {"build"} |-> @[k]]]
        bad(d) == Lua(<<"dep", d>>, NoKeys)
    IN {old, none, With(none, "rockspec_format", S("1.1")),
        With(Plainly, "rockspec_format", S("4.0")), With(Plainly, "version", S("1.2")),
        With(Plainly, "version", EmptyT), With(Plainly, "source", EmptyT),
        With(Plainly, "os", EmptyT), [Plainly EXCEPT !.reads = {"string"}],
        With(old, "build_dependencies", Lua(<<"dep">>, NoKeys)),
        With(old, "description", T(<<>>, Key("labels", Lua(<<"l">>, NoKeys)))),
        With(old, "deploy", T(<<>>, Key("wrap_bin_scripts", B(FALSE)))),
        With(Plainly, "deploy", T(<<>>, Key("wrap_bin_scripts", B(FALSE)))),
        With(Plainly, "dependencies", bad(">= 1.2")), With(Plainly, "dependencies", bad("dep => 1.2")),
        With(Plainly, "dependencies", T(<<B(TRUE)>>, NoKeys)),
        With(Plainly, "supported_platforms", Lua(<<"unix">>, NoKeys)),
        With(Plainly, "build", T(<<>>, Key("type", S("odd")))),
        With(Plainly, "build", T(<<>>, Key("type", S("make")) @@
             Key("platforms", T(<<>>, Key("windows", T(<<>>, Key("type", S("odd"))))))))}

Various ==
    Odd \cup {With(Plainly, "dependencies", t) : t \in DepLists}
        \cup {With(Plainly, "test_dependencies", t) : t \in DepLists}
        \cup {With(Plainly, "source", t) : t \in Sources}
        \cup {With(Plainly, "build", t) : t \in Builds}
        \cup {With(Plainly, "external_dependencies", t) : t \in Externals}

Depends(ds) == {With(Plainly, "dependencies", Lua(<<d>>, NoKeys)) : d \in ds}

\* Every rockspec on a host with two, three and one of the platforms; lists as servers
\* publish them, every version with a revision; and lists of versions without.
MCInputs ==
    {[files |-> Various, hosts |-> {"linux", "freebsd", "plan9"},
      lists |-> {<<MCVersionOf["1.2-1"]>>}],
     [files |-> Depends(Constraints), hosts |-> {"linux"},
      lists |-> Triples(Of(Bodies, {1}) \cup Of(Few, {2}))],
     [files |-> Depends({"dep", "dep ~> 1.2"}), hosts |-> {"linux"},
      lists |-> Triples(Of(Bodies, {NoRevision}))]}
=============================================================================
