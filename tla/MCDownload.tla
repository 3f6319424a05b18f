----------------------------- MODULE MCDownload -----------------------------
(***************************************************************************)
(* Servers and calls for Search and Download.  "dir" is a directory, "web" *)
(* and "alt" are HTTP servers.                                             *)
(***************************************************************************)
EXTENDS Download

NameList == <<"lua", "luabitop", "luajit", "rock", "rocket", "tarantool">>

Substrings ==
    {<<n, n>> : n \in ToSet(NameList)} \cup {<<n, "">> : n \in ToSet(NameList)} \cup
    {<<"rocket", "rock">>, <<"luabitop", "lua">>, <<"luajit", "lua">>}

LowerCase ==
    [p \in {"", "rock", "Rock", "lua", "NS", "with/slashes"} |->
        CASE p = "Rock" -> "rock" [] p = "NS" -> "ns" [] OTHER -> p]

NoLetters == [w \in {} |-> Zero]

Parses(toks, rev) == [parses |-> TRUE, version |-> ParseVersion(toks, rev)]

N(n) == Number(n)

\* 1-1, 1.0-1, 1.10-1, 1.2-1, 1.2rc1-1, 5.1-1, and one that does not parse
StringList ==
    <<Parses(<<N(1)>>, 1), Parses(<<N(1), N(0)>>, 1), Parses(<<N(1), N(10)>>, 1),
      Parses(<<N(1), N(2)>>, 1), Parses(<<N(1), N(2), Word("rc"), N(1)>>, 1),
      Parses(<<N(5), N(1)>>, 1), [parses |-> FALSE]>>

VMVersions == [n \in {"lua", "luajit", "luabitop", "tarantool"} |-> IF n = "lua" THEN 6 ELSE 1]

-----------------------------------------------------------------------------
(* Manifests: what is offered of rock, of rocket and of lua.               *)

Sparse(E) ==
    [nv \in {<<e[1], e[2]>> : e \in E} |->
        (CHOOSE e \in E : e[1] = nv[1] /\ e[2] = nv[2])[3]]

Nothing == Sparse({})

Of(a, b, c) == Sparse({<<"rock", 3, a>>, <<"rock", 4, b>>, <<"rock", 5, c>>,
                       <<"rock", 7, <<"src">>>>, <<"rocket", 4, <<"all">>>>})

Lists == {<<>>, <<"rockspec">>, <<"src", "rockspec">>, <<"linux", "src", "all">>,
          <<"rockspec", "other", "src">>}

\* 1.10, 1.2 and 1.2rc1, each in some arches.
Many == {Of(a, b, c) : a \in Lists, b \in Lists, c \in Lists}

\* Two strings of one version, in either order of their kinds.
Tied == {Sparse({<<"rock", 1, a>>, <<"rock", 2, b>>}) : a \in Lists, b \in Lists}

Exact == Sparse({<<"rock", 4, <<"rockspec">>>>, <<"rocket", 5, <<"src">>>>})
Built == Sparse({<<"rock", 3, <<"linux">>>>, <<"rock", 4, <<"src">>>>, <<"lua", 6, <<"src">>>>})
Tree  == Sparse({<<"rock", 4, <<"installed">>>>, <<"rocket", 1, <<"all">>>>})

Holding(isLocal, mf) ==
    [local |-> isLocal, manifest |-> [ns \in {"", "ns"} |-> IF ns = "" THEN mf ELSE Exact]]

Bad(isLocal) == [local |-> isLocal, manifest |-> <<>>]

Some(isLocal) == {Bad(isLocal)} \cup {Holding(isLocal, m) : m \in {Nothing, Exact, Built, Tree}}

Servers(d, w, a) ==
    [s \in {"dir", "web", "alt"} |->
        CASE s = "dir" -> d [] s = "web" -> w [] s = "alt" -> a]

-----------------------------------------------------------------------------
(* Calls.                                                                  *)

Arg(name) == [parts |-> <<name>>, isFile |-> FALSE]
Spaced    == [parts |-> <<"NS", "Rock">>, isFile |-> FALSE]
Slashes   == [parts |-> <<"NS", "Rock", "lua">>, isFile |-> FALSE]

AnyVersion == [parses |-> TRUE, cs |-> <<>>]
Unreadable == [parses |-> FALSE, cs |-> <<>>]
Op12(op, raw, rev) == [parses |-> TRUE, cs |->
    <<[op |-> op, raw |-> raw, version |-> ParseVersion(<<N(1), N(2)>>, rev)]>>]
Is12  == Op12("==", 4, 1)
Bare  == Op12("==", 0, NoRevision)
AtMost == Op12("<=", 4, 1)

Base == [what |-> "search", arg |-> Arg("rock"), version |-> AnyVersion, servers |-> <<>>,
         all |-> FALSE, source |-> FALSE, binary |-> FALSE, rockspec |-> FALSE, arch |-> ""]
Get  == [Base EXCEPT !.what = "download"]
None == [Base EXCEPT !.what = "none"]

Versioned(call) == {[call EXCEPT !.version = v] : v \in {AnyVersion, Is12, Bare, AtMost}}

Searches ==
    Versioned(Base) \cup
    {[Base EXCEPT !.arg = a] : a \in {EmptyArg, Arg("Rock"), Arg("lua"), Spaced, Slashes,
                                      [Arg("Rock") EXCEPT !.isFile = TRUE]}} \cup
    {[Base EXCEPT !.all = TRUE, !.arg = EmptyArg], [Base EXCEPT !.version = Unreadable],
     [Base EXCEPT !.source = TRUE], [Base EXCEPT !.binary = TRUE],
     [Base EXCEPT !.servers = <<"alt">>], [Base EXCEPT !.servers = <<"web">>, !.version = Is12]}

Downloads ==
    Versioned(Get) \cup
    {[Get EXCEPT !.arg = a] : a \in {EmptyArg, Arg("lua"), Spaced}} \cup
    {[Get EXCEPT !.all = TRUE, !.arg = EmptyArg], [Get EXCEPT !.all = TRUE, !.version = Is12],
     [Get EXCEPT !.version = Unreadable], [Get EXCEPT !.arch = "other"],
     [Get EXCEPT !.source = TRUE], [Get EXCEPT !.source = TRUE, !.arch = "src"],
     [Get EXCEPT !.rockspec = TRUE], [Get EXCEPT !.servers = <<"alt">>, !.version = Is12]}

World(servers, configured, one, two) ==
    [servers |-> servers, configured |-> configured, workingDir |-> TRUE,
     call |-> [c \in Callers |-> IF c = "c1" THEN one ELSE two]]

\* One server and one call, every manifest.
Single ==
    {World(Servers(Bad(TRUE), Holding(FALSE, m), Bad(FALSE)), <<"web">>, call, None) :
        m \in Many \cup Tied, call \in Versioned(Get) \cup {Base}}

\* Three servers, every call.
Several ==
    {World(Servers(d, w, a), <<"dir", "web">>, call, None) :
        d \in Some(TRUE), w \in Some(FALSE), a \in {Bad(FALSE), Holding(FALSE, Exact)},
        call \in Searches \cup Downloads}

\* No server, or no working directory.
Lone ==
    {[World(Servers(Bad(TRUE), Bad(FALSE), Bad(FALSE)), s, call, None) EXCEPT !.workingDir = w] :
        s \in {<<>>, <<"web">>}, w \in BOOLEAN, call \in {Base, Get}}

\* Two calls at a time.
Same == [Get EXCEPT !.version = Is12]
Both ==
    {World(Servers(Bad(TRUE), Holding(FALSE, Exact), Holding(FALSE, Exact)), <<"web">>, one, two) :
        one \in {Same, [Same EXCEPT !.all = TRUE]},
        two \in {Same, [Same EXCEPT !.all = TRUE], [Same EXCEPT !.servers = <<"alt">>],
                 [Get EXCEPT !.all = TRUE, !.arg = Arg("lua")], Base}}

All == Single \cup Several \cup Lone \cup Both
=============================================================================
