------------------------------- MODULE Search -------------------------------
(***************************************************************************)
(* Search: the rows of the rock servers' manifests that match a query.     *)
(* The servers are walked in order, a server that cannot be read is        *)
(* skipped, the rocks the VM provides are added, and the rows are sorted   *)
(* and split into source and binary ones.  Download makes the same walk.   *)
(*                                                                         *)
(* How a server's manifest is found and cached is RemoteIndex's subject;   *)
(* here loading it is one step that succeeds or fails.                     *)
(***************************************************************************)
EXTENDS Versions, FiniteSets

CONSTANTS
    Names,        \* the rock names, in string order
    InName,       \* the pairs <<name, pattern>> with the pattern in the name
    Lower,        \* part of an argument -> the same in lower case
    Strings,      \* the version strings, in string order: [parses, version]
    Host,         \* the arch of this host
    VMVersion,    \* rock the VM may provide -> its version string
    Provides,     \* those it provides for certain: lua, and tarantool if configured
    Callers,
    Worlds        \* [servers, configured, workingDir, call]: the servers, what is
                  \* configured, and what each caller calls

(* Names and strings are lists, servers are those of the world, and a       *)
(* manifest lists names and strings there are.                              *)
ASSUME SearchAssumption ==
    /\ Names \in Seq(STRING)
    /\ Len(Strings) \in Nat /\ DOMAIN Strings = 1..Len(Strings)
    /\ \A w \in Worlds :
          /\ w.configured \in Seq(DOMAIN w.servers)
          /\ \A c \in Callers : w.call[c].servers \in Seq(DOMAIN w.servers)
          /\ \A s \in DOMAIN w.servers : \A ns \in DOMAIN w.servers[s].manifest :
                LET mf == w.servers[s].manifest[ns]
                IN \A nv \in DOMAIN mf : /\ nv \in ToSet(Names) \X DOMAIN Strings
                                         /\ mf[nv] \in Seq(STRING)

NoName       == ""
ProvidedRepo == "provided"

VARIABLES
    world,   \* the world at hand
    walk,    \* caller -> its walk over the servers
    luajit   \* what the memoized probe of the interpreter said

searchVars == <<world, walk, luajit>>

Idle == [pc |-> "idle", q |-> <<>>, servers |-> <<>>, k |-> 1, failed |-> {},
         found |-> <<>>, result |-> <<>>]

Call(c) == world.call[c]

-----------------------------------------------------------------------------
(* The query.                                                              *)

(* An argument is its parts between slashes.  Two non-empty parts are a     *)
(* namespace and a name; the name of a file is taken as it is.              *)
SplitNamespacedName(arg) ==
    LET whole == IF Len(arg.parts) = 1 THEN arg.parts[1] ELSE "with/slashes"
    IN IF arg.isFile THEN <<whole, NoName>>
       ELSE IF Len(arg.parts) = 2 /\ NoName \notin ToSet(arg.parts)
            THEN <<Lower[arg.parts[2]], Lower[arg.parts[1]]>>
            ELSE <<Lower[whole], NoName>>

EmptyArg == [parts |-> <<NoName>>, isFile |-> FALSE]

(* The servers of the call come before the configured ones.                *)
SearchServers(call) == call.servers \o world.configured

(* rocksProvided: luajit and luabitop only if the interpreter told its      *)
(* version.                                                                 *)
RocksProvided(jit) == Provides \cup (IF jit = "known" THEN {"luajit", "luabitop"} ELSE {})

(* luajitVersion asks the interpreter once.                                *)
Probe(jit) ==
    /\ jit \in IF luajit = "unasked" THEN {"known", "none"} ELSE {luajit}
    /\ luajit' = jit

AcceptedArchSet(want) ==
    IF want # {} THEN want ELSE {"src", "all", "rockspec", "installed", Host}

MatchName(q, name) == IF q.substring THEN <<name, q.name>> \in InName ELSE name = q.name

(* deps.Match of a version string, if it parses.                           *)
MatchVersion(q, v) == Strings[v].parses /\ Match(Strings[v].version, q.cs)

(* The string of the first == constraint, 0 if there is none.              *)
ExactVersion(cs) ==
    LET k == SelectInSeq(cs, LAMBDA c : c.op = "==") IN IF k = 0 THEN 0 ELSE cs[k].raw

\* Mutant: any row of the rock ends the walk.
FoundAny(found, q) == \E k \in DOMAIN found : found[k].name = q.name

HasExactMatch(found, q) ==
    /\ q.name # NoName
    /\ \E k \in DOMAIN found :
          found[k].name = q.name /\ found[k].version = ExactVersion(q.cs)

-----------------------------------------------------------------------------
(* The rows.                                                               *)

Row(server, name, v, arch) == [server |-> server, name |-> name, version |-> v, arch |-> arch]

(* A manifest is a function from the names and version strings it lists to  *)
(* their arches.                                                            *)
Arches(mf, name, v) == IF <<name, v>> \in DOMAIN mf THEN mf[<<name, v>>] ELSE <<>>

(* Lists one after the other.                                              *)
Joined(lists) ==
    LET join[k \in 0..Len(lists)] == IF k = 0 THEN <<>> ELSE join[k - 1] \o lists[k]
    IN join[Len(lists)]

(* The rows of a server's manifest, in the order of names and strings.     *)
MatchManifest(server, mf, q) ==
    LET rowsOf(name, v) ==
            LET arches == Arches(mf, name, v)
            IN Joined([k \in DOMAIN arches |->
                  IF arches[k] \in AcceptedArchSet(q.arch)
                  THEN <<Row(server, name, v, arches[k])>> ELSE <<>>])
        ofName(name) ==
            Joined([v \in DOMAIN Strings |->
                IF MatchVersion(q, v) THEN rowsOf(name, v) ELSE <<>>])
    IN Joined([n \in DOMAIN Names |->
            IF MatchName(q, Names[n]) THEN ofName(Names[n]) ELSE <<>>])

MatchProvided(q) ==
    LET matches(n) == n \in q.provided /\ MatchName(q, n) /\ MatchVersion(q, VMVersion[n])
    IN IF "installed" \notin AcceptedArchSet(q.arch) \/ q.ns # NoName THEN <<>>
       ELSE Joined([k \in DOMAIN Names |->
                IF matches(Names[k])
                THEN <<Row(ProvidedRepo, Names[k], VMVersion[Names[k]], "installed")>>
                ELSE <<>>])

NameRank(name) == CHOOSE k \in DOMAIN Names : Names[k] = name

\* Mutant: the order of the strings, newest first.
LessByString(a, b) ==
    \/ NameRank(a.name) < NameRank(b.name)
    \/ a.name = b.name /\ a.version > b.version

(* The comparison of sortMatches: names ascending, versions descending.    *)
Less(a, b) ==
    \/ NameRank(a.name) < NameRank(b.name)
    \/ /\ a.name = b.name
       /\ a.version # b.version
       /\ Compare(Strings[a.version].version, Strings[b.version].version) > 0

(* sort.SliceStable on at most 20 rows: insertion.                         *)
SortMatches(rows) ==
    LET insert(sorted, row) ==
            LET stay == {k \in DOMAIN sorted : ~ Less(row, sorted[k])}
                at   == IF stay = {} THEN 0 ELSE CHOOSE k \in stay : \A j \in stay : j <= k
            IN InsertAt(sorted, at + 1, row)
        sort[k \in 0..Len(rows)] ==
            IF k = 0 THEN <<>> ELSE insert(sort[k - 1], rows[k])
    IN sort[Len(rows)]

IsBinary(row) == row.arch \in {"all", Host}

(* splitSourceAndBinaryResults.                                            *)
SplitResults(rows, call) ==
    (IF call.binary THEN <<>> ELSE SelectSeq(rows, LAMBDA r : ~ IsBinary(r))) \o
    (IF call.source THEN <<>> ELSE SelectSeq(rows, IsBinary))

-----------------------------------------------------------------------------
(* The walk.                                                               *)

Query(call, substring, arch, provided) ==
    LET nn == SplitNamespacedName(call.arg)
    IN [name |-> nn[1], ns |-> nn[2], substring |-> substring,
        cs |-> call.version.cs, arch |-> arch, provided |-> provided]

BeginWalk(c, q) ==
    walk' = [walk EXCEPT ![c] = [Idle EXCEPT !.pc = "walk", !.q = q,
                                             !.servers = SearchServers(Call(c))]]

Refuse(c) == walk' = [walk EXCEPT ![c].pc = "error"]

(* Search without a pattern or All, with a version that does not parse, or  *)
(* without servers, is an error.  All ignores pattern and version.          *)
BadSearch(call) ==
    \/ ~ call.all /\ (call.arg = EmptyArg \/ ~ call.version.parses)
    \/ SearchServers(call) = <<>>

RejectSearch(c) ==
    /\ Call(c).what = "search"
    /\ walk[c].pc = "idle"
    /\ BadSearch(Call(c))
    /\ Refuse(c)
    /\ UNCHANGED <<world, luajit>>

StartSearch(c) ==
    /\ Call(c).what = "search"
    /\ walk[c].pc = "idle"
    /\ ~ BadSearch(Call(c))
    /\ \E jit \in {"known", "none"} :
          LET q == Query(Call(c), TRUE, {}, RocksProvided(jit))
          IN /\ Probe(jit)
             /\ BeginWalk(c, IF Call(c).all
                             THEN [q EXCEPT !.name = NoName, !.ns = NoName, !.cs = <<>>]
                             ELSE q)
    /\ UNCHANGED world

Walking(c) == walk[c].pc = "walk" /\ walk[c].k <= Len(walk[c].servers)

Server(c) == walk[c].servers[walk[c].k]

(* Whether the server has a manifest of the namespace, and that manifest.  *)
HasManifest(s, q) == q.ns \in DOMAIN world.servers[s].manifest
ManifestOf(s, q)  == IF HasManifest(s, q) THEN world.servers[s].manifest[q.ns] ELSE <<>>

(* The rows of the server's manifest; after an exact match no more servers  *)
(* are asked.                                                               *)
LoadServer(c) ==
    /\ Walking(c)
    /\ HasManifest(Server(c), walk[c].q)
    /\ LET found == walk[c].found \o
                    MatchManifest(Server(c), ManifestOf(Server(c), walk[c].q), walk[c].q)
       IN walk' = [walk EXCEPT ![c].found = found,
                               ![c].k = IF HasExactMatch(found, walk[c].q)
                                        THEN Len(walk[c].servers) + 1 ELSE @ + 1]
    /\ UNCHANGED <<world, luajit>>

\* Mutant: a server that fails ends the walk.
ServerFailsAll(c) ==
    /\ Walking(c)
    /\ ~ HasManifest(Server(c), walk[c].q) \/ ~ world.servers[Server(c)].local
    /\ walk' = [walk EXCEPT ![c].k = Len(walk[c].servers) + 1, ![c].failed = @ \cup {walk[c].k}]
    /\ UNCHANGED <<world, luajit>>

(* The manifest is not there, or the server does not answer.               *)
ServerFails(c) ==
    /\ Walking(c)
    /\ ~ HasManifest(Server(c), walk[c].q) \/ ~ world.servers[Server(c)].local
    /\ walk' = [walk EXCEPT ![c].k = @ + 1, ![c].failed = @ \cup {walk[c].k}]
    /\ UNCHANGED <<world, luajit>>

(* The VM's rocks join, and the rows are sorted.  It is an error to have    *)
(* found nothing if a server failed.                                        *)
EndWalk(c) ==
    /\ walk[c].pc = "walk"
    /\ ~ Walking(c)
    /\ LET found == walk[c].found \o MatchProvided(walk[c].q)
       IN walk' = [walk EXCEPT ![c].found = SortMatches(found),
                               ![c].pc = IF found = <<>> /\ walk[c].failed # {}
                                         THEN "failed" ELSE "walked"]
    /\ UNCHANGED <<world, luajit>>

ReturnSearch(c) ==
    /\ Call(c).what = "search"
    /\ walk[c].pc = "walked"
    /\ walk' = [walk EXCEPT ![c].pc = "done", ![c].result = SplitResults(walk[c].found, Call(c))]
    /\ UNCHANGED <<world, luajit>>

SearchInit ==
    /\ world \in Worlds
    /\ walk = [c \in Callers |-> Idle]
    /\ luajit = "unasked"

SearchStep(c) ==
    \/ RejectSearch(c) \/ StartSearch(c) \/ LoadServer(c) \/ ServerFails(c) \/ EndWalk(c)
    \/ ReturnSearch(c)

-----------------------------------------------------------------------------
(* Properties.                                                             *)

Wanted(q, name, v, arch) ==
    /\ MatchName(q, name)
    /\ MatchVersion(q, v)
    /\ arch \in AcceptedArchSet(q.arch)

(* How often the servers at the positions in P offer a row.                *)
Offers(c, P, r) ==
    LET at  == {p \in P : walk[c].servers[p] = r.server}
        ent == Arches(ManifestOf(r.server, walk[c].q), r.name, r.version)
    IN Cardinality(at) * Cardinality({k \in DOMAIN ent : ent[k] = r.arch})

Times(rows, r) == Cardinality({k \in DOMAIN rows : rows[k] = r})

Exactly(q, name, v) ==
    name = q.name /\ \E k \in DOMAIN q.cs : q.cs[k].op = "==" /\ v = q.cs[k].raw

(* Position p of the server list decides the walk: its server could be read *)
(* and offers the very version that is asked for.                           *)
Decides(c, p) ==
    LET s == walk[c].servers[p]
        q == walk[c].q
    IN /\ p \notin walk[c].failed
       /\ \E nv \in DOMAIN ManifestOf(s, q) : \E arch \in ToSet(ManifestOf(s, q)[nv]) :
             /\ Wanted(q, nv[1], nv[2], arch)
             /\ Exactly(q, nv[1], nv[2])

Readable(c) ==
    LET P == DOMAIN walk[c].servers
    IN {p \in P \ walk[c].failed : \A d \in 1..(p - 1) : ~ Decides(c, d)}

(* Search lists every matching row of every server it could read, as often  *)
(* as they offer it, and nothing else.  Servers are left out only after one *)
(* that has the exact version asked for.                                    *)
ListingExact ==
    \A c \in Callers : walk[c].pc = "walked" =>
        LET P    == Readable(c)
            q    == walk[c].q
            rows == SelectSeq(walk[c].found, LAMBDA r : r.server # ProvidedRepo)
        IN /\ \A p \in P :
                 LET s == walk[c].servers[p]
                 IN \A nv \in DOMAIN ManifestOf(s, q) : \A arch \in ToSet(ManifestOf(s, q)[nv]) :
                       LET r == Row(s, nv[1], nv[2], arch)
                       IN Wanted(q, nv[1], nv[2], arch) => Times(rows, r) = Offers(c, P, r)
           /\ \A k \in DOMAIN rows :
                 /\ Wanted(q, rows[k].name, rows[k].version, rows[k].arch)
                 /\ \E p \in P : walk[c].servers[p] = rows[k].server
                 /\ Offers(c, P, rows[k]) > 0

(* An error of the walk says that a server failed and that none that could  *)
(* be read has a match; an empty listing without one says that every server *)
(* was read.                                                                *)
FailureHonest ==
    \A c \in Callers :
        /\ walk[c].pc = "walked" /\ walk[c].found = <<>> => walk[c].failed = {}
        /\ walk[c].pc = "failed" =>
              /\ walk[c].failed # {}
              /\ \A p \in DOMAIN walk[c].servers \ walk[c].failed :
                    LET mf == ManifestOf(walk[c].servers[p], walk[c].q)
                    IN \A nv \in DOMAIN mf : \A arch \in ToSet(mf[nv]) :
                          ~ Wanted(walk[c].q, nv[1], nv[2], arch)

FirstAt(c, server) == CHOOSE p \in DOMAIN walk[c].servers :
    /\ walk[c].servers[p] = server
    /\ \A o \in DOMAIN walk[c].servers : walk[c].servers[o] = server => p <= o

(* The listing is in the order of the porcelain output: within the source   *)
(* and the binary block names ascend and versions never ascend, and what    *)
(* ties is in the order of the servers, unless one is listed twice.         *)
ListingOrdered ==
    \A c \in Callers : walk[c].pc = "done" /\ IsInjective(walk[c].servers) =>
        LET rows == walk[c].result
        IN \A i, j \in DOMAIN rows : i < j /\ IsBinary(rows[i]) = IsBinary(rows[j]) =>
              LET a == rows[i]
                  b == rows[j]
                  cmp == Compare(Strings[a.version].version, Strings[b.version].version)
              IN /\ NameRank(a.name) <= NameRank(b.name)
                 /\ a.name = b.name =>
                       /\ cmp >= 0
                       /\ cmp = 0 /\ ProvidedRepo \notin {a.server, b.server} =>
                             FirstAt(c, a.server) <= FirstAt(c, b.server)
=============================================================================
