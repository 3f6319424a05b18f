---------------------------- MODULE SourceBuild -----------------------------
(***************************************************************************)
(* From a chosen artifact to a staged build: Install, Build and Make.      *)
(* Every call is a sequence of file steps that may fail or be killed       *)
(* anywhere; what it leaves behind is what the next call finds.  Planning  *)
(* is Resolver's and the deploy RockTree's; here each is one step.         *)
(*                                                                         *)
(* A directory is the set of its top-level entries.  "." is the directory  *)
(* itself.                                                                 *)
(***************************************************************************)
EXTENDS Naturals, Sequences, FiniteSets

CONSTANTS
    Names,     \* names and versions, each with one install directory
    Rocks,     \* the rocks, records of the set Rock
    Plans,     \* what an Install installs: rocks in plan order
    Modules,   \* numbers of the files of a rock, in the order they are staged
    MaxCalls   \* bound: calls

Entry   == [name : STRING, isDir : BOOLEAN]
Dir(n)  == [name |-> n, isDir |-> TRUE]
File(n) == [name |-> n, isDir |-> FALSE]
NoName  == ""

Rock == [name      : Names,
         kind      : {"rockspec", "src", "binary"},     \* the artifact
         scheme    : {"http", "path", "tree", "git", "odd"},  \* of source.url
         md5       : {"none", "match", "mismatch"},     \* source.md5
         dir       : STRING,          \* source.dir, or NoName
         deduced   : STRING,          \* deduceBaseDir of source.file or source.url
         layout    : SUBSET Entry,    \* what its sources hold at the top
         root      : STRING,          \* where in them the rock's own files are
         backend   : {"builtin", "cmake", "make", "command", "none"},
         passes    : SUBSET {"build", "install"},  \* the passes it asks for
         format3   : BOOLEAN,         \* rockspec_format is 3.0 or later
         luadir    : BOOLEAN,         \* it passes $(LUADIR) and $(LIBDIR) to cmake
         mods      : SUBSET Modules,
         supported : BOOLEAN]         \* supported_platforms admits this host

ASSUME BuildAssumption ==
    /\ Rocks \subseteq Rock
    /\ Plans \subseteq Seq(Rocks) \ {<<>>}   \* the rock that is asked for is one
    /\ Modules \subseteq Nat
    /\ MaxCalls \in Nat

VARIABLES
    pc,      \* what the call does next, "idle" between calls
    op,      \* the call: [what, plan, k, keep]
    calls,   \* calls so far; the number of the current one
    base,    \* the directory its sources are fetched into
    root,    \* where in base it builds
    temps,   \* the temporary directories there are: <<what for, call>>
    left,    \* calls that were killed, or told to keep their directory
    staged,  \* name -> place -> module -> the call that wrote its staged file
    undone   \* history: names whose last build into the install directory
             \* ended before its deploy was over

vars == <<pc, op, calls, base, root, temps, left, staged, undone>>

Nobody == 0
Places == {"build", "installDir"}
Torn   == MaxCalls + 1
R      == op.plan[op.k]

(* deployBinary: nothing is built, the unpacked rock is the build directory. *)
Prebuilt == op.what = "install" /\ R.kind = "binary"

IsArchive(r) == r.scheme \in {"http", "path"}

(* findSourceBaseDir.                                                      *)
FindBaseDir(entries, r) ==
    LET lone == {e \in entries : e.isDir /\ entries = {e}}
    IN IF Dir(r.dir) \in entries THEN r.dir
       ELSE IF Dir(r.deduced) \in entries THEN r.deduced
       ELSE IF lone # {} THEN (CHOOSE e \in lone : TRUE).name
       ELSE "."

(* A .src.rock as LuaRocks packs it: the rockspec with the source archive,  *)
(* or with the directory of the checkout.                                   *)
Bundle(r) ==
    {File("rockspec"), IF IsArchive(r) THEN File("archive") ELSE Dir(r.deduced)}

(* How authors pack an archive: the rock's files are in the directory       *)
(* source.dir names, else in one named like the archive, else in the only   *)
(* directory there is, else at the top.                                     *)
ASSUME PackingAssumption ==
    \A r \in Rocks : IsArchive(r) =>
        LET named(n) == Dir(n) \in r.layout
        IN \/ named(r.dir) /\ r.root = r.dir
           \/ ~ named(r.dir) /\ named(r.deduced) /\ r.root = r.deduced
           \/ /\ ~ named(r.dir) /\ ~ named(r.deduced)
              /\ \/ r.layout = {Dir(r.root)}
                 \/ r.root = "." /\ \A e \in r.layout : e.isDir => r.layout # {e}

-----------------------------------------------------------------------------
(* The beginning and the end of a call.                                    *)

Begin(what, plan, keep) ==
    /\ pc = "idle"
    /\ calls < MaxCalls
    /\ calls' = calls + 1
    /\ op' = [what |-> what, plan |-> plan, k |-> 1, keep |-> keep]
    /\ UNCHANGED <<left, staged, undone>>

(* Install makes the directory of the artifacts it will fetch.             *)
StartInstall(plan) ==
    /\ Begin("install", plan, FALSE)
    /\ temps' = temps \cup {<<"artifacts", calls + 1>>}
    /\ pc' = "eval"
    /\ UNCHANGED <<base, root>>

StartBuild(r, keep) ==
    /\ Begin("build", <<r>>, keep)
    /\ temps' = temps \cup {<<"source", calls + 1>>}
    /\ pc' = "fetch"
    /\ base' = "source"
    /\ UNCHANGED root

(* Make builds the sources in the working directory.                       *)
StartMake(r) ==
    /\ Begin("make", <<r>>, FALSE)
    /\ pc' = "deployRock"
    /\ base' = "work"
    /\ root' = "."
    /\ UNCHANGED temps

Own == {t \in temps : t[2] = calls}

\* Mutant: an error returns before the directories are removed.
ReturnEarly ==
    /\ pc' = "idle"
    /\ temps' = IF pc = "fetch" THEN temps ELSE temps \ Own
    /\ left' = IF op.keep THEN left \cup {calls} ELSE left
    /\ UNCHANGED <<op, calls, base, root>>

(* The deferred RemoveAll of every directory the call made.                *)
Return ==
    /\ pc' = "idle"
    /\ temps' = IF op.keep THEN temps ELSE temps \ Own
    /\ left' = IF op.keep THEN left \cup {calls} ELSE left
    /\ UNCHANGED <<op, calls, base, root>>

(* $(LUADIR) and $(LIBDIR) are in the install directory itself: a command   *)
(* installs there, and a cmake rock that passes them on.  Every other       *)
(* backend is given <installDir>/build.                                     *)
Place(r) ==
    IF r.backend = "command" \/ (r.backend = "cmake" /\ r.luadir) THEN "installDir"
                                                              ELSE "build"

(* The call ends here, with what it installed where the deploy looks last.  *)
Interrupt ==
    undone' = IF pc \in {"build", "deploy"} /\ ~ Prebuilt /\ Place(R) = "installDir"
              THEN undone \cup {R.name} ELSE undone

(* deployInstalledSubtree moves the files of the install directory one by   *)
(* one.                                                                     *)
Move(S) ==
    staged' = [staged EXCEPT ![R.name]["installDir"] =
                  [m \in Modules |-> IF m \in S THEN Nobody ELSE @[m]]]

DeployStops == pc = "deploy" /\ \E S \in SUBSET Modules : Move(S)

(* Any step may return an error, a cancelled context included.             *)
Fail ==
    /\ pc # "idle"
    /\ Return
    /\ Interrupt
    /\ DeployStops \/ UNCHANGED staged

-----------------------------------------------------------------------------
(* The artifacts of the plan, then how each is installed.                  *)

Goto(label) ==
    /\ pc' = label
    /\ UNCHANGED <<calls, left, staged, undone>>

(* fetchAndEval: while it resolves, Install fetches and unpacks the         *)
(* artifact of every rock and evaluates its rockspec.                       *)
FetchAndEval ==
    /\ pc = "eval"
    /\ op' = [op EXCEPT !.k = IF @ < Len(op.plan) THEN @ + 1 ELSE 1]
    /\ Goto(IF op.k < Len(op.plan) THEN "eval" ELSE "install")
    /\ UNCHANGED <<base, root, temps>>

InstallBinary ==
    /\ pc = "install"
    /\ R.kind = "binary"
    /\ base' = "rock"
    /\ root' = "."
    /\ Goto("deployRock")
    /\ UNCHANGED <<op, temps>>

(* bundledSource: the archive is unpacked again, a checkout is ready.      *)
InstallBundle ==
    /\ pc = "install"
    /\ R.kind = "src"
    /\ IF File("archive") \in Bundle(R)
       THEN base' = "sources" /\ Goto("check") /\ UNCHANGED root
       ELSE base' = "rock" /\ root' = FindBaseDir(Bundle(R), R) /\ Goto("deployRock")
    /\ UNCHANGED <<op, temps>>

InstallFromSource ==
    /\ pc = "install"
    /\ R.kind = "rockspec"
    /\ temps' = temps \cup {<<"source", calls>>}
    /\ base' = "source"
    /\ Goto("fetch")
    /\ UNCHANGED <<op, root>>

-----------------------------------------------------------------------------
(* Sources: the backend of the scheme.  An unknown scheme is an error.     *)

(* httpBackend: the download is in place.                                  *)
FetchHTTP ==
    /\ pc = "fetch"
    /\ R.scheme = "http"
    /\ Goto("check")
    /\ UNCHANGED <<op, base, root, temps>>

(* fileBackend of a file: its copy is in place.                            *)
FetchPath ==
    /\ pc = "fetch"
    /\ R.scheme = "path"
    /\ Goto("check")
    /\ UNCHANGED <<op, base, root, temps>>

CheckMD5 ==
    /\ pc = "check"
    /\ R.md5 # "mismatch"
    /\ Goto("unpack")
    /\ UNCHANGED <<op, base, root, temps>>

(* unpackArchive, then findSourceBaseDir in what it left.                  *)
Unpack ==
    /\ pc = "unpack"
    /\ root' = FindBaseDir(R.layout, R)
    /\ Goto("deployRock")
    /\ UNCHANGED <<op, base, temps>>

\* Mutant: the base directory of an archive is looked for in a checkout.
CloneDescends ==
    /\ pc = "fetch"
    /\ R.scheme = "git"
    /\ root' = FindBaseDir(R.layout, R)
    /\ Goto("deployRock")
    /\ UNCHANGED <<op, base, temps>>

(* gitBackend clones and strips the metadata: Result.SourceRoot.           *)
Clone ==
    /\ pc = "fetch"
    /\ R.scheme = "git"
    /\ root' = "."
    /\ Goto("deployRock")
    /\ UNCHANGED <<op, base, temps>>

(* fileBackend of a directory: Result.SourceRoot as well.                  *)
CopyTree ==
    /\ pc = "fetch"
    /\ R.scheme = "tree"
    /\ root' = "."
    /\ Goto("deployRock")
    /\ UNCHANGED <<op, base, temps>>

-----------------------------------------------------------------------------
(* deployRock: the platform check, the backend, the deploy.                *)

DeployRock ==
    /\ pc = "deployRock"
    /\ R.supported
    /\ Goto(IF Prebuilt THEN "deploy" ELSE "build")
    /\ UNCHANGED <<op, base, root, temps>>

Unstaged == {m \in R.mods : staged[R.name][Place(R)][m] # calls}
First    == CHOOSE m \in Unstaged : \A n \in Unstaged : m <= n

Stage(S, by) ==
    staged' = [staged EXCEPT ![R.name][Place(R)] =
                  [m \in Modules |-> IF m \in S THEN by ELSE @[m]]]

(* runBuiltin copies or compiles the modules in the order of their names,   *)
(* then copies the files of build.install and copy_directories.             *)
RunBuiltin ==
    /\ pc = "build"
    /\ R.backend = "builtin"
    /\ Unstaged # {}
    /\ Stage({First}, calls)
    /\ UNCHANGED <<pc, op, calls, base, root, temps, left, undone>>

(* cmake honours the passes only from format 3.0 on.                       *)
CMakeInstalls(r) == ~ r.format3 \/ "install" \in r.passes

Installs(r) ==
    CASE r.backend = "builtin" -> TRUE
      [] r.backend = "cmake"   -> CMakeInstalls(r)
      [] OTHER                 -> "install" \in r.passes

(* A backend that runs commands: its install pass stages the files.        *)
RunPasses(backend) ==
    /\ pc = "build"
    /\ R.backend = backend
    /\ Stage(IF Installs(R) THEN R.mods ELSE {}, calls)
    /\ pc' = "deploy"
    /\ UNCHANGED <<op, calls, base, root, temps, left, undone>>

RunCMake   == RunPasses("cmake")
RunMake    == RunPasses("make")
RunCommand == RunPasses("command")

(* A copy, the compiler or a command stops half way through its files.     *)
Tear ==
    /\ R.backend # "none"
    /\ \E S \in SUBSET Unstaged :
          /\ R.backend = "builtin" => \A m \in S : m = First
          /\ ~ Installs(R) => S = {}
          /\ Stage(S, Torn)

BackendFails ==
    /\ pc = "build"
    /\ Tear
    /\ Return
    /\ Interrupt

(* The process dies.                                                       *)
Killed ==
    /\ pc # "idle"
    /\ pc' = "idle"
    /\ left' = left \cup {calls}
    /\ Interrupt
    /\ (pc = "build" /\ Tear) \/ DeployStops \/ UNCHANGED staged
    /\ UNCHANGED <<op, calls, base, root, temps>>

\* Mutant: a file that is staged already is not staged again.
BuiltBefore ==
    /\ pc = "build"
    /\ R.backend \in {"builtin", "none"}
    /\ R.backend = "none" \/ \A m \in R.mods : staged[R.name]["build"][m] # Nobody
    /\ Goto("deploy")
    /\ UNCHANGED <<op, base, root, temps>>

Built ==
    /\ pc = "build"
    /\ R.backend \in {"builtin", "none"}
    /\ R.backend = "none" \/ Unstaged = {}
    /\ Goto("deploy")
    /\ UNCHANGED <<op, base, root, temps>>

(* deployInstalledSubtrees, for every backend: it copies what is in the     *)
(* build directory, then moves what is in the install directory.  Whose     *)
(* file is a deployed module: of two the later one, and in the build        *)
(* directory of a binary rock there are the rock's own.                     *)
Shipped(m) ==
    LET moved == staged[R.name]["installDir"][m]
    IN IF moved # Nobody THEN moved
       ELSE IF Prebuilt THEN calls ELSE staged[R.name]["build"][m]

Deploy ==
    /\ pc = "deploy"
    /\ Move(Modules)
    /\ undone' = undone \ {R.name}

(* The next rock of the plan, without the sources of this one.             *)
DeployNext ==
    /\ Deploy
    /\ op.k < Len(op.plan)
    /\ op' = [op EXCEPT !.k = @ + 1]
    /\ temps' = temps \ {<<"source", calls>>}
    /\ pc' = "install"
    /\ UNCHANGED <<calls, base, root, left>>

DeployLast ==
    /\ Deploy
    /\ op.k = Len(op.plan)
    /\ Return

Init ==
    /\ pc = "idle"
    /\ op = [what |-> "none", plan |-> <<>>, k |-> 1, keep |-> FALSE]
    /\ calls = 0
    /\ base = "none"
    /\ root = "."
    /\ temps = {}
    /\ left = {}
    /\ staged = [n \in Names |-> [p \in Places |-> [m \in Modules |-> Nobody]]]
    /\ undone = {}

Start ==
    \/ \E plan \in Plans : StartInstall(plan)
    \/ \E r \in Rocks : StartMake(r) \/ \E keep \in BOOLEAN : StartBuild(r, keep)

Next ==
    \/ Start \/ Fail \/ Killed
    \/ FetchAndEval \/ InstallBinary \/ InstallBundle \/ InstallFromSource
    \/ FetchHTTP \/ FetchPath \/ CheckMD5 \/ Unpack \/ Clone \/ CopyTree
    \/ DeployRock \/ RunBuiltin \/ RunCMake \/ RunMake \/ RunCommand \/ BackendFails \/ Built
    \/ DeployNext \/ DeployLast

Spec == Init /\ [][Next]_vars

-----------------------------------------------------------------------------
(* Properties.                                                             *)

(* Where in a directory the rock's own files are.                          *)
TrueRoot(r, b) ==
    CASE b = "sources" \/ (b = "source" /\ IsArchive(r)) -> r.root
      [] b = "rock" /\ r.kind = "src"                     -> r.deduced
      [] OTHER                                            -> "."

Holder(b) ==
    CASE b = "source"            -> {<<"source", calls>>}
      [] b \in {"rock", "sources"} -> {<<"artifacts", calls>>}
      [] OTHER                   -> {}

(* A rock is built and deployed from the directory its own files are in,    *)
(* whichever way its sources came: fetched or bundled, as an archive or as  *)
(* a checkout, with a directory named like the rock in it or not; that      *)
(* directory is still there, and an archive it came from has the md5 the    *)
(* rockspec demands.                                                        *)
BuiltAtRoot ==
    pc \in {"build", "deploy"} =>
        /\ root = TrueRoot(R, base)
        /\ Holder(base) \subseteq temps
        /\ base \in {"source", "sources"} /\ IsArchive(R) => R.md5 # "mismatch"

(* Between calls no temporary directory is left but those of calls that     *)
(* were killed or told to keep them, wherever the others failed.            *)
NoTempLeft == pc = "idle" => \A t \in temps : t[2] \in left

(* The rocks whose modules are all there before the deploy.                *)
Ships ==
    \/ Prebuilt
    \/ R.backend = "builtin"
    \/ R.backend \in {"cmake", "make", "command"} /\ "install" \in R.passes

(* What is deployed of both directories was put there by the same call,     *)
(* every module of the rock and none torn, whatever earlier calls left in   *)
(* them, with one exception: a build into the install directory that failed *)
(* or was killed before its deploy was over leaves files there that go over *)
(* those of the next call, if that one does not build into it as well.      *)
StagedIsOwn ==
    LET hidden == R.name \in undone /\ (Prebuilt \/ Place(R) = "build")
    IN pc = "deploy" /\ Ships /\ ~ hidden => \A m \in R.mods : Shipped(m) = calls
=============================================================================
