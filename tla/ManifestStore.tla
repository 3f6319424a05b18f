---------------------------- MODULE ManifestStore ----------------------------
(***************************************************************************)
(* What is in the tree manifest, over the file ManifestFile describes.  An *)
(* operation of the engine reads the manifest in place, records a rock it  *)
(* deployed (deployRock) or forgets one (Remove), and writes the result.   *)
(* The files themselves are RockTree's: here a deploy is the rock manifest *)
(* it returns, and Make may deploy one version again with other contents.  *)
(***************************************************************************)
EXTENDS ManifestFile, ManifestCodec, TLC

CONSTANTS
    Specs,      \* deploys: [name, ver, deps, bin, rm]
    ModuleAt,   \* path of a rock manifest -> its module, "" if it has none
    StringRank  \* version -> its rank in string order

VARIABLES
    draft,      \* writer -> the manifest it is writing, or Nothing
    placed,     \* the manifest of the file in place
    rocks       \* name/version -> the rock_manifest in its directory

storeVars == <<vars, draft, placed, rocks>>

Nothing == [none |-> TRUE]

PkgVer(n, v) == n \o "/" \o v

EmptyManifest ==
    [Repository |-> NoKeys, Modules |-> NoKeys, Commands |-> NoKeys, Dependencies |-> NoKeys]

Without(f, S)   == [k \in DOMAIN f \ S |-> f[k]]
Set(f, k, x)    == (k :> x) @@ f
Get(f, k, none) == IF k \in DOMAIN f THEN f[k] ELSE none

(* readTreeManifest.                                                       *)
Current == IF dst = None THEN EmptyManifest ELSE ReadTree(TreeText(placed))

-----------------------------------------------------------------------------
(* Recording a rock.                                                       *)

UpsertProvider(list, p) == <<p>> \o SelectSeq(list, LAMBDA x : x # p)

UpsertAll(index, items, p) ==
    [i \in items |-> UpsertProvider(Get(index, i, <<>>), p)] @@ index

(* ModuleIndex: a module in lib is preferred to one in lua.                *)
ModuleIndex(rm) ==
    LET of(d) == {p \in DOMAIN rm.Dirs[d] : ModuleAt[p] # ""}
        at(d) == [i \in {ModuleAt[p] : p \in of(d)} |-> CHOOSE p \in of(d) : ModuleAt[p] = i]
    IN at("lib") @@ at("lua")

(* resolveInstalledDeps: of a dependency's installed versions the highest   *)
(* in string order.                                                         *)
ResolveInstalledDeps(spec, m) ==
    LET names == {spec.deps[i].name : i \in DOMAIN spec.deps} \ {spec.name}
        vers(n) == DOMAIN Get(m.Repository, n, NoKeys)
    IN [n \in {k \in names : vers(k) # {}} |->
          CHOOSE v \in vers(n) : \A u \in vers(n) : StringRank[u] <= StringRank[v]]

Recorded(m, spec) ==
    LET p     == PkgVer(spec.name, spec.ver)
        mods  == ModuleIndex(spec.rm)
        cmds  == IF DOMAIN spec.rm.Dirs["bin"] = {} THEN NoKeys ELSE spec.bin
        entry == [arch |-> "installed", modules |-> mods, commands |-> cmds,
                  dependencies |-> ResolveInstalledDeps(spec, m)]
    IN [Repository   |-> Set(m.Repository, spec.name,
                             Set(Get(m.Repository, spec.name, NoKeys), spec.ver, entry)),
        Modules      |-> UpsertAll(m.Modules, DOMAIN mods, p),
        Commands     |-> UpsertAll(m.Commands, DOMAIN cmds, p),
        Dependencies |-> Set(m.Dependencies, spec.name,
                             Set(Get(m.Dependencies, spec.name, NoKeys), spec.ver, spec.deps))]

-----------------------------------------------------------------------------
(* Forgetting one.                                                         *)

\* Mutant: a list that becomes empty stays.
RemoveProviderLeaves(index, p) ==
    [i \in DOMAIN index |-> SelectSeq(index[i], LAMBDA x : x # p)]

(* removeProvider goes through every list, and deletes one it empties.     *)
RemoveProvider(index, p) ==
    LET left(i) == SelectSeq(index[i], LAMBDA x : x # p)
    IN [i \in {k \in DOMAIN index : left(k) # <<>>} |-> left(i)]

\* Mutant: only the lists of the modules and commands the entry records.
RemovedVersionRecorded(m, n, v) ==
    LET p == PkgVer(n, v)
        of(items, index) == [i \in items \cap DOMAIN index |-> index[i]]
        rest(items, index) == RemoveProvider(of(items, index), p) @@ Without(index, items)
    IN [Repository   |-> Set(m.Repository, n, Without(m.Repository[n], {v})),
        Modules      |-> rest(DOMAIN m.Repository[n][v].modules, m.Modules),
        Commands     |-> rest(DOMAIN m.Repository[n][v].commands, m.Commands),
        Dependencies |-> Set(m.Dependencies, n, Without(m.Dependencies[n], {v}))]

RemovedVersion(m, n, v) ==
    LET p == PkgVer(n, v)
    IN [Repository   |-> Set(m.Repository, n, Without(m.Repository[n], {v})),
        Modules      |-> RemoveProvider(m.Modules, p),
        Commands     |-> RemoveProvider(m.Commands, p),
        Dependencies |-> IF n \in DOMAIN m.Dependencies
                         THEN Set(m.Dependencies, n, Without(m.Dependencies[n], {v}))
                         ELSE m.Dependencies]

(* The loop over the versions to remove, in any order, then the cleaning up *)
(* after the last version of a rock.                                        *)
Removed(m, n, vs) ==
    LET all == FoldSet(LAMBDA v, acc : RemovedVersion(acc, n, v), m, vs)
    IN IF all.Repository[n] # NoKeys THEN all
       ELSE [all EXCEPT !.Repository = Without(@, {n}), !.Dependencies = Without(@, {n})]

-----------------------------------------------------------------------------
(* The operations.  m is the manifest they read.                           *)

DeployRock(c, m, spec) ==
    /\ Create(c)
    /\ m # Unreadable
    /\ rocks' = Set(rocks, PkgVer(spec.name, spec.ver), spec.rm)
    /\ draft' = [draft EXCEPT ![c] = Recorded(m, spec)]
    /\ UNCHANGED placed

(* Remove of one version, or of all of them.                               *)
RemoveRock(c, m, n, vs) ==
    /\ Create(c)
    /\ m # Unreadable
    /\ rocks' = Without(rocks, {PkgVer(n, v) : v \in vs})
    /\ draft' = [draft EXCEPT ![c] = Removed(m, n, vs)]
    /\ UNCHANGED placed

Installed(n) == DOMAIN placed.Repository[n]

Publish(c) ==
    /\ Rename(c)
    /\ placed' = draft[c]
    /\ draft' = [draft EXCEPT ![c] = Nothing]
    /\ UNCHANGED rocks

(* The write fails, or the process dies: what was removed or deployed stays  *)
(* so, and the manifest in place knows nothing of it.                        *)
Abandon(c) ==
    /\ FailRemoves(c) \/ Killed(c)
    /\ draft' = [draft EXCEPT ![c] = Nothing]
    /\ UNCHANGED <<placed, rocks>>

StoreInit ==
    /\ Init
    /\ draft = [c \in Writers |-> Nothing]
    /\ placed = EmptyManifest
    /\ rocks = NoKeys

Operation(c) ==
    /\ w[c].pc = "idle"
    /\ \E m \in {Current} :
          \/ \E spec \in Specs : DeployRock(c, m, spec)
          \/ \E n \in DOMAIN placed.Repository :
                \E vs \in {{v} : v \in Installed(n)} \cup {Installed(n)} : RemoveRock(c, m, n, vs)

StoreNext ==
    \/ \E c \in Writers : Operation(c) \/ Publish(c) \/ Abandon(c)
    \/ /\ \/ \E c \in Writers : Write(c) \/ Close(c)
          \/ \E c \in Readers : Open(c) \/ Read(c)
       /\ UNCHANGED <<draft, placed, rocks>>

StoreSpec == StoreInit /\ [][StoreNext]_storeVars

-----------------------------------------------------------------------------
(* Properties.                                                             *)

SpecFiles == {spec.rm.RockspecFile : spec \in Specs}

(* What of a manifest its file can say: all but the namespace a dependency  *)
(* was declared with and the two flags of a version that say it is of a     *)
(* repository.  manifestToTable and versionToTable do not write those.      *)
ReadableVersion(v) == [v EXCEPT !.isSCM = FALSE, !.isDev = FALSE]

ReadableDep(d) ==
    [d EXCEPT !.namespace = "",
              !.constraints = [j \in DOMAIN @ |->
                                 [@[j] EXCEPT !.version = ReadableVersion(@)]]]

Readable(m) ==
    LET deps == m.Dependencies
    IN [m EXCEPT !.Dependencies =
          [n \in DOMAIN deps |-> [v \in DOMAIN deps[n] |->
             [i \in DOMAIN deps[n][v] |-> ReadableDep(deps[n][v][i])]]]]

(* Whatever was installed, made again and removed before, the manifest an   *)
(* operation sets out to write can be read, and reads as the operation      *)
(* meant it, less the namespaces and flags Readable drops: they are lost,   *)
(* nothing else is.  The rock_manifest of every rock reads back exactly.    *)
ReadBack ==
    \A c \in Writers : w[c].pc = "write" /\ w[c].at = 1 =>
        /\ ReadTree(TreeText(draft[c])) = Readable(draft[c])
        /\ \A p \in DOMAIN rocks : ReadRock(RockText(rocks[p]), SpecFiles) = rocks[p]

(* A removed rock is forgotten: the manifest in place names as provider, or *)
(* lists dependencies of, only rocks it has; also after a version was made  *)
(* again with fewer modules, whose lists still name it then.  Other rocks'  *)
(* dependencies on a removed rock stay, as they are theirs.                 *)
RemovedIsForgotten ==
    LET has   == UNION {{PkgVer(n, v) : v \in DOMAIN placed.Repository[n]} :
                           n \in DOMAIN placed.Repository}
        deps  == UNION {{PkgVer(n, v) : v \in DOMAIN placed.Dependencies[n]} :
                           n \in DOMAIN placed.Dependencies}
        in(x) == UNION {ToSet(x[i]) : i \in DOMAIN x}
    IN in(placed.Modules) \cup in(placed.Commands) \cup deps \subseteq has
=============================================================================
