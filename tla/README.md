# A TLA+ model of go-luarocks

go-luarocks installs, builds and removes LuaRocks packages ("rocks") in a tree
under a Tarantool prefix. It has two engines behind one facade: a native engine
written in Go, and upstream LuaRocks run inside embedded Lua VMs. This directory
models the parts of both whose mistakes cost users files or answers and that unit
tests reach poorly: file-by-file changes of a shared tree, planning over dependency
graphs, evaluating rockspecs and folding their platform overlays, caches and servers
that fail, searching and downloading, fetching and staging sources, writing a manifest
that can be read again, and a pool of VMs used by concurrent calls.

Run a model from this directory with `tlc -config <cfg> <module>` and check the
proofs with `tlapm <module>.tla` for each proof module: `RockTreeProofs`,
`ResolverProofs`, `RemoteIndexProofs`, `ManifestFileProofs`, `LuaPoolProofs`,
`SourceBuildProofs`, `PickNewestProofs` and `DownloadProofs`.
`PROJECT.json` lists every run, the source lines each definition stands for, the
mutants each property was tried against, the hazards and the findings.

## 1. The system and its parts

| Part | Where | State it keeps | Operations | What makes it correct |
|---|---|---|---|---|
| Rock tree | `tree/`, `client/native.go` (`deployRock`, `Remove`) | deployed files in `lua/`, `lib/`, `bin/`; one `rock_manifest` per installed version; the tree `manifest` | `Deploy`, `DeleteVersion`, `WriteRock`, `WriteTree` | the manifest is consistent; the active provider's file is the one at the plain path; nobody's file is lost; removal takes the rock's files and no others |
| Dependency resolver | `deps/resolver.go`, `Install` | `chosen`, `inFlight`, `order`; the tree it installs into | `Resolve`, then one deploy per step | the plan is the closure of unmet dependencies, each once, dependencies first; cycles and conflicts are errors; it ends |
| Versions and constraints | `deps/version.go`, `deps/constraint.go`, both `pickNewest` | none (pure) | `ParseVersion`, `Compare`, `Equal`, `Match`, `pickNewest` | `Compare` is an order; the pick is the highest match; the two picks agree |
| Remote index | `remote/` | private cache per index, `ManifestCache` shared by the indexes of a client | `Query` over ordered and merged servers | a dead server hides nothing; the first server with the rock answers; a cached manifest belongs to its key |
| Manifest store | `manif/store.go`, `client/native.go` (what `deployRock` and `Remove` record) | the file and its `.tmp` | `ReadTree`, `WriteTree`, `ReadRock`, `WriteRock` | a reader sees a whole manifest; a failed write changes nothing; what is written can be read and says what was meant; a removed rock keeps no provider entry and no dependency table |
| Lua engine pool | `client/lua.go` | pool channel, `WaitGroup`, VMs | `acquire`, `startWarming`, `release` | a VM serves one command; the footprint is bounded; nothing runs after a call returned; every call returns |
| Rockspecs | `rockspec/` | none (pure) | `Eval`, `MergePlatforms`, `Validate` | harvesting a table and its overlays and folding those gives what upstream gets by merging the tables |
| Build backends | `build/` | the staged files in `<installDir>/build` and `<installDir>` | `RunBackend` | what is deployed was staged by the same call, whatever earlier builds left |
| Source fetching | `fetch/`, `client/native.go` (`Install`, `Build`, `Make`) | temporary directories | `FetchWith`, `Sources` | verified before unpacked; built at the rock's own root; nothing temporary is left |
| Search, Download | `remote/search.go`, `client/native_search.go`, `client/native_download.go`, `fetch.File` | the memoized probe of the interpreter; files and `.part` files in the working directory | `Search`, `Download` | the rows are exactly the matching ones, in order; an empty answer is honest about failed servers; `Download` takes what `Install` would use; no name holds a truncated transfer; the reported path is what was saved |
| Manifest syntax | `manif/parser.go`, `manif/writer.go` | a byte offset | `Parse`, `Write` | a written table is parsed as the table it was; modelled from tables up, not from characters |
| Embedded LuaRocks | `internal/luarocks` | per VM | one dispatch | third party; a dispatch is one step of `LuaPool` |

How they interact. `Install` queries the index for the root, picks the newest
version, resolves the dependencies through the same index, and deploys the plan and
then the root, each through `deployRock`. `deployRock` reads the tree manifest,
lets `Deploy` consult it for every file (`Provider`), writes the rock's
`rock_manifest` and publishes the updated manifest. Nothing is locked and nothing
is undone: an error return leaves the tree as it is. Several processes may work on
one tree and several goroutines may use one client.

What is hard: an operation is tens of file-system steps and may stop after any of
them; the manifest it works from is a snapshot; files are renamed under
`rock_manifest`s that list them; servers and their manifest variants fail
independently; cached manifests outlive what the server publishes; staged files and
interrupted downloads outlive the call that wrote them; an empty table is written the
same whether it was a list or a map; overlays are merged after they were harvested,
where upstream merges them before; calls on one Lua engine share
a `WaitGroup`.

## 2. Modules

| Module | Models | State | Actions |
|---|---|---|---|
| `RockTree` | deploy and remove | `file` (target -> slot -> content), `rockManifest`, `manifest`, and per client `pc`, `op` | `StartDeploy`, `ResolveSpot`, `CopyFile`, `CopyTorn`, `WriteRock`, `WriteTree`; `StartRemove`, `ReadRock`, `ReadRockFails`, `Unlink`, `UnlinkFails`, `RemoveDir`, `WriteRemoved`; `Abort` |
| `TreeIndex` | what a reader of the manifest is promised | installed rocks, active provider of each module | `Install`, `Remove`, each one step |
| `Resolver` | `Resolve` and `Install` | the recursion stack of `walk`, `chosen`, `inFlight`, `order`; the tree | `Start`, `StartAlone` (`DepsNone`), one action per outcome of `walk`'s loop body, `DeployStep`, `DeployRoot`, `DeployAlone`, `DeployFails` |
| `Versions` | `ParseVersion` (from tokens), `Compare`, `Equal`, `Match` | none | none |
| `Rockspec` | `Eval`, `MergePlatforms`, `Validate`, dependency strings from words on | none | none |
| `PickNewest` | a rockspec prepared for a host, then both `pickNewest` functions side by side on its first dependency | the rockspec; scan position, best so far; the list being sorted | `Prepare`, `Choose`; `Scan`; `Swap`, `Insert` |
| `UpstreamMerge` | `PickNewest` with the overlays merged as upstream merges them, for comparison | as `PickNewest` | as `PickNewest` |
| `RemoteIndex` | `Query` of the three indexes, both caches | what servers publish, shared and private caches, per caller a query | `Start`, `Cached`, `CachedShared`, `Miss`, `ProbeLoads`, `ProbeFails`, `Merge`, `NextServer`, `GroupEmpty`, `GroupFinds`; `Change` of a server |
| `Search` | `Search`, the walk over servers that `Download` shares | per caller the walk, its rows and failures; the probe | `RejectSearch`, `StartSearch`, `LoadServer`, `ServerFails`, `EndWalk`, `ReturnSearch` |
| `Download` | `Download` and `fetch.File` | directory entries, `.part` entries, contents by inode, per caller the saving | `RejectDownload`, `StartOne`, `StartAll`, `ChooseOne`, `ChooseAll`; `CreatePart`, `CreateCopy`, `WritePiece`, `Rename`, `EndCopy`; `SaveFails`, `ReturnDownload`, `Killed` |
| `ManifestFile` | `writeAtomic` and the readers | directory entries and file contents by inode | `Create`, `Write`, `Close`, `FailRemoves`, `Rename`, `Killed`; `Open`, `Read` |
| `ManifestCodec` | manifests to Lua tables, to text, and back | none | none |
| `ManifestStore` | `ManifestFile` with the manifests that `deployRock` and `Remove` write | each writer's draft, the manifest in place, the `rock_manifest`s | `DeployRock`, `RemoveRock` with the steps of the write, `Publish`, `Abandon` |
| `LuaPool` | the VM pool | life of each VM, `WaitGroup` counter, waiters | one action per step of `acquire`, `startWarming`, `callViaState`, `release`, and the finalizer |
| `SourceBuild` | `Install`, `Build`, `Make` from a chosen artifact to the deploy | the call in progress, its temporary directories, what is staged by which call | one `Start...` per call; `FetchAndEval`, `InstallBinary`, `InstallBundle`, `InstallFromSource`; one per fetch backend, `CheckMD5`, `Unpack`; `DeployRock`, one per build backend, `DeployNext`, `DeployLast`; `Fail`, `BackendFails`, `Killed` |
| `MC...` | instances for TLC | | catalogs, worlds, symmetry |
| `RockTreeProofs`, `ResolverProofs`, `RemoteIndexProofs`, `ManifestFileProofs`, `LuaPoolProofs`, `SourceBuildProofs`, `PickNewestProofs`, `DownloadProofs` | | | theorems about the module they are named for; `DownloadProofs` also about `Search` |

Correspondence for `RockTree`. A *target* is a section (`lua`, `lib`, `bin`) and an
item, the dotted module or command name `pathToModule` and `installDest` compute.
Each target has *slots*: the plain path, the `~` backup and the versioned name
(`MungedPath`) of each rock. A file's content is the rock that wrote it, `"user"`
for a file no rock deployed, or `"torn"` for a copy that failed half way (`copyFile`
truncates first). `op[c].m` is the manifest a client holds in memory, `op[c].missed` the
listed files a removal could not delete and passed over, as `DeleteVersion` does. `WorkOf` are
the artifacts in the stages of `Deploy`; within a stage Go's map order, and for
staged files the walk order, is any order. The files private to a version (rockspec,
`conf`, `doc`, the real scripts behind launchers) live in a directory of their own
and cannot collide; they are left out. The `dependencies` tables of the manifest and the
paths inside `RepoEntry` are in `ManifestStore`.

Names and versions are ranks: `Name[r] < Name[q]` is Go's string comparison and
`Ver` the order of `deps.Compare`, which `Versions` models by itself.

`Resolver` takes a *world*: what the index offers, the dependencies of each
version, what the VM provides, what the tree holds. A dependency's constraint is the
set of versions it accepts. `Interrupted` is any error or cancelled context inside
the loop body. `lookup` is what the walk knows of the tree: all of it, or nothing if the
tree cannot be read, an error `resolvePlan` passes over.

`Versions` represents a component as `<<whole, fraction>>`, which orders as the
code's float64 does for the numbers a version holds.

`Rockspec` represents a Lua value as a string, a boolean or a table with an array part
and named keys, and a rockspec as the globals it reads and assigns. `Harvest` keeps the
fields the engine uses and drops values of the wrong type where the code does;
`CanHarvest` holds the type errors it reports. A dependency string is its words.
`Upstream` of `UpstreamMerge` merges the same overlays the way the embedded LuaRocks does
(`core/util.lua`, `rockspecs.lua`) and then harvests; `MergedAsUpstream` compares the two.
It is a module of its own because merging tables is recursive, which the prover does not
support; without it, what `PickNewest` says of versions and picks can be proved.

`RemoteIndex` names a manifest by what it offers of one rock; a variant on a server
is absent, broken, or a manifest. A *group* of one local server is a
`FileRemoteIndex`, a group of HTTP servers an `HTTPRemoteIndex`, the sequence of
groups an `OrderedIndex`. Queries of a caller use its own index and the shared cache.

`ManifestFile` keeps directory entries apart from inodes, so that a reader that
opened the file keeps reading what it opened, and a writer keeps writing to a file
that was renamed under it. A manifest is `Pieces` writes long.

`ManifestCodec` converts a tree or rock manifest to the nested tables of `store.go`,
writes a table as its entries, and reads it back through the parser's classification:
array, map or mixed, an empty table being both. `ManifestStore` runs the file protocol
of `ManifestFile` with those texts; a rock is what its rockspec and staging give it
(modules with nested names, commands, dependencies with several installed versions, one
of them of a namespace and with bounds that are versions of a repository).

`Search` and `Download` take a *world*: what each server has under each namespace, or
that it fails; which servers are configured; the calls. `Strings` are the version
strings with what `ParseVersion` makes of them, so that one version may have two
spellings, or a string none. `walk[c].found` holds the rows in the order the code
appends them; `SortMatches` is the code's stable sort. A file in the working directory is
`Pieces` writes long, each marked with the server it came from, and `shaken` remembers
the names that two transfers wrote at once or a copy wrote.

`SourceBuild` takes *rocks* as their authors pack them: the artifact (rockspec,
`.src.rock`, binary rock), the scheme and md5 of the source, the top-level entries of
the unpacked sources and which of them is the real root, the backend and its passes.
A staged file is the number of the call that wrote it, or `Torn`. Files go to
`<installDir>/build`, except those of the `command` backend and of a `cmake` rock that
passes `$(LUADIR)`, which go to the install directory itself. The deploy of any backend
copies the files of the first and then moves those of the second, one by one, so of two
files of one module the second stays (`Shipped`); stopped half way, it leaves the rest. A
binary rock brings its own build directory. `undone` is a history variable: the versions
whose last build into the install directory ended before its deploy was over. Evaluating a
rockspec, planning and the deploy are one step each: `Resolver` and `RockTree` are
about them.

`LuaPool` models the `WaitGroup` by its documented contract: a counter, waiters
released when it reaches zero, and a panic if the counter is raised again before a
released waiter has run.

## 3. Runs

Passing runs (TLC finds no violation; every action fires in some run):

| Run | Question | Instance |
|---|---|---|
| `recovery` | does every operation work from what a failed one left behind, are removals complete and confined to the removed rock's files wherever the code can know them, and does the tree implement `TreeIndex`? | 3 rocks (two versions of `a`, one `b`), items `foo`, `foo.init`, a builtin rock, a C module of the same name, a wrapped command, a module only `b` has, a user file, 1 failure (an operation that ends half way, or an error a removal ignores) |
| `installs` | do installs in any order end in the right active provider and lose no file? | 3 rocks that all ship `foo`, user files at both paths |
| `plan` | is the plan the exact closure in dependency order, are cycles real, does every `Install` end? | every graph of a family over 4 rocks, 2 versions, a VM-provided rock, 2 installs in a row, each with or without `DepsNone`, the tree readable or not |
| `newest` | does folding harvested overlays give what upstream's merge gives? order laws, pre-releases below releases, agreement of the picks and that they are the highest match, `~>` as an interval | rockspecs with overlays of every section for three platforms on three hosts; all triples over a set of version bodies, with and without revisions |
| `query` | what may dead servers, broken or missing manifest variants, stale and shared caches do to an answer, and does every query end? | 2 merged HTTP servers before a directory, every content of the first variant, a fallback variant or none; 2 callers, 2 queries each, 2 namespaces, a rock that moves between servers |
| `search` | are listings exact, ordered and honest about failures, does `Download` choose as `Install` does, save whole files and report them? | 2 concurrent calls over servers that fail, are listed twice, or offer one version under several spellings and arches; failure or kill at any piece |
| `manifest_file` | is the write atomic to readers, against failures and kills; can every manifest be read back; does a removed rock leave the provider lists and dependency tables? | 1 writer, 2 readers, 4 writes of 2 pieces, rocks with nested modules, commands and dependencies, made again with other contents |
| `pool` | isolation, footprint, quiet at rest; does every call return? | 2 callers, pool of 1 |
| `source_build` | is a rock built from its own, verified sources and deployed from its own staged files, whatever earlier calls left; does a call clean up? | 53 ways to pack a rock, plans of two rocks, every call followed by every other, failure or kill at any step |

Why the bounds are enough. The decision of `resolveSpot` compares two rocks by name
and version, so two versions of one name and one other name give every outcome;
three rocks let a demoted file be demoted past again. One failure at every step
followed by any operations is the recovery case. Two calls of `source_build` are one
that leaves something and one that meets it. Two frames of a cycle, a diamond and a version choice need four
names. A host with several platforms (`unix`, `bsd`, `freebsd`) lets an overlay override an
overlay. Two pieces are the least that can be torn, two calls of `search` one that
leaves a `.part` file and one that meets it. A VM pool of one is the code's constant.
Bounds are `MaxFailures`, `MaxInstalls`, `MaxWrites`, `MaxVMs`, `MaxCalls`, each a guard of
the action it bounds; `Pieces`, the length of a file; `Sessions`, the queries and server
changes of a `RemoteIndex` run; `Worlds`, the servers and calls of a `Download` run;
`Inputs` and `Specs`, the rockspecs of `PickNewest` and `ManifestStore`. `MaxVMs` and
`Inodes` bound identities only: a closed VM's, or an unlinked file's, is reused.

Fairness. `Resolver` and `RemoteIndex` are sequential functions and take their next
step (weak fairness of the whole operation, none of its failures); starting one is
never required. `LuaPool` assumes the Go scheduler runs a runnable goroutine (weak
fairness per caller and per warm-up); a call or the collector need never start.
Safety runs of `RockTree` assume none.

Deadlock is checked for `RockTree`. In the other models the system may rest: all
installs or queries of the bound are done, the writers have stopped, the engine was
collected or the process panicked.

Runs that show a disagreement. Each checks one property that a comment or a test of
the repository states, and TLC finds a behaviour of the code that violates it:

| Run | The code | What is said |
|---|---|---|
| `builtin_twice` | a builtin rock deploys its modules twice; the second pass demotes its own fresh file over the old version's copy | "old version preserved under its versioned name" (`tree/tree_test.go:456`) |
| `remove_demoted` | removing a demoted version deletes the active version's file | "deletes the files this version deployed" (`tree/deploy.go:462`) |
| `pool_panic` | an Add may meet a Wait that is about to return | two concurrent calls succeed (`client/lua_test.go:90`) |

Limits of the passing runs, seen while modelling. The properties of section 3 are
stated so that they hold; these neighbours of theirs do not, and the models show it
when an instance is widened:

- `UserFileKept`, with a builtin rock (as in `BuiltinTwice.cfg`): the second pass also
  renames the fresh file over the backup of a user's file.
- `NoModuleLost`, with a rock that is outranked by one that ships the module in fewer
  sections: `resolveSpot` asks who provides the module, not who owns the file. Let `b1`
  ship `foo` in `lua` and `lib`, `a1` only in `lua` and `a2` only in `lib`, installed in
  that order: `a2` takes `b1`'s library for `a1`'s and gives it `a1`'s versioned name.
- `RemovalIsClean` and `RemovalIsComplete`, for a rock whose module has the name of
  another rock's command, or of its module in another section: `resolveSpot` asks the
  manifest by name, so a reinstall may move to a versioned name and leave its old plain
  file, which no `rock_manifest` lists any more. `SoleOwner` therefore asks for the name
  in every section. And the second part of `RemovalIsClean` fails for rocks outside
  `PlainCatalog` (section 4) once a user's file is in the way.
- `RemovalIsComplete` excepts the files a removal was refused. `DeleteVersion` ignores the
  error of `os.Remove` (`tree/deploy.go:486`) and of reading the `rock_manifest` (476),
  removes the install directory and returns nil: the file stays and nothing lists it.
- `ActiveServed`, with removals: removing the active version promotes no other, which
  `tree/deploy.go:468` leaves to the caller and the caller does not do.
- `SnapshotFresh` and `ImplementsIndex`, with two clients: nothing locks the tree, and
  the second writer overwrites the first one's update. `ManifestSound` does hold then
  (section 4).
- `ReadWhole`, with two writers: both create, and one truncates, the same
  `manifest.tmp`, so a reader can get pieces of both.
- `PicksAgree` and `ListingOrdered`, with versions with and without a revision in one
  list: a revision counts only if both have one, so ties are not transitive and the
  stable sort may leave a lower version first.
- `MergedAsUpstream` compares everything that is folded except `makefile`, `build_pass`
  and `install_pass`, which `mergeBuild` never folds although "Scalars overwrite"
  (`rockspec/platforms.go:42-43`); external dependencies, which an overlay replaces per
  entry where upstream merges their fields; overlays that are explicitly empty, a
  limitation the code documents; and overlays that give a module another form than the
  base (path or table, array or `sources`). `sources` given as one string is ignored by
  the harvest and accepted by upstream.
- Two rocks of a plan may demand different versions of a rock without a conflict being
  reported, if one of the two is installed: the tree is asked before the conflict check.
  And a dependency on another version of the root puts the root's name in the plan.
- `DepsBeforeRock` excepts the rock that an `Install` with `DepsNone` names. It is deployed
  whether its dependencies are in the tree or not, although `client/client.go:61` says
  "missing deps cause Install to fail".
- `SavedWhole` excepts files copied off a local server's directory, as `copyFileInto`
  truncates the destination before it copies; and two transfers of one name at once,
  which share a `.part` file, so that one may be renamed before it is complete although
  `fetch/http.go:102` says otherwise of every transfer.
- `ReportIsTrue` holds for a call alone in its directory: `downloadAll` finds the file it
  saved by comparing directory listings.
- `DownloadsWhatInstallUses` holds with one server. With several, `Install` asks the
  first that has the rock and `Download` chooses among the rows of all. Both take a row
  of any arch but `src` and `rockspec` for a binary one, `installed` included.
- `ListingOrdered` ranks equal versions by server only if no server is listed twice.
- `ReadBack` is about all of a manifest that `deployRock` writes but the namespace of a
  dependency (`Dep.Namespace`) and the flags `IsSCM` and `IsDev` of a version: the writer
  drops them (`manif/store.go:290`, 608) and the reader sets them empty, although
  `manif/doc.go:6` says "ReadTree / WriteTree round-trip the typed *rocks.Manifest".
  `Readable` names the loss; the namespace is used of rockspecs only
  (`deps/resolver.go:219`), so nothing under `src/` misses it in a manifest. Of a
  version's entries in a manifest only the first arch entry is read.
- `RemovedIsForgotten` speaks of removed rocks' own entries: the dependencies other rocks
  declare on a removed one stay in the manifest. `Make` of a version with fewer modules
  than before leaves the dropped modules' provider entries until it is removed, and the
  version recorded for a dependency is the highest in string order.
- `StagedIsOwn` speaks of the modules the rockspec declares, of rocks whose backend stages
  them. It excepts one case, which TLC finds when the exception is dropped: a `command`
  build, or a `cmake` build with `$(LUADIR)`, fails or is killed before its deploy is over,
  and the next call for that version has another backend or a binary rock. The files left
  in the install directory, torn ones too, are then deployed over the call's own
  (`tree/deploy.go:429`). A staged file of a module the rockspec no longer declares is
  deployed again from either directory (`tree/deploy.go:415` keeps the build directory on
  purpose). `Remove` deletes both directories and is not an action of `SourceBuild`.
- `NoTempLeft` excepts killed calls and `BuildOpts.Keep`; nothing ever collects what
  those leave.
- Commands have a provider list, but the manifest lists a command's newest installation
  first whichever name its launcher got, and `manifestProvider` asks the module list
  first. No property speaks of commands' active providers for that reason.

## 4. Theorems

Every theorem is about all values of the constants that meet the named assumptions of
its module; TLC evaluates those on the runs. Each rests on an inductive invariant,
because what a property says of a result depends on what the operation knew at every
step before. The invariants were checked with TLC on the runs' instances first. A proof
has one lemma per action, or per group of actions that change the same variables.

| Module | Theorem | Property | Holds for |
|---|---|---|---|
| `RockTreeProofs` | `TypeCorrect`, `ManifestAlwaysSound` | `TypeOK`, `ManifestSound` | any catalog, clients, failures |
| | `OneClientFresh`, `OneClientImplementsIndex`, `OneClientTakesEffect`, `OneClientRemovesAll` | `SnapshotFresh`, `ImplementsIndex`, `InstallTakesEffect`, `RemovalIsComplete` | any catalog and failures, one client |
| | `OneClientRemovesCleanly` | `RemovalIsClean` | catalogs that meet `PlainCatalog`, one client, any failures |
| | `InstallsPickBest`, `InstallsServeActive`, `InstallsLoseNothing`, `InstallsKeepUserFiles` | `ActiveIsBest`, `ActiveServed`, `NoModuleLost`, `UserFileKept` | catalogs that meet `PlainCatalog`, one client, installs without failures; the last, user files at module paths |
| `ResolverProofs` | `PlansExactly`, `CyclesAreReal`, `DeploysDepsFirst` | `PlanIsExact`, `CycleIsReal`, `DepsBeforeRock` | any dependency graph, tree, number of installs |
| `RemoteIndexProofs` | `CachesHonest`, `AnswerFromFirst`, `DeadServersHideNothing` | `CacheHonest`, `FirstFoundWins`, `NoRockHidden` | any servers, groups, manifests, callers, changes |
| `ManifestFileProofs` | `ReadersSeeWhole`, `LastWriteStays` | `ReadWhole`, `LastWriteInPlace` | one writer, any readers, length, failures |
| `LuaPoolProofs` | `OneCallPerVM`, `BoundedFootprint`, `NothingRunsAtRest` | `Isolation`, `Footprint`, `QuietAtRest` | any pool size, finitely many callers |
| `SourceBuildProofs` | `NothingTemporaryLeft`, `DeploysOwnBuild`, `BuildsAtItsRoot` | `NoTempLeft`, `StagedIsOwn`, `BuiltAtRoot` | any rocks packed as `PackingAssumption` says, plans, calls |
| `PickNewestProofs` | `CompareIsOrder`, `PessimisticAlwaysInterval`, `PicksAlwaysAgree` | `OrderLaws`, `PessimisticIsInterval`, `PicksAgree` | versions of any length, any candidates and constraints |
| `DownloadProofs` | `FailureAlwaysHonest`, `SavedAlwaysWhole`, `ReportAlwaysTrue` | `FailureHonest`, `SavedWhole`, `ReportIsTrue` | any servers, manifests, calls, callers, lengths, failures, kills |

**The tree, any clients.** The shape of a manifest being written rests on the shape of
the one in memory, and that was read from disk earlier, possibly before other clients
wrote. `IInv` states type and soundness for the manifest on disk and every client's copy
at once, so it needs no assumption about interleaving. The list lemmas `WithoutList`,
`UpsertList` show what the provider list functions return, and `RecordedSound`,
`RemovedSound` lift them to manifests.

**The tree, one client.** `SnapshotFresh` says what an operation in progress knows: a
deploy's manifest is the one on disk and its recorded keys are plain exactly where
`resolveSpot` awarded the path; a removal's manifest is the one on disk without versions
of one rock. `PublishInstall` and `PublishRemoval` then turn the two publishing actions
into single steps of `TreeIndex`; every other action, failures included, leaves the
index alone. With two clients neither holds: the second writer overwrites the first
one's update.

**Files of the tree.** `InstallsOnly` is the tree without removals. Where the files are
depends on the ranking of the rocks, and the ranking decides correctly only if it is
what decided before, so `FInv` joins three facts: `Ranked`, the active provider outranks
every installed rock that ships the module; `FilesKept`, every file of an installed rock
is at the plain path if its rock is active and has not just been `Moved` away by the
install in progress, else under its versioned name; `Placed`, what the install has copied
is where `resolveSpot` sent it. `PlainCatalog` excludes what the runs and section 3 show
to break it: a target both declared and staged (`builtin_twice`), a module that is also a
command or has an `.init` alias, two rocks of equal rank, and a rock that outranks
another for a module but ships it in fewer sections. The instance of `installs` meets it.

`UserFileKept` needs to know where a user's file may lie (`UserSafe`): at a backup name
only while some rock provides the module or has just taken the path, so that no later
install makes a second backup over it; under the versioned name of a rock that does not
ship the module only if the active provider outranks that rock, so that no demotion
reaches it; and never at the plain path a copy is about to write.

**What an install or a removal leaves.** These hold whatever earlier operations failed.
`InstallTakesEffect` needs `Placed` alone, for which a failed operation's files are just
files in the way. Completeness of a removal is about files that a `rock_manifest` of an
interrupted operation may not list. `RemovalInv` has: providers and recorded keys are
those a rock ships (`HonestManifests`, `KeysListed`), and where one rock alone has a name,
its file is at the plain path only, is listed if its `rock_manifest` lists anything, and
stays on a removal's list until it is gone or is noted as missed (`SoleFiles`). A file an
earlier removal missed is no exception later: it is listed again by the install that
overwrites it, or its rock has no `rock_manifest`. For `RemovalIsClean`, `CleanInv`
adds that provider lists decrease in rank, so that the active provider after a removal is
one that was demoted, and that while nothing failed the plain path of an active provider
holds its file or none, a rock's versioned path its own file or none, and whoever has the
plain path lists it (`TreeTidy`).

**The plan.** `DepsBeforeRock` is about steps of the deploy phase and rests on what `walk`
established, `PlanIsExact` on the shape of the recursion. `ResolverInv` has: `Calls`, each
frame of the stack is the rock chosen for the dependency its caller is at; `PastMet`,
every dependency a frame is past is met by the VM, the tree, or the plan so far;
`StepsMet` and `RootMet`, the same for each planned step and the root; `Planning`, a
resolved name is in flight or planned, once; `Demanded`, by a dependency that had to be
resolved. What `walk` took for installed is installed, also if the tree could not be read
and it took nothing to be. `MetBefore` speaks of the order, so that the deploys can carry it out one by
one, and an earlier failed install only adds to the tree. Assumed: a highest version
exists. `CycleIsReal` names a set of chosen rocks each of which depends on another of the
set.

**Queries.** `IndexInv` has, for the store, that whatever is cached was published
(`CacheHonest`), and per query what its position implies: every server of a group before
it failed or was loaded and lacks the rock (`GroupsBefore`), what those before it in its
own group offer is merged (`ServersBefore`), and a failed server is of its own group or
remembered in the error (`FailuresKnown`). Servers may republish at any step, so these
facts speak of the manifests the query's index has cached.

**Writing a manifest.** `FileInv`: the two names stand for different files; the writer
writes the file of the temporary name, and has written the pieces it is past; the file in
place is whole and the last one written; the file of a reader is not the writer's, is whole
and not older than the one in place when it was opened. With two writers the second of
these fails first.

**The pool.** `PoolInv`: a VM that runs or ran a command has exactly one holder
(`Ownership`); the `WaitGroup` counts the warm-ups that hold a VM and those about to exit,
and is at most the number of calls that started one and have not returned (`Accounts`).
`Footprint` follows by counting, which is why `Callers` is finite; `QuietAtRest` since
without calls the counter is zero. `NeverPanics` is false (`pool_panic`).

**Building.** A temporary directory belongs to the call in progress or to one that may
leave it (`TempsOwned`). For `StagedIsOwn`, the invariant says what may be in the install
directory: nothing, unless the version is `undone` or the call in progress is filling it
(`LeftInv`, from `Clean` and `Filling`), so that a deploy that finds a file there finds the
call's own or meets the exception; and that a backend that is done has staged every module
(`BackendDone`). The root a backend runs at is settled by the fetch, so `SourceInv`
says for each step of it what is on disk and verified, and `Ready` that from `deployRock`
on the root is the true one and its directory still there. `PackingAssumption` is the author's part:
an archive holds its root where the rockspec or its name says, or as its only directory,
or has none.

**Versions and picks.** `WordAssumption` says that the weights of letters are components,
`InputAssumption` that candidates are parsed from tokens, those of one list all with a
revision or all without, as the limits of section 3 demand.
Two versions either agree in every position or have a first position where they differ,
which decides `Compare`; missing components count as zero, so positions run over all
numbers. The order laws follow by comparing first differences. `VersionAt` says what the
parser makes of each token, which puts a pre-release below its release; `BumpedAt` what
raising the last component does, and with it `~>` is an interval. For the picks, `PickInv`
says that the scan holds the first of the highest matches it has seen, and that of the list
being sorted the part already done is descending, ties as they came, except for the
candidate in hand, and the rest is as it came; so both end with the first of the highest.

**Searching and downloading.** `SearchAssumption` says that manifests list names and
version strings there are and that server lists are lists of servers. For `FailureHonest`,
`WalkInv` says that while nothing is found, no server passed and read has a match, and
`MatchManifestFacts` that no rows from a manifest means no match in it; sorting loses no row
(`SortFacts`). For `SavedWhole`, `SavingInv` has: a file has one name; what a transfer
writes has no name but its own; and a transfer of a name that is not shaken is the only
one of it, writes the `.part` file there is, and has written the pieces it is past.
For `ReportIsTrue`, `ReportInv` says of a call in progress that the rows it passed are in
the directory if none failed, and, if it was alone, that what is new there is its own file
or its own `.part` file; a step of another call that changes the directory ends its being
alone.

**Induction.** The library's induction takes a predicate as an operator, which the provers
cannot instantiate. `Induction` states it over the set of numbers the predicate holds for,
and `IterationExists` shows that a loop written as a recursive function is well defined.
The filters, joins and sorts of `RemoteIndex`, `PickNewest` and `Search` are written so; the
three proof modules repeat these lemmas.

Only model-checked:

- liveness (`InstallEnds`, `QueryEnds`, `EveryCallReturns`): the prover has no rule for
  fairness;
- `ListingExact`, `ListingOrdered` and `DownloadsWhatInstallUses`: they count and compare
  rows through joins, a stable sort and two picks over lists of different rows; the proofs
  above use of those lists only whether they are empty and what they are lists of;
- `MergedAsUpstream`, `ReadBack` and `RemovedIsForgotten`: `UpstreamMerge` and
  `ManifestCodec` are recursive over tables, which the prover does not support.

## 5. Not modelled

The reasons are in `PROJECT.json` under `components`. In short:

- characters: quoting, numbers and white space of manifests, version tokens, URLs, argv
  and printed output of the Lua engine. Their inputs are strings of any length, which a
  model checker only reaches as toys;
- what runs in another program or library: compilers, git, zip, tar, HTTP, the Lua VM and
  the embedded LuaRocks, of which only the platform merge is stated, for comparison;
- read-only views of the manifest: `List`, `Show`, `Which`;
- declarations and dispatch: facade, types, configuration;
- the parts planned below.

## 6. Plan

1. The autodetection of modules by the builtin backend; then a module that composes
   `Resolver`, `SourceBuild` and `RockTree`: what one `Install` leaves when any of its
   rocks fails.
2. Pack and Unpack against Deploy: a packed rock deploys to what was packed.
3. Proofs: `ListingOrdered` from the order laws and the insertion of `SortMatches`, whose
   argument `PicksAlwaysAgree` makes for one list of candidates; `ListingExact` by counting
   rows per server.
