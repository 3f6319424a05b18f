------------------------------ MODULE RockTree ------------------------------
(***************************************************************************)
(* The on-disk rock tree: what Install, Build and Make (deployRock,        *)
(* tree.Deploy) and Remove (tree.DeleteVersion) do to the deployed files,  *)
(* the per-rock rock_manifest files and the tree manifest.                 *)
(*                                                                         *)
(* A client reads the tree manifest once, changes files one by one under   *)
(* the decisions of resolveSpot, and publishes the manifest last.  Nothing *)
(* is rolled back and nothing is locked: an error, or the death of the     *)
(* process, leaves the files as they are at that step, and other clients   *)
(* of the same tree interleave with every step.                            *)
(***************************************************************************)
EXTENDS Naturals, Sequences

CONSTANTS
    Rocks,      \* the rock versions (name/version pairs) that get installed
    Name,       \* rock -> rank of its name in string order
    Ver,        \* rock -> rank of its version under deps.Compare
    Items,      \* module and command names
    InitBase,   \* item "foo.init" -> "foo"; every other item -> itself
    Declared,   \* rock -> lua/lib targets of build.modules and build.install
    Bins,       \* rock -> commands of build.install.bin
    Staged,     \* rock -> lua/lib targets its backend put in a lua/lib subtree
    Wrapped,    \* the rocks whose commands get a launcher (BinWrap and isLua)
    UserFiles,  \* targets where a file no rock deployed may already sit
    Clients,    \* the clients that work on the tree
    MaxFailures \* bound: steps that fail, or operations killed half way

Sections    == {"lua", "lib", "bin"}
Indexes     == {"modules", "commands"}
Target      == Sections \X Items
ModTarget   == {"lua", "lib"} \X Items
NoRock      == "none"
Slot        == {"plain", "backup"} \cup Rocks
Content     == {NoRock, "user", "torn"} \cup Rocks
Key         == Target \X Slot
Work        == (1..3) \X Target

ASSUME CatalogAssumption ==
    /\ Rocks \cap {"plain", "backup", NoRock, "user", "torn"} = {}
    /\ Rocks # {} /\ Items # {}
    /\ Name \in [Rocks -> Nat]
    /\ Ver \in [Rocks -> Nat]
    /\ InitBase \in [Items -> Items]
    /\ Declared \in [Rocks -> SUBSET ModTarget]
    /\ Bins \in [Rocks -> SUBSET Items]
    /\ Staged \in [Rocks -> SUBSET ModTarget]
    /\ Wrapped \subseteq Rocks
    /\ UserFiles \subseteq Target
    /\ MaxFailures \in Nat

VARIABLES
    file,         \* target -> slot -> what the file holds, "none" if absent
    rockManifest, \* rock -> the files its rock_manifest lists, {} if absent
    manifest,     \* the tree manifest on disk
    pc,           \* client -> where it is in its operation
    op,           \* client -> the local state of its operation
    failures      \* operations that ended half way, and errors a removal ignored

vars == <<file, rockManifest, manifest, pc, op, failures>>

-----------------------------------------------------------------------------
(* The tree manifest: the installed rocks, and for every module and command *)
(* the list of its providers, whose head is the active one.  A key whose    *)
(* list is empty is absent from the file.                                   *)

Manifest == [repo : SUBSET Rocks, prov : [Indexes -> [Items -> Seq(Rocks)]]]

EmptyManifest ==
    [repo |-> {}, prov |-> [x \in Indexes |-> [i \in Items |-> <<>>]]]

Holds(list, r) == \E k \in DOMAIN list : list[k] = r

(* The filter loop of upsertProvider and removeProvider.  A list names a    *)
(* provider at most once (ManifestSound), so dropping every occurrence is   *)
(* dropping the one there is.                                               *)
Without(list, r) ==
    IF Holds(list, r)
    THEN LET k == CHOOSE k \in DOMAIN list : list[k] = r
         IN [j \in 1..(Len(list) - 1) |-> IF j < k THEN list[j] ELSE list[j + 1]]
    ELSE list

\* Mutant: the old entry of the provider is not dropped first.
UpsertProviderTwice(list, r) == <<r>> \o list

UpsertProvider(list, r) ==
    LET rest == Without(list, r)
    IN [j \in 1..(Len(rest) + 1) |-> IF j = 1 THEN r ELSE rest[j - 1]]

RemoveProvider(prov, r) ==
    [x \in Indexes |-> [i \in Items |-> Without(prov[x][i], r)]]

(* manifestProvider: the head of the module list, else of the command list. *)
Provider(m, i) ==
    CASE m.prov["modules"][i] # <<>>  -> Head(m.prov["modules"][i])
      [] m.prov["modules"][i] = <<>> /\ m.prov["commands"][i] # <<>>
                                      -> Head(m.prov["commands"][i])
      [] OTHER                        -> NoRock

(* currentProvider: the item itself, else what "foo.init" was once called. *)
CurrentProvider(m, i) ==
    IF Provider(m, i) # NoRock THEN Provider(m, i) ELSE Provider(m, InitBase[i])

\* Mutant: the version is not compared.
WinsSpotByName(m, i, r) ==
    LET cur == CurrentProvider(m, i) IN cur = NoRock \/ Name[r] <= Name[cur]

\* Mutant: the name is not compared.
WinsSpotByVersion(m, i, r) ==
    LET cur == CurrentProvider(m, i)
    IN cur = NoRock \/ r = cur \/ Ver[r] > Ver[cur]

(* The decision of resolveSpot: does r get the plain path of item i?       *)
WinsSpot(m, i, r) ==
    LET cur == CurrentProvider(m, i)
    IN \/ cur = NoRock
       \/ Name[r] < Name[cur]
       \/ Name[r] = Name[cur] /\ (r = cur \/ Ver[r] > Ver[cur])

\* Mutant: the active file of another provider is overwritten.
PreservedUntracked(m, t, r) ==
    IF file[t]["plain"] = NoRock \/ CurrentProvider(m, t[2]) # NoRock
    THEN file[t]
    ELSE [file[t] EXCEPT !["backup"] = file[t]["plain"], !["plain"] = NoRock]

\* Mutant: an untracked file is overwritten.
PreservedTracked(m, t, r) ==
    LET cur == CurrentProvider(m, t[2])
    IN IF file[t]["plain"] = NoRock \/ cur = r \/ cur = NoRock
       THEN file[t]
       ELSE [file[t] EXCEPT ![cur] = file[t]["plain"], !["plain"] = NoRock]

(* What resolveSpot does to the file already at the plain path of t before  *)
(* r overwrites it: another provider's file gets that provider's versioned  *)
(* name, an untracked file the "~" name, a file of r itself stays.          *)
Preserved(m, t, r) ==
    LET cur  == CurrentProvider(m, t[2])
        kept == IF cur = NoRock THEN "backup" ELSE cur
    IN IF file[t]["plain"] = NoRock \/ cur = r
       THEN file[t]
       ELSE [file[t] EXCEPT ![kept] = file[t]["plain"], !["plain"] = NoRock]

-----------------------------------------------------------------------------
(* Deploy.  The artifacts of a rock in the stages of tree.Deploy: declared  *)
(* modules, then commands, then whatever the backend left in a lua or lib   *)
(* subtree.  The order within a stage is a Go map's: any.                   *)

WorkOf(r) ==
    {<<1, t>> : t \in Declared[r]}
        \cup {<<2, <<"bin", i>>>> : i \in Bins[r]}
        \cup {<<3, t>> : t \in Staged[r]}

\* Mutant: the section is left out of the key.
KeyOfNoSection(r, t, slot) == <<t[2], slot>>

\* Mutant: the plain name is recorded whichever name the file got.
KeyOfPlain(r, t, slot) == <<t, "plain">>

(* The rock_manifest key of a deployed file.  A wrapped command is recorded *)
(* under its plain name whichever name its launcher got.                    *)
KeyOf(r, t, slot) ==
    <<t, IF t[1] = "bin" /\ r \in Wrapped THEN "plain" ELSE slot>>

\* Mutant: versioned names are indexed too.
ModuleIndexAll(keys) ==
    {i \in Items : \E s \in {"lua", "lib"} : \E k \in Slot : <<<<s, i>>, k>> \in keys}

(* ModuleIndex: the modules at their plain names; a versioned name is       *)
(* skipped.                                                                 *)
ModuleIndex(keys) ==
    {i \in Items : \E s \in {"lua", "lib"} : <<<<s, i>>, "plain">> \in keys}

(* deployRock's update of the manifest it read before deploying.           *)
Recorded(m, r, keys) ==
    LET cmds == IF \E i \in Items : \E s \in Slot : <<<<"bin", i>>, s>> \in keys
                THEN Bins[r] ELSE {}
        new  == [modules |-> ModuleIndex(keys), commands |-> cmds]
    IN [repo |-> m.repo \cup {r},
        prov |-> [x \in Indexes |-> [i \in Items |->
                    IF i \in new[x] THEN UpsertProvider(m.prov[x][i], r)
                                    ELSE m.prov[x][i]]]]

NoWork == <<1, CHOOSE t \in Target : TRUE>>

Idle == [m |-> EmptyManifest, rock |-> CHOOSE r \in Rocks : TRUE, todo |-> {},
         now |-> NoWork, slot |-> "plain", keys |-> {}, victims |-> {}, missed |-> {}]

Op == [m : Manifest, rock : Rocks, todo : SUBSET Work, now : Work,
       slot : Slot, keys : SUBSET Key, victims : SUBSET Rocks, missed : SUBSET Key]

Finish(c) == pc' = [pc EXCEPT ![c] = "idle"] /\ op' = [op EXCEPT ![c] = Idle]

(* Install, Build or Make reach deployRock with rock r: open the tree, read *)
(* the manifest, build.                                                     *)
StartDeploy(c, r) ==
    /\ pc[c] = "idle"
    /\ pc' = [pc EXCEPT ![c] = "deploy"]
    /\ op' = [op EXCEPT ![c] = [Idle EXCEPT !.m = manifest, !.rock = r,
                                            !.todo = WorkOf(r)]]
    /\ UNCHANGED <<file, rockManifest, manifest, failures>>

(* resolveSpot for the next artifact.                                      *)
ResolveSpot(c, w) ==
    LET r == op[c].rock
        t == w[2]
    IN /\ pc[c] = "deploy"
       /\ w \in op[c].todo
       /\ \A v \in op[c].todo : w[1] <= v[1]
       /\ pc' = [pc EXCEPT ![c] = "copy"]
       /\ IF WinsSpot(op[c].m, t[2], r)
          THEN /\ file' = [file EXCEPT ![t] = Preserved(op[c].m, t, r)]
               /\ op' = [op EXCEPT ![c].now = w, ![c].slot = "plain"]
          ELSE /\ op' = [op EXCEPT ![c].now = w, ![c].slot = r]
               /\ UNCHANGED file
       /\ UNCHANGED <<rockManifest, manifest, failures>>

(* copyFile, or the write of the launcher, and the rock_manifest entry.    *)
CopyFile(c) ==
    LET r == op[c].rock
        t == op[c].now[2]
        s == op[c].slot
    IN /\ pc[c] = "copy"
       /\ file' = [file EXCEPT ![t][s] = r]
       /\ op' = [op EXCEPT ![c].todo = @ \ {op[c].now},
                           ![c].keys = @ \cup {KeyOf(r, t, s)}]
       /\ pc' = [pc EXCEPT ![c] = "deploy"]
       /\ UNCHANGED <<rockManifest, manifest, failures>>

(* copyFile truncates its destination before it writes: a failed or killed  *)
(* copy leaves part of the file.                                            *)
CopyTorn(c) ==
    /\ pc[c] = "copy"
    /\ failures < MaxFailures
    /\ failures' = failures + 1
    /\ file' = [file EXCEPT ![op[c].now[2]][op[c].slot] = "torn"]
    /\ Finish(c)
    /\ UNCHANGED <<rockManifest, manifest>>

WriteRock(c) ==
    /\ pc[c] = "deploy"
    /\ op[c].todo = {}
    /\ rockManifest' = [rockManifest EXCEPT ![op[c].rock] = op[c].keys]
    /\ pc' = [pc EXCEPT ![c] = "record"]
    /\ UNCHANGED <<file, manifest, op, failures>>

(* The manifest with the new rock replaces the one on disk (tmp + rename). *)
WriteTree(c) ==
    /\ pc[c] = "record"
    /\ manifest' = Recorded(op[c].m, op[c].rock, op[c].keys)
    /\ Finish(c)
    /\ UNCHANGED <<file, rockManifest, failures>>

-----------------------------------------------------------------------------
(* Remove: one version, or every installed version of the name.            *)

StartRemove(c, R) ==
    /\ pc[c] = "idle"
    /\ R # {}
    /\ R \subseteq manifest.repo
    /\ \/ \E r \in R : R = {r}
       \/ \E r \in R : R = {q \in manifest.repo : Name[q] = Name[r]}
    /\ pc' = [pc EXCEPT ![c] = "remove"]
    /\ op' = [op EXCEPT ![c] = [Idle EXCEPT !.m = manifest, !.victims = R]]
    /\ UNCHANGED <<file, rockManifest, manifest, failures>>

\* Mutant: the files of every version of the name are taken.
ReadRockOfName(c, r) ==
    /\ pc[c] = "remove"
    /\ r \in op[c].victims
    /\ pc' = [pc EXCEPT ![c] = "unlink"]
    /\ op' = [op EXCEPT ![c].rock = r,
                        ![c].keys = UNION {rockManifest[q] :
                                             q \in {x \in Rocks : Name[x] = Name[r]}},
                        ![c].missed = {}]
    /\ UNCHANGED <<file, rockManifest, manifest, failures>>

\* Mutant: the commands are forgotten.
ReadRockModules(c, r) ==
    /\ pc[c] = "remove"
    /\ r \in op[c].victims
    /\ pc' = [pc EXCEPT ![c] = "unlink"]
    /\ op' = [op EXCEPT ![c].rock = r,
                        ![c].keys = {k \in rockManifest[r] : k[1][1] # "bin"},
                        ![c].missed = {}]
    /\ UNCHANGED <<file, rockManifest, manifest, failures>>

(* DeleteVersion reads the rock_manifest; a missing one lists nothing.     *)
ReadRock(c, r) ==
    /\ pc[c] = "remove"
    /\ r \in op[c].victims
    /\ pc' = [pc EXCEPT ![c] = "unlink"]
    /\ op' = [op EXCEPT ![c].rock = r, ![c].keys = rockManifest[r], ![c].missed = {}]
    /\ UNCHANGED <<file, rockManifest, manifest, failures>>

(* One that cannot be read lists nothing either, and DeleteVersion goes on. *)
(* The listed files it will not delete are noted, for RemovalIsComplete.    *)
ReadRockFails(c, r) ==
    /\ pc[c] = "remove"
    /\ r \in op[c].victims
    /\ failures < MaxFailures
    /\ failures' = failures + 1
    /\ pc' = [pc EXCEPT ![c] = "unlink"]
    /\ op' = [op EXCEPT ![c].rock = r, ![c].keys = {}, ![c].missed = rockManifest[r]]
    /\ UNCHANGED <<file, rockManifest, manifest>>

(* os.Remove of one listed file, whatever it holds by now.                 *)
Unlink(c, k) ==
    /\ pc[c] = "unlink"
    /\ k \in op[c].keys
    /\ file' = [file EXCEPT ![k[1]][k[2]] = NoRock]
    /\ op' = [op EXCEPT ![c].keys = @ \ {k}]
    /\ UNCHANGED <<rockManifest, manifest, pc, failures>>

(* The error of os.Remove is ignored: the file stays, the removal goes on. *)
UnlinkFails(c, k) ==
    /\ pc[c] = "unlink"
    /\ k \in op[c].keys
    /\ failures < MaxFailures
    /\ failures' = failures + 1
    /\ op' = [op EXCEPT ![c].keys = @ \ {k}, ![c].missed = @ \cup {k}]
    /\ UNCHANGED <<file, rockManifest, manifest, pc>>

(* The install directory goes, and the rock leaves the manifest in memory. *)
RemoveDir(c) ==
    LET r == op[c].rock
        m == op[c].m
    IN /\ pc[c] = "unlink"
       /\ op[c].keys = {}
       /\ rockManifest' = [rockManifest EXCEPT ![r] = {}]
       /\ op' = [op EXCEPT ![c].victims = @ \ {r},
                           ![c].m = [repo |-> m.repo \ {r},
                                     prov |-> RemoveProvider(m.prov, r)]]
       /\ pc' = [pc EXCEPT ![c] = "remove"]
       /\ UNCHANGED <<file, manifest, failures>>

WriteRemoved(c) ==
    /\ pc[c] = "remove"
    /\ op[c].victims = {}
    /\ manifest' = op[c].m
    /\ Finish(c)
    /\ UNCHANGED <<file, rockManifest, failures>>

-----------------------------------------------------------------------------
(* An error return or the death of the process at any step of an operation: *)
(* a failed build, fetch, rename, mkdir or manifest write.  No step undoes  *)
(* an earlier one.                                                          *)
Abort(c) ==
    /\ pc[c] # "idle"
    /\ failures < MaxFailures
    /\ failures' = failures + 1
    /\ Finish(c)
    /\ UNCHANGED <<file, rockManifest, manifest>>

EmptyTarget == [s \in Slot |-> NoRock]

Init ==
    /\ \E U \in SUBSET UserFiles :
          file = [t \in Target |-> IF t \in U
                                   THEN [EmptyTarget EXCEPT !["plain"] = "user"]
                                   ELSE EmptyTarget]
    /\ rockManifest = [r \in Rocks |-> {}]
    /\ manifest = EmptyManifest
    /\ pc = [c \in Clients |-> "idle"]
    /\ op = [c \in Clients |-> Idle]
    /\ failures = 0

Deploying(c) ==
    \/ \E r \in Rocks : StartDeploy(c, r)
    \/ \E w \in op[c].todo : ResolveSpot(c, w)
    \/ CopyFile(c)
    \/ CopyTorn(c)
    \/ WriteRock(c)
    \/ WriteTree(c)

Removing(c) ==
    \/ \E R \in SUBSET manifest.repo : StartRemove(c, R)
    \/ \E r \in op[c].victims : ReadRock(c, r) \/ ReadRockFails(c, r)
    \/ \E k \in op[c].keys : Unlink(c, k) \/ UnlinkFails(c, k)
    \/ RemoveDir(c)
    \/ WriteRemoved(c)

Next == \E c \in Clients : Deploying(c) \/ Removing(c) \/ Abort(c)

Spec == Init /\ [][Next]_vars

(* Installs only, none of which fails: the runs about what a tree that only *)
(* grows looks like.                                                        *)
Installing == \E c \in Clients : Deploying(c)

InstallsOnly == Init /\ [][Installing]_vars

(* Installs and removals, none of which fails.                             *)
NoAborts == Init /\ [][\E c \in Clients : Deploying(c) \/ Removing(c)]_vars

-----------------------------------------------------------------------------
(* Properties.                                                             *)

Manifests == {manifest} \cup {op[c].m : c \in Clients}

(* The variables keep their shape.                                         *)
TypeOK ==
    /\ file \in [Target -> [Slot -> Content]]
    /\ rockManifest \in [Rocks -> SUBSET Key]
    /\ manifest \in Manifest
    /\ pc \in [Clients -> {"idle", "deploy", "copy", "record", "remove", "unlink"}]
    /\ op \in [Clients -> Op]
    /\ failures \in Nat

Distinct(list) == \A j, k \in DOMAIN list : list[j] = list[k] => j = k

SoundManifest(m) ==
    \A x \in Indexes : \A i \in Items :
        /\ \A k \in DOMAIN m.prov[x][i] : m.prov[x][i][k] \in m.repo
        /\ Distinct(m.prov[x][i])

(* The provider lists of the manifest never name a rock that is not         *)
(* installed, and never name a rock twice, whatever clients overwrite each  *)
(* other's manifest and wherever operations die: a dangling provider would  *)
(* make resolveSpot demote files to the name of a rock nobody has.          *)
ManifestSound == \A m \in Manifests : SoundManifest(m)

Quiet == \A c \in Clients : pc[c] = "idle"

Ships(r) == Declared[r] \cup Staged[r]

ShipsModule(r, i) == \E s \in {"lua", "lib"} : <<s, i>> \in Ships(r)

Active(m, i) ==
    IF m.prov["modules"][i] = <<>> THEN NoRock ELSE Head(m.prov["modules"][i])

(* The step that publishes the manifest of an install.                     *)
TakesEffect(c) ==
    (pc[c] = "record" /\ pc'[c] = "idle" /\ failures' = failures) =>
        LET r == op[c].rock
        IN \A t \in Ships(r) :
              file[t][IF Active(manifest', t[2]) = r THEN "plain" ELSE r] = r

(* When deployRock publishes the manifest, every module file of the rock is *)
(* on disk where that manifest sends a reader: at the plain path if the     *)
(* rock is now the module's active provider, else at its versioned path.    *)
(* Half-done installs and removals before it do not get in the way.         *)
InstallTakesEffect == [][\A c \in Clients : TakesEffect(c)]_vars

(* While rocks are only installed, the active provider the manifest names   *)
(* for a module really owns a plain file of that module.                    *)
ActiveServed ==
    Quiet => \A i \in Items :
        Active(manifest, i) # NoRock =>
            \E s \in {"lua", "lib"} :
                file[<<s, i>>]["plain"] = Active(manifest, i)

Beats(r, q) == Name[r] < Name[q] \/ (Name[r] = Name[q] /\ Ver[r] > Ver[q])

(* The active provider of a module does not depend on the order the rocks   *)
(* were installed in: it is the one with the least name and, within a name, *)
(* the greatest version, of all installed rocks that ship the module.       *)
ActiveIsBest ==
    Quiet => \A i \in Items :
        LET providers == {r \in manifest.repo : ShipsModule(r, i)}
        IN providers # {} =>
              /\ Active(manifest, i) \in providers
              /\ \A q \in providers \ {Active(manifest, i)} :
                    Beats(Active(manifest, i), q)

(* Installing one rock loses no module of another: every installed rock     *)
(* still has each of its module files, active or under its versioned name.  *)
NoModuleLost ==
    Quiet => \A r \in manifest.repo : \A t \in Ships(r) :
        r \in {file[t]["plain"], file[t][r]}

KeepsUser(t) ==
    (\E s \in Slot : file[t][s] = "user") => (\E s \in Slot : file'[t][s] = "user")

(* A file that no rock deployed survives every install, under some name.   *)
UserFileKept == [][\A t \in Target : KeepsUser(t)]_vars

(* No other rock has a module or a command of the name of t, or of the name *)
(* resolveSpot falls back to: it looks a name up in both indexes, whatever   *)
(* the section of the file.                                                 *)
SoleOwner(r, t) ==
    \A q \in Rocks \ {r} : \A i \in {t[2], InitBase[t[2]]} :
        ~ ShipsModule(q, i) /\ i \notin Bins[q]

(* A step of a removal that changes file s of target t changes a file of    *)
(* the rock, complete or torn by a failed reinstall.                        *)
SparesOthers(c, t, s) ==
    (pc[c] = "unlink" /\ file'[t][s] # file[t][s])
        => file[t][s] \in {op[c].rock, "torn"}

(* A removal deletes only files of its rock where no other rock has the     *)
(* name and, while no operation has failed, also where the rock is the      *)
(* active provider of the module, however often the file changed hands.     *)
RemovalIsClean ==
    [][\A c \in Clients : \A t \in Target : \A s \in Slot :
          ( \/ SoleOwner(op[c].rock, t)
            \/ failures = 0 /\ t \in ModTarget /\ Active(op[c].m, t[2]) = op[c].rock )
          => SparesOthers(c, t, s)]_vars

(* DeleteVersion deletes files this version deployed, complete or torn by a *)
(* failed reinstall, and no others.                                         *)
RemovalSparesOthers ==
    [][\A c \in Clients : \A t \in Target : \A s \in Slot : SparesOthers(c, t, s)]_vars

(* The step that ends the removal of one rock leaves no sole file of it but *)
(* the listed ones it could not delete.                                     *)
LeavesNothing(c) ==
    LET r == op[c].rock
    IN (pc[c] = "unlink" /\ pc'[c] = "remove" /\ rockManifest[r] # {}) =>
          \A t \in Target : \A s \in {"plain", r} :
             SoleOwner(r, t) /\ file[t][s] = r => <<t, s>> \in op[c].missed

(* When DeleteVersion has removed a rock that had a rock_manifest, the only *)
(* files of the rock left at a plain or at a versioned path, of those whose *)
(* name only this rock has, are the listed ones whose own os.Remove failed, *)
(* or all if the rock_manifest could not be read: errors it ignores.  What  *)
(* died half way before, or an earlier removal left, is no exception.       *)
RemovalIsComplete == [][\A c \in Clients : LeavesNothing(c)]_vars

(* What an install in progress knows: its manifest is the one on disk, and  *)
(* its rock_manifest lists a module at the plain path exactly if resolveSpot *)
(* awards the path to the rock.                                             *)
DeployInProgress(c) ==
    LET r == op[c].rock
    IN /\ op[c].m = manifest
       /\ op[c].todo \subseteq WorkOf(r)
       /\ \A t \in ModTarget :
             <<t, "plain">> \in op[c].keys
                 => t \in Ships(r) /\ WinsSpot(manifest, t[2], r)
       /\ \A t \in Ships(r) :
             WinsSpot(manifest, t[2], r) /\ (\A w \in op[c].todo : w[2] # t)
                 => <<t, "plain">> \in op[c].keys
       /\ pc[c] = "copy" =>
             /\ op[c].now \in op[c].todo
             /\ op[c].slot = IF WinsSpot(manifest, op[c].now[2][2], r)
                             THEN "plain" ELSE r
       /\ pc[c] = "record" => op[c].todo = {}

(* What a removal in progress knows: its manifest lacks some versions of    *)
(* one rock, the rest of the versions to remove are still in it, and no     *)
(* other rock lost a module.                                                *)
RemoveInProgress(c) ==
    LET m       == op[c].m
        removed == manifest.repo \ m.repo
    IN /\ m.repo \subseteq manifest.repo
       /\ op[c].victims \subseteq m.repo
       /\ removed \cup op[c].victims # {}
       /\ \A q, r \in removed \cup op[c].victims : Name[q] = Name[r]
       /\ \A i \in Items :
             Active(manifest, i) \notin removed => Active(m, i) = Active(manifest, i)
       /\ pc[c] = "unlink" => op[c].rock \in op[c].victims

(* With one client no operation ever works from a stale manifest: what it   *)
(* read at its start, less what it removed itself, is what it overwrites at *)
(* its end.                                                                 *)
SnapshotFresh ==
    \A c \in Clients :
        /\ pc[c] \in {"deploy", "copy", "record"} => DeployInProgress(c)
        /\ pc[c] \in {"remove", "unlink"} => RemoveInProgress(c)

Index == INSTANCE TreeIndex WITH
             Ships     <- ShipsModule,
             installed <- manifest.repo,
             active    <- [i \in Items |-> Active(manifest, i)]

(* A tree with one client implements TreeIndex: every completed install or  *)
(* removal looks like one atomic step to a reader of the manifest, the      *)
(* active provider of a module changes only to a rock that outranks it or   *)
(* because it was removed, and a failed operation is invisible.             *)
ImplementsIndex == Index!Spec
=============================================================================
