------------------------------ MODULE Rockspec ------------------------------
(***************************************************************************)
(* From the globals a rockspec assigns to the Rockspec the engine works    *)
(* with: Eval harvests the Lua tables into Go structs, MergePlatforms      *)
(* folds the overlays of this host's platforms into them, and Validate     *)
(* checks the result.                                                      *)
(*                                                                         *)
(* A Lua value is a string, a boolean or a table with an array part and    *)
(* named keys.  Nil and empty lists and maps are one, as in Go.  The words *)
(* of a dependency string are a constant.                                  *)
(***************************************************************************)
EXTENDS Versions

CONSTANTS
    VersionOf,  \* version string -> what ParseVersion makes of it
    Words       \* dependency string -> [name, segs]: the parts of its name between
                \* slashes, <<>> without a name, then operators with version strings

S(x)      == [str |-> x]
B(b)      == [bool |-> b]
T(q, f)   == [seq |-> q, key |-> f]
Nil       == [nil |-> TRUE]
NoText    == ""
NoKeys    == [k \in {} |-> k]
EmptyT    == T(<<>>, NoKeys)
Rejected  == [rejected |-> TRUE]

IsStr(v)   == DOMAIN v = {"str"}
IsBool(v)  == DOMAIN v = {"bool"}
IsTable(v) == DOMAIN v = {"seq", "key"}

Get(t, k) == IF k \in DOMAIN t.key THEN t.key[k] ELSE Nil
Sub(t, k) == IF IsTable(Get(t, k)) THEN Get(t, k) ELSE EmptyT

OptString(v) == IF IsStr(v) THEN v.str ELSE NoText
OptBool(v)   == IF IsBool(v) THEN v ELSE Nil

StringArray(v) ==
    IF ~ IsTable(v) THEN <<>>
    ELSE LET strs == SelectSeq(v.seq, IsStr) IN [i \in DOMAIN strs |-> strs[i].str]

StringMap(v) ==
    IF ~ IsTable(v) THEN NoKeys
    ELSE [k \in {n \in DOMAIN v.key : IsStr(v.key[n])} |-> v.key[k].str]

-----------------------------------------------------------------------------
(* Dependency strings.                                                     *)

OperatorAlias ==
    [op \in Ops \cup {"", "=", "!="} |->
        IF op \in {"", "="} THEN "==" ELSE IF op = "!=" THEN "~=" ELSE op]

IsDep(s) ==
    /\ Words[s].name # <<>>
    /\ \A i \in DOMAIN Words[s].segs : Words[s].segs[i][1] \in DOMAIN OperatorAlias

ParseConstraints(segs) ==
    [i \in DOMAIN segs |-> [op |-> OperatorAlias[segs[i][1]], version |-> VersionOf[segs[i][2]]]]

(* parseDepString: two non-empty parts are a namespace and a name.         *)
ParseDep(s) ==
    LET name  == Words[s].name
        split == Len(name) = 2 /\ NoText \notin {name[1], name[2]}
    IN [namespace   |-> IF split THEN name[1] ELSE NoText,
        name        |-> IF split THEN <<name[2]>> ELSE name,
        constraints |-> ParseConstraints(Words[s].segs)]

AreDeps(t)     == \A i \in DOMAIN t.seq : IsStr(t.seq[i]) /\ IsDep(t.seq[i].str)
HarvestDeps(t) == [i \in DOMAIN t.seq |-> ParseDep(t.seq[i].str)]

-----------------------------------------------------------------------------
(* Harvesting.                                                             *)

SourceFields  == {"url", "tag", "branch", "md5", "file", "dir", "module"}
BuildFields   == {"type", "makefile", "build_target", "install_target",
                  "build_command", "install_command"}
VarFields     == {"variables", "build_variables", "install_variables"}
PassFields    == {"build_pass", "install_pass"}
InstallFields == {"lua", "lib", "bin", "conf"}
ModuleLists   == {"sources", "incdirs", "libdirs", "libraries", "defines"}
DepFields     == {"dependencies", "build_dependencies", "test_dependencies"}
BuildTypes    == {"", "builtin", "cmake", "make", "command", "none"}
StringGlobals == {"package", "rockspec_format", "version"}
TableGlobals  == DepFields \cup {"description", "source", "external_dependencies",
                                 "supported_platforms", "build", "deploy"}
RockspecFields == StringGlobals \cup TableGlobals \cup {"hooks", "test"}

HarvestSource(t) == [f \in SourceFields |-> OptString(Get(t, f))]

HarvestExternalDeps(t) ==
    [k \in {n \in DOMAIN t.key \ {"platforms"} : IsTable(t.key[n])} |->
        [f \in {"header", "library"} |-> OptString(Get(t.key[k], f))]]

(* A module is a path, or a table whose array part stands for sources.     *)
HarvestModule(v) ==
    LET sources == IF Get(v, "sources") = Nil THEN StringArray(v)
                                              ELSE StringArray(Get(v, "sources"))
    IN IF IsStr(v) THEN [path |-> v.str, lists |-> [f \in ModuleLists |-> <<>>]]
       ELSE [path  |-> NoText,
             lists |-> [f \in ModuleLists |->
                           IF f = "sources" THEN sources ELSE StringArray(Get(v, f))]]

HarvestModules(t) ==
    [k \in {n \in DOMAIN t.key : IsStr(t.key[n]) \/ IsTable(t.key[n])} |->
        HarvestModule(t.key[k])]

HarvestBuild(t) ==
    [fields  |-> [f \in BuildFields |-> OptString(Get(t, f))],
     passes  |-> [f \in PassFields |-> OptBool(Get(t, f))],
     vars    |-> [f \in VarFields |-> StringMap(Get(t, f))],
     copy    |-> StringArray(Get(t, "copy_directories")),
     modules |-> HarvestModules(Sub(t, "modules")),
     install |-> [f \in InstallFields |-> StringMap(Get(Sub(t, "install"), f))]]

(* The overlays of a table, each to be harvested as the table is.          *)
Overlaid(t)   == {p \in DOMAIN Sub(t, "platforms").key : IsTable(Sub(t, "platforms").key[p])}
Overlay(t, p) == Sub(t, "platforms").key[p]

(* One that is there with the wrong type, a dependency that does not parse, *)
(* and a build type nobody knows, also in the overlay of another platform,  *)
(* are errors.                                                              *)
CanHarvest(g) ==
    LET given(k) == g.key[k]
        build    == Sub(g, "build")
    IN /\ \A k \in StringGlobals \cap DOMAIN g.key : IsStr(given(k))
       /\ \A k \in TableGlobals \cap DOMAIN g.key : IsTable(given(k))
       /\ \A k \in DepFields :
             AreDeps(Sub(g, k)) /\ \A p \in Overlaid(Sub(g, k)) : AreDeps(Overlay(Sub(g, k), p))
       /\ OptString(Get(build, "type")) \in BuildTypes
       /\ \A p \in Overlaid(build) : OptString(Get(Overlay(build, p), "type")) \in BuildTypes

Harvest(g) ==
    LET t(k) == Sub(g, k)
    IN [package    |-> OptString(Get(g, "package")) # NoText,
        format     |-> OptString(Get(g, "rockspec_format")),
        version    |-> OptString(Get(g, "version")),
        labels     |-> StringArray(Get(t("description"), "labels")),
        issuesURL  |-> OptString(Get(t("description"), "issues_url")),
        supported  |-> StringArray(t("supported_platforms")),
        wrap       |-> OptBool(Get(t("deploy"), "wrap_bin_scripts")),
        hasBuild   |-> Get(g, "build") # Nil,
        source     |-> HarvestSource(t("source")),
        deps       |-> [f \in DepFields |-> HarvestDeps(t(f))],
        external   |-> HarvestExternalDeps(t("external_dependencies")),
        build      |-> HarvestBuild(t("build")),
        platforms  |->
            [source   |-> [p \in Overlaid(t("source")) |-> HarvestSource(Overlay(t("source"), p))],
             deps     |-> [f \in DepFields |->
                              [p \in Overlaid(t(f)) |-> HarvestDeps(Overlay(t(f), p))]],
             external |-> [p \in Overlaid(t("external_dependencies")) |->
                              HarvestExternalDeps(Overlay(t("external_dependencies"), p))],
             build    |-> [p \in Overlaid(t("build")) |-> HarvestBuild(Overlay(t("build"), p))]]]

(* A chunk reads and assigns no globals but a rockspec's.                  *)
Eval(file) ==
    IF /\ file.reads \cup DOMAIN file.globals.key \subseteq RockspecFields
       /\ CanHarvest(file.globals)
    THEN Harvest(file.globals) ELSE Rejected

-----------------------------------------------------------------------------
(* MergePlatforms.                                                         *)

RuntimePlatformsFor(goos) ==
    CASE goos = "linux"  -> <<"unix", "linux">>
      [] goos = "darwin" -> <<"unix", "bsd", "macosx">>
      [] goos \in {"freebsd", "openbsd", "netbsd", "dragonfly"} -> <<"unix", "bsd", goos>>
      [] OTHER -> <<"unix">>

(* An empty field is one the overlay does not set.                         *)
MergeFields(dst, src) == [f \in DOMAIN dst |-> IF src[f] = NoText THEN dst[f] ELSE src[f]]

\* Mutant: the lists are joined.
MergeListJoined(dst, src) == dst \o src

(* By index: the tail of a longer base list stays.                         *)
MergeList(dst, src) == src \o SubSeq(dst, Len(src) + 1, Len(dst))

MergeMap(dst, src) == src @@ dst

MergeModule(dst, src) ==
    [path  |-> IF src.path = NoText THEN dst.path ELSE src.path,
     lists |-> [f \in ModuleLists |-> MergeList(dst.lists[f], src.lists[f])]]

MergeModules(dst, src) ==
    [k \in DOMAIN dst \cup DOMAIN src |->
        IF k \notin DOMAIN src THEN dst[k]
        ELSE IF k \notin DOMAIN dst THEN src[k] ELSE MergeModule(dst[k], src[k])]

(* Not the makefile, nor the passes.                                       *)
MergeBuild(dst, src) ==
    [fields  |-> [MergeFields(dst.fields, src.fields) EXCEPT
                     !["makefile"] = dst.fields["makefile"]],
     passes  |-> dst.passes,
     vars    |-> [f \in VarFields |-> MergeMap(dst.vars[f], src.vars[f])],
     copy    |-> MergeList(dst.copy, src.copy),
     modules |-> MergeModules(dst.modules, src.modules),
     install |-> [f \in InstallFields |-> MergeMap(dst.install[f], src.install[f])]]

MergePlatform(spec, p) ==
    LET o == spec.platforms
        with(dst, src, Merge(_, _)) == IF p \in DOMAIN src THEN Merge(dst, src[p]) ELSE dst
    IN [spec EXCEPT
          !.build    = with(@, o.build, MergeBuild),
          !.source   = with(@, o.source, MergeFields),
          !.deps     = [f \in DepFields |-> with(spec.deps[f], o.deps[f], MergeList)],
          !.external = with(@, o.external, MergeMap)]

NoOverlays ==
    [source |-> NoKeys, deps |-> [f \in DepFields |-> NoKeys], external |-> NoKeys,
     build |-> NoKeys]

(* The platforms of the host in order, the most specific one last.         *)
MergePlatforms(spec, plats) ==
    [FoldLeft(MergePlatform, spec, plats) EXCEPT !.platforms = NoOverlays]

-----------------------------------------------------------------------------
(* Validate.                                                               *)

FormatAtLeast(format, minimum) ==
    Compare(VersionOf[IF format = NoText THEN "1.0" ELSE format], VersionOf[minimum]) >= 0

Valid(spec) ==
    /\ spec.package
    /\ spec.version # NoText /\ VersionOf[spec.version].hasRevision
    /\ spec.source["url"] # NoText
    /\ spec.format # NoText => Compare(VersionOf[spec.format], VersionOf["3.0"]) <= 0
    /\ ~ FormatAtLeast(spec.format, "3.0") =>
          /\ spec.deps["build_dependencies"] = <<>> /\ spec.deps["test_dependencies"] = <<>>
          /\ spec.labels = <<>> /\ spec.issuesURL = NoText
          /\ spec.build.fields["type"] # NoText
    /\ spec.wrap # Nil => FormatAtLeast(spec.format, "1.1")
    /\ spec.build.fields["type"] \in BuildTypes

EvalAndPrepare(file, goos) ==
    LET spec   == Eval(file)
        merged == MergePlatforms(spec, RuntimePlatformsFor(goos))
    IN IF spec = Rejected THEN Rejected ELSE IF Valid(merged) THEN merged ELSE Rejected
=============================================================================
