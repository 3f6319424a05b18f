---------------------------- MODULE ManifestCodec ----------------------------
(***************************************************************************)
(* What manif writes for a manifest and what it reads back.  A manifest is *)
(* laid out as Lua tables (manifestToTable), the tables are printed entry  *)
(* by entry (writeValue), parsed again (parseTable), sorted into arrays,   *)
(* maps and mixed tables by the keys the parser met (entriesToValue) and   *)
(* taken apart (manifestFromTable).  Lua has one empty table: the text of  *)
(* an empty array is the text of an empty map.                             *)
(*                                                                         *)
(* Strings and numbers are printed and parsed to themselves: their quoting *)
(* is left out.  A relative path is the sequence of its parts.  A          *)
(* dependency is [name, namespace, constraints], a version [raw, comps,    *)
(* hasRevision, revision, isSCM, isDev].                                   *)
(***************************************************************************)
EXTENDS Naturals, Sequences, SequencesExt

NoKeys     == [k \in {} |-> k]
Unreadable == [error |-> TRUE]

(* A Go value of the table layer: string, number, []any, map[string]any, or *)
(* a table with both kinds of keys.  Numbered keys are always 1, 2, ...     *)
Str(s)      == [str |-> s]
Num(n)      == [num |-> n]
Arr(q)      == [arr |-> q]
Map(f)      == [map |-> f]
Tab(q, f)   == [tab |-> [num |-> q, str |-> f]]
Is(v, kind) == DOMAIN v = {kind}

StrMap(f) == Map([k \in DOMAIN f |-> Str(f[k])])
StrArr(q) == Arr([i \in DOMAIN q |-> Str(q[i])])

-----------------------------------------------------------------------------
(* writer.go.                                                              *)

NormalizeTable(v) ==
    CASE Is(v, "arr") -> [num |-> v.arr, str |-> NoKeys]
      [] Is(v, "map") -> [num |-> <<>>, str |-> v.map]
      [] Is(v, "tab") -> v.tab

NoKey == [key |-> FALSE]
Key(k) == [key |-> TRUE, is |-> k]

(* The text of a table is its entries: the numbered ones without a key, then *)
(* the named ones.  The code sorts the names; one order is as good as any.   *)
RECURSIVE WriteValue(_)
WriteValue(v) ==
    IF Is(v, "str") \/ Is(v, "num") THEN v
    ELSE LET t     == NormalizeTable(v)
             names == SetToSeq(DOMAIN t.str)
         IN [entries |->
               [i \in DOMAIN t.num |-> <<NoKey, WriteValue(t.num[i])>>]
               \o [i \in DOMAIN names |-> <<Key(names[i]), WriteValue(t.str[names[i]])>>]]

-----------------------------------------------------------------------------
(* parser.go.                                                              *)

(* Entries without a key are numbered 1, 2, ... by the parser, which makes  *)
(* them dense.  No key is written twice.                                    *)
EntriesToValue(es) ==
    LET named == SelectSeq(es, LAMBDA x : x[1].key)
        other == SelectSeq(es, LAMBDA x : ~ x[1].key)
        nums  == [i \in DOMAIN other |-> other[i][2]]
        strs  == [k \in {named[i][1].is : i \in DOMAIN named} |->
                     LET i == CHOOSE i \in DOMAIN named : named[i][1].is = k IN named[i][2]]
    IN CASE other # <<>> /\ named = <<>>  -> Arr(nums)
         [] other # <<>> /\ named # <<>>  -> Tab(nums, strs)
         [] other = <<>>                  -> Map(strs)

RECURSIVE ParseValue(_)
ParseValue(x) ==
    IF Is(x, "entries")
    THEN EntriesToValue([i \in DOMAIN x.entries |->
                           <<x.entries[i][1], ParseValue(x.entries[i][2])>>])
    ELSE x

-----------------------------------------------------------------------------
(* Tree manifests: [Repository, Modules, Commands, Dependencies].          *)

(* isSCM and isDev are not written.                                        *)
VersionToTable(v) ==
    Tab([i \in DOMAIN v.comps |-> Num(v.comps[i])],
        [k \in {"string"} \cup (IF v.hasRevision THEN {"revision"} ELSE {}) |->
            IF k = "string" THEN Str(v.raw) ELSE Num(v.revision)])

(* Neither is the namespace of a dependency.                               *)
DepToTable(d) ==
    LET cs == [j \in DOMAIN d.constraints |->
                  Map([op      |-> Str(d.constraints[j].op),
                       version |-> VersionToTable(d.constraints[j].version)])]
    IN IF cs = <<>> THEN Map([name |-> Str(d.name)])
                    ELSE Map([name |-> Str(d.name), constraints |-> Arr(cs)])

(* The engine records rocks with the arch "installed" only.                *)
EntryToTable(e) ==
    Map([arch         |-> Str(e.arch),
         modules      |-> StrMap(e.modules),
         commands     |-> StrMap(e.commands),
         dependencies |-> StrMap(e.dependencies)])

ManifestToTable(m) ==
    Map([commands |-> Map([k \in DOMAIN m.Commands |-> StrArr(m.Commands[k])]),
         modules  |-> Map([k \in DOMAIN m.Modules |-> StrArr(m.Modules[k])]),
         repository |->
             Map([p \in DOMAIN m.Repository |->
                    Map([v \in DOMAIN m.Repository[p] |->
                           Arr(<<EntryToTable(m.Repository[p][v])>>)])]),
         dependencies |->
             Map([p \in DOMAIN m.Dependencies |->
                    Map([v \in DOMAIN m.Dependencies[p] |->
                           Arr([i \in DOMAIN m.Dependencies[p][v] |->
                                  DepToTable(m.Dependencies[p][v][i])])])])])

ConstraintVersionFromValue(v) ==
    LET None == [raw |-> "", comps |-> <<>>, hasRevision |-> FALSE, revision |-> 0,
                 isSCM |-> FALSE, isDev |-> FALSE]
        Named(f, comps) ==
            LET has == "revision" \in DOMAIN f /\ Is(f["revision"], "num")
            IN [None EXCEPT !.raw         = f["string"].str,
                            !.comps       = comps,
                            !.hasRevision = has,
                            !.revision    = IF has THEN f["revision"].num ELSE 0]
        nums == SelectSeq(v.tab.num, LAMBDA n : Is(n, "num"))
    IN CASE Is(v, "str") -> [None EXCEPT !.raw = v.str]
         [] Is(v, "tab") -> Named(v.tab.str, [i \in DOMAIN nums |-> nums[i].num])
         [] Is(v, "map") -> Named(v.map, <<>>)
         [] OTHER        -> None

(* loadStringListMap.                                                      *)
IsListMap(v) ==
    /\ Is(v, "map")
    /\ \A k \in DOMAIN v.map :
          /\ Is(v.map[k], "arr")
          /\ \A i \in DOMAIN v.map[k].arr : Is(v.map[k].arr[i], "str")

ListMap(v) ==
    [k \in DOMAIN v.map |-> [i \in DOMAIN v.map[k].arr |-> v.map[k].arr[i].str]]

(* extractRepoEntry: the first of the arch entries.  A sub-table that is no  *)
(* map is ignored, one of strings is taken, any other is an error.           *)
SubTable(e, k) == IF k \in DOMAIN e /\ Is(e[k], "map") THEN e[k].map ELSE NoKeys

IsRepoEntry(v) ==
    /\ Is(v, "arr") /\ v.arr # <<>>
    /\ Is(v.arr[1], "map")
    /\ LET e == v.arr[1].map
       IN /\ "arch" \in DOMAIN e /\ Is(e["arch"], "str")
          /\ \A k \in {"modules", "commands", "dependencies"} :
                \A x \in DOMAIN SubTable(e, k) : Is(SubTable(e, k)[x], "str")

RepoEntry(v) ==
    LET e      == v.arr[1].map
        sub(k) == [x \in DOMAIN SubTable(e, k) |-> SubTable(e, k)[x].str]
    IN [arch |-> e["arch"].str, modules |-> sub("modules"),
        commands |-> sub("commands"), dependencies |-> sub("dependencies")]

Constraints(d) ==
    IF "constraints" \in DOMAIN d /\ Is(d["constraints"], "arr")
    THEN d["constraints"].arr ELSE <<>>

(* loadDepList: {} is the list of a rock without dependencies.             *)
IsDepList(v) ==
    \/ Is(v, "map") /\ v.map = NoKeys
    \/ /\ Is(v, "arr")
       /\ \A i \in DOMAIN v.arr :
             /\ Is(v.arr[i], "map")
             /\ \A j \in DOMAIN Constraints(v.arr[i].map) :
                   Is(Constraints(v.arr[i].map)[j], "map")

DepList(v) ==
    LET dep(d) ==
            [name |-> d["name"].str, namespace |-> "",
             constraints |->
                 [j \in DOMAIN Constraints(d) |->
                    [op      |-> Constraints(d)[j].map["op"].str,
                     version |-> ConstraintVersionFromValue(Constraints(d)[j].map["version"])]]]
    IN IF Is(v, "map") THEN <<>> ELSE [i \in DOMAIN v.arr |-> dep(v.arr[i].map)]

(* Tables by package, then by version.                                     *)
IsNested(v)   == Is(v, "map") /\ \A p \in DOMAIN v.map : Is(v.map[p], "map")
NestedVals(v) == UNION {{v.map[p].map[k] : k \in DOMAIN v.map[p].map} : p \in DOMAIN v.map}

(* The file always has the four keys: ManifestToTable writes them all.     *)
ManifestFromTable(t) ==
    LET repo == t["repository"].map
        deps == t["dependencies"].map
    IN IF /\ IsListMap(t["modules"])
          /\ IsListMap(t["commands"])
          /\ IsNested(t["repository"])
          /\ \A v \in NestedVals(t["repository"]) : IsRepoEntry(v)
          /\ IsNested(t["dependencies"])
          /\ \A v \in NestedVals(t["dependencies"]) : IsDepList(v)
       THEN [Repository   |-> [n \in DOMAIN repo |->
                                 [v \in DOMAIN repo[n].map |-> RepoEntry(repo[n].map[v])]],
             Modules      |-> ListMap(t["modules"]),
             Commands     |-> ListMap(t["commands"]),
             Dependencies |-> [n \in DOMAIN deps |->
                                 [v \in DOMAIN deps[n].map |-> DepList(deps[n].map[v])]]]
       ELSE Unreadable

TreeText(m) == WriteValue(ManifestToTable(m))

ReadTree(text) ==
    LET v == ParseValue(text)
    IN IF Is(v, "map") THEN ManifestFromTable(v.map) ELSE Unreadable

-----------------------------------------------------------------------------
(* Rock manifests: [Rockspec, RockspecFile, Dirs], Dirs a function from the  *)
(* five sections to functions from paths to checksums.                       *)

Dirs == {"lua", "lib", "bin", "conf", "doc"}

LegacyRockspecKey == "rockspec"

(* A name in a directory is a file or a directory, never both.             *)
RECURSIVE StringMapToNested(_)
StringMapToNested(f) ==
    Map([p \in {Head(path) : path \in DOMAIN f} |->
           IF <<p>> \in DOMAIN f THEN Str(f[<<p>>])
           ELSE StringMapToNested(
                  [rest \in {Tail(path) : path \in {q \in DOMAIN f : Head(q) = p}} |->
                     f[<<p>> \o rest]])])

RockManifestToTable(rm) ==
    LET dirs == {d \in Dirs : DOMAIN rm.Dirs[d] # {}}
        spec == IF rm.RockspecFile = "" THEN LegacyRockspecKey ELSE rm.RockspecFile
        keys == dirs \cup (IF rm.Rockspec = "" THEN {} ELSE {spec})
    IN Map([k \in keys |-> IF k \in dirs THEN StringMapToNested(rm.Dirs[k]) ELSE Str(rm.Rockspec)])

(* The path and checksum of every file under prefix.                       *)
RECURSIVE FlattenNested(_, _)
FlattenNested(prefix, f) ==
    UNION {IF Is(f[k], "map") THEN FlattenNested(Append(prefix, k), f[k].map)
           ELSE {<<Append(prefix, k), f[k].str>>} : k \in DOMAIN f}

FromPairs(S) == [p \in {x[1] : x \in S} |-> (CHOOSE x \in S : x[1] = p)[2]]

(* specFiles: the names that end in .rockspec.                             *)
RockManifestFromTable(t, specFiles) ==
    LET specs   == DOMAIN t \cap (specFiles \cup {LegacyRockspecKey})
        spec    == CHOOSE k \in specs : TRUE
        present == DOMAIN t \cap Dirs
    IN IF (\A k \in specs : Is(t[k], "str")) /\ (\A d \in present : Is(t[d], "map"))
       THEN [Rockspec     |-> IF specs = {} THEN "" ELSE t[spec].str,
             RockspecFile |-> IF specs \in {{}, {LegacyRockspecKey}} THEN "" ELSE spec,
             Dirs |-> [d \in Dirs |-> IF d \in present THEN FromPairs(FlattenNested(<<>>, t[d].map))
                                                       ELSE NoKeys]]
       ELSE Unreadable

RockText(rm) == WriteValue(Map([rock_manifest |-> RockManifestToTable(rm)]))

ReadRock(text, specFiles) ==
    LET v == ParseValue(text)
    IN IF /\ Is(v, "map") /\ "rock_manifest" \in DOMAIN v.map
          /\ Is(v.map["rock_manifest"], "map")
       THEN RockManifestFromTable(v.map["rock_manifest"].map, specFiles)
       ELSE Unreadable
=============================================================================
