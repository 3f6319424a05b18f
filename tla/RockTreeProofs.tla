--------------------------- MODULE RockTreeProofs ---------------------------
(***************************************************************************)
(* Theorems about RockTree.  For every catalog, any clients and failures:  *)
(* type correctness and the soundness of the tree manifest.  For one       *)
(* client: the tree implements TreeIndex, a completed install is on disk   *)
(* and a completed removal leaves nothing it could delete, whatever failed *)
(* before.  For one client and catalogs that meet PlainCatalog: the files  *)
(* of a tree that only grows, a user's among them, and which files a       *)
(* removal deletes.                                                        *)
(***************************************************************************)
EXTENDS RockTree, TLAPS

(* The filter loop keeps a duplicate-free list of providers duplicate-free, *)
(* drops the provider it is asked to drop and adds none.                    *)
LEMMA WithoutList ==
    ASSUME NEW S, NEW list \in Seq(S), NEW r, Distinct(list)
    PROVE  /\ Without(list, r) \in Seq(S)
           /\ Distinct(Without(list, r))
           /\ \A j \in DOMAIN Without(list, r) :
                 /\ \E i \in DOMAIN list : Without(list, r)[j] = list[i]
                 /\ Without(list, r)[j] # r
<1>1. CASE ~ Holds(list, r)
  BY <1>1 DEF Without, Holds
<1>2. CASE Holds(list, r)
  <2> DEFINE k == CHOOSE k \in DOMAIN list : list[k] = r
             n == Len(list) - 1
             rest == [j \in 1..n |-> IF j < k THEN list[j] ELSE list[j + 1]]
  <2>1. /\ k \in DOMAIN list
        /\ list[k] = r
    BY <1>2 DEF Holds
  <2>2. /\ DOMAIN list = 1..Len(list)
        /\ Len(list) \in Nat
        /\ \A j \in 1..Len(list) : list[j] \in S
    OBVIOUS
  <2>3. Without(list, r) = rest
    BY <1>2 DEF Without
  <2> HIDE DEF k
  <2>4. n \in Nat
    BY <2>1, <2>2
  <2>5. \A j \in 1..n : rest[j] \in S
    BY <2>1, <2>2
  <2>6. rest \in [1..n -> S]
    BY <2>5
  <2>7. rest \in Seq(S) /\ DOMAIN rest = 1..n
    BY <2>4, <2>6
  <2>8. Distinct(rest)
    BY <2>1, <2>2, <2>4 DEF Distinct
  <2>9. \A j \in 1..n : (\E i \in DOMAIN list : rest[j] = list[i]) /\ rest[j] # r
    BY <2>1, <2>2, <2>4 DEF Distinct
  <2> QED
    BY <2>3, <2>7, <2>8, <2>9
<1> QED
  BY <1>1, <1>2

(* Putting a provider at the front of a list keeps it duplicate-free.      *)
LEMMA UpsertList ==
    ASSUME NEW S, NEW list \in Seq(S), NEW r \in S, Distinct(list)
    PROVE  /\ UpsertProvider(list, r) \in Seq(S)
           /\ Distinct(UpsertProvider(list, r))
           /\ UpsertProvider(list, r) # <<>>
           /\ Head(UpsertProvider(list, r)) = r
           /\ \A j \in DOMAIN UpsertProvider(list, r) :
                 \/ UpsertProvider(list, r)[j] = r
                 \/ \E i \in DOMAIN list : UpsertProvider(list, r)[j] = list[i]
<1> DEFINE rest == Without(list, r)
           out == [j \in 1..(Len(rest) + 1) |-> IF j = 1 THEN r ELSE rest[j - 1]]
<1>1. /\ rest \in Seq(S)
      /\ Distinct(rest)
      /\ \A j \in DOMAIN rest : (\E i \in DOMAIN list : rest[j] = list[i]) /\ rest[j] # r
  BY WithoutList
<1> HIDE DEF rest
<1>2. Len(rest) \in Nat /\ DOMAIN rest = 1..Len(rest) /\ \A j \in 1..Len(rest) : rest[j] \in S
  BY <1>1
<1>3. UpsertProvider(list, r) = out
  BY DEF UpsertProvider, rest
<1>4. out \in [1..(Len(rest) + 1) -> S]
  BY <1>2
<1>5. out \in Seq(S) /\ DOMAIN out = 1..(Len(rest) + 1) /\ Len(out) = Len(rest) + 1
  BY <1>2, <1>4
<1>6. Distinct(out)
  BY <1>1, <1>2 DEF Distinct
<1>7. \A j \in DOMAIN out : out[j] = r \/ \E i \in DOMAIN list : out[j] = list[i]
  BY <1>1, <1>2
<1>8. out[1] = r /\ out # <<>>
  BY <1>2, <1>5
<1>9. Head(out) = r
  BY <1>5, <1>8
<1> QED
  BY SMTT(20), <1>3, <1>5, <1>6, <1>7, <1>8, <1>9

-----------------------------------------------------------------------------
(* Manifests.                                                              *)

(* A tree without a manifest file is read as the empty manifest.           *)
LEMMA EmptySound == EmptyManifest \in Manifest /\ SoundManifest(EmptyManifest)
<1>1. <<>> \in Seq(Rocks)
  OBVIOUS
<1>2. EmptyManifest \in Manifest
  BY <1>1 DEF EmptyManifest, Manifest
<1>3. SoundManifest(EmptyManifest)
  BY DEF EmptyManifest, SoundManifest, Distinct
<1> QED
  BY <1>2, <1>3

(* Recording a deployed rock keeps the manifest sound.                     *)
LEMMA RecordedSound ==
    ASSUME NEW m \in Manifest, SoundManifest(m), NEW r \in Rocks, NEW keys
    PROVE  Recorded(m, r, keys) \in Manifest /\ SoundManifest(Recorded(m, r, keys))
<1> DEFINE cmds == IF \E i \in Items : \E s \in Slot : <<<<"bin", i>>, s>> \in keys
                   THEN Bins[r] ELSE {}
           new == [modules |-> ModuleIndex(keys), commands |-> cmds]
           list(x, i) == IF i \in new[x] THEN UpsertProvider(m.prov[x][i], r)
                                         ELSE m.prov[x][i]
           repo == m.repo \cup {r}
<1>1. Recorded(m, r, keys) =
        [repo |-> repo, prov |-> [x \in Indexes |-> [i \in Items |-> list(x, i)]]]
  BY DEF Recorded
<1>2. \A x \in Indexes : \A i \in Items :
         /\ list(x, i) \in Seq(Rocks)
         /\ Distinct(list(x, i))
         /\ \A k \in DOMAIN list(x, i) : list(x, i)[k] \in repo
  <2> SUFFICES ASSUME NEW x \in Indexes, NEW i \in Items
               PROVE  /\ list(x, i) \in Seq(Rocks)
                      /\ Distinct(list(x, i))
                      /\ \A k \in DOMAIN list(x, i) : list(x, i)[k] \in repo
    OBVIOUS
  <2>1. /\ m.prov[x][i] \in Seq(Rocks)
        /\ Distinct(m.prov[x][i])
        /\ \A k \in DOMAIN m.prov[x][i] : m.prov[x][i][k] \in m.repo
    BY DEF Manifest, SoundManifest
  <2>2. CASE i \in new[x]
    <3>1. list(x, i) = UpsertProvider(m.prov[x][i], r)
      BY <2>2
    <3> HIDE DEF list, new, cmds
    <3> DEFINE up == UpsertProvider(m.prov[x][i], r)
    <3>2. /\ up \in Seq(Rocks)
          /\ Distinct(up)
          /\ \A j \in DOMAIN up :
                up[j] = r \/ \E k \in DOMAIN m.prov[x][i] : up[j] = m.prov[x][i][k]
      <4> DEFINE old == m.prov[x][i]
      <4>1. old \in Seq(Rocks) /\ Distinct(old)
        BY <2>1
      <4> HIDE DEF old
      <4>2. /\ UpsertProvider(old, r) \in Seq(Rocks)
            /\ Distinct(UpsertProvider(old, r))
            /\ \A j \in DOMAIN UpsertProvider(old, r) :
                  \/ UpsertProvider(old, r)[j] = r
                  \/ \E k \in DOMAIN old : UpsertProvider(old, r)[j] = old[k]
        BY <4>1, UpsertList
      <4> QED
        BY <4>2 DEF old
    <3> HIDE DEF up
    <3>3. \A j \in DOMAIN up : up[j] \in repo
      BY <2>1, <3>2
    <3> QED
      BY <3>1, <3>2, <3>3 DEF up
  <2>3. CASE i \notin new[x]
    BY <2>1, <2>3
  <2> QED
    BY <2>2, <2>3
<1> HIDE DEF list
<1>3. repo \in SUBSET Rocks
  BY DEF Manifest
<1>4. [x \in Indexes |-> [i \in Items |-> list(x, i)]] \in [Indexes -> [Items -> Seq(Rocks)]]
  BY <1>2
<1>5. Recorded(m, r, keys) \in Manifest
  BY <1>1, <1>3, <1>4 DEF Manifest
<1>6. SoundManifest(Recorded(m, r, keys))
  BY <1>1, <1>2 DEF SoundManifest
<1> QED
  BY <1>5, <1>6

(* Dropping a rock from the repository and from every provider list keeps   *)
(* the manifest sound.                                                      *)
LEMMA RemovedSound ==
    ASSUME NEW m \in Manifest, SoundManifest(m), NEW r
    PROVE  LET n == [repo |-> m.repo \ {r}, prov |-> RemoveProvider(m.prov, r)]
           IN n \in Manifest /\ SoundManifest(n)
<1> DEFINE n == [repo |-> m.repo \ {r}, prov |-> RemoveProvider(m.prov, r)]
           list(x, i) == Without(m.prov[x][i], r)
<1>1. RemoveProvider(m.prov, r) = [x \in Indexes |-> [i \in Items |-> list(x, i)]]
  BY DEF RemoveProvider
<1>2. \A x \in Indexes : \A i \in Items :
         /\ list(x, i) \in Seq(Rocks)
         /\ Distinct(list(x, i))
         /\ \A k \in DOMAIN list(x, i) : list(x, i)[k] \in m.repo \ {r}
  <2> SUFFICES ASSUME NEW x \in Indexes, NEW i \in Items
               PROVE  /\ list(x, i) \in Seq(Rocks)
                      /\ Distinct(list(x, i))
                      /\ \A k \in DOMAIN list(x, i) : list(x, i)[k] \in m.repo \ {r}
    OBVIOUS
  <2>1. /\ m.prov[x][i] \in Seq(Rocks)
        /\ Distinct(m.prov[x][i])
        /\ \A k \in DOMAIN m.prov[x][i] : m.prov[x][i][k] \in m.repo
    BY DEF Manifest, SoundManifest
  <2> QED
    BY <2>1, WithoutList
<1> HIDE DEF list
<1>3. m.repo \ {r} \in SUBSET Rocks
  BY DEF Manifest
<1>4. [x \in Indexes |-> [i \in Items |-> list(x, i)]] \in [Indexes -> [Items -> Seq(Rocks)]]
  BY <1>2
<1>5. n \in Manifest
  BY <1>1, <1>3, <1>4 DEF Manifest
<1>6. SoundManifest(n)
  BY <1>1, <1>2 DEF SoundManifest
<1> QED
  BY <1>5, <1>6
-----------------------------------------------------------------------------
(* The inductive invariant.                                                *)

IInv == TypeOK /\ ManifestSound

(* The catalog is not empty, so Idle is well defined.                      *)
LEMMA Targets == Target # {} /\ Rocks # {} /\ "plain" \in Slot /\ NoRock \in Content
<1>1. PICK i \in Items : TRUE
  BY CatalogAssumption
<1>2. <<"lua", i>> \in Target
  BY DEF Target, Sections
<1> QED
  BY <1>2, CatalogAssumption DEF Slot, Content

(* The local state of a client between two operations.                     *)
LEMMA IdleOp == Idle \in Op /\ Idle.m = EmptyManifest
<1>1. (CHOOSE t \in Target : TRUE) \in Target /\ (CHOOSE r \in Rocks : TRUE) \in Rocks
  BY Targets
<1>2. NoWork \in Work
  BY <1>1 DEF NoWork, Work
<1> QED
  BY <1>1, <1>2, EmptySound, Targets DEF Idle, Op

(* The artifacts and the rock_manifest keys of a rock.                     *)
LEMMA RockWork == ASSUME NEW r \in Rocks PROVE WorkOf(r) \subseteq Work
BY CatalogAssumption DEF WorkOf, Work, ModTarget, Target, Sections

(* The decision of resolveSpot leaves a well-formed set of files.          *)
LEMMA PreservedType ==
    ASSUME TypeOK, NEW m \in Manifest, NEW t \in Target, NEW r \in Rocks
    PROVE  Preserved(m, t, r) \in [Slot -> Content]
<1>1. \A i \in Items : Provider(m, i) \in Rocks \cup {NoRock}
  BY DEF Provider, Manifest, Indexes
<1>2. CurrentProvider(m, t[2]) \in Rocks \cup {NoRock}
  BY <1>1, CatalogAssumption DEF CurrentProvider, Target
<1>3. file[t] \in [Slot -> Content]
  BY DEF TypeOK
<1> QED
  BY <1>2, <1>3 DEF Preserved, Slot, Content

(* A manifest of the disk or of a client is well formed and sound.         *)
LEMMA AllManifests ==
    ASSUME IInv
    PROVE  /\ manifest \in Manifest /\ SoundManifest(manifest)
           /\ \A c \in Clients : op[c].m \in Manifest /\ SoundManifest(op[c].m)
BY DEF IInv, TypeOK, ManifestSound, Manifests, Op

(* What has to be shown of a step that changes at most one client's part.  *)
LEMMA ClientStep ==
    ASSUME IInv, NEW c \in Clients, NEW o \in Op, SoundManifest(o.m),
           op' = [op EXCEPT ![c] = o],
           manifest' \in Manifest, SoundManifest(manifest')
    PROVE  /\ op' \in [Clients -> Op]
           /\ ManifestSound'
<1>1. op' \in [Clients -> Op]
  BY DEF IInv, TypeOK
<1>2. \A d \in Clients : SoundManifest(op'[d].m)
  BY AllManifests DEF IInv, TypeOK
<1> QED
  BY <1>1, <1>2 DEF ManifestSound, Manifests

(* A tree that was never used satisfies the invariant.                     *)
LEMMA InitInv == Init => IInv
<1> SUFFICES ASSUME Init PROVE IInv
  OBVIOUS
<1>1. EmptyTarget \in [Slot -> Content] /\ [EmptyTarget EXCEPT !["plain"] = "user"] \in [Slot -> Content]
  BY DEF EmptyTarget, Content
<1>2. file \in [Target -> [Slot -> Content]]
  BY <1>1 DEF Init
<1>3. TypeOK
  BY <1>2, EmptySound, IdleOp DEF Init, TypeOK
<1>4. ManifestSound
  BY EmptySound, IdleOp DEF Init, ManifestSound, Manifests
<1> QED
  BY <1>3, <1>4 DEF IInv
-----------------------------------------------------------------------------
(* One lemma per action.                                                   *)

(* An operation that ends, well or not, leaves its client idle.            *)
LEMMA FinishInv ==
    ASSUME IInv, NEW c \in Clients, Finish(c),
           manifest' \in Manifest, SoundManifest(manifest')
    PROVE  /\ op' \in [Clients -> Op]
           /\ ManifestSound'
           /\ pc' \in [Clients -> {"idle", "deploy", "copy", "record", "remove", "unlink"}]
<1>1. Idle \in Op /\ SoundManifest(Idle.m) /\ op' = [op EXCEPT ![c] = Idle]
  BY IdleOp, EmptySound DEF Finish
<1>2. op' \in [Clients -> Op] /\ ManifestSound'
  BY <1>1, ClientStep
<1>3. pc' \in [Clients -> {"idle", "deploy", "copy", "record", "remove", "unlink"}]
  BY DEF Finish, IInv, TypeOK
<1> QED
  BY <1>2, <1>3

(* deployRock reads the manifest.                                          *)
LEMMA StartDeployInv ==
    ASSUME IInv, NEW c \in Clients, NEW r \in Rocks, StartDeploy(c, r) PROVE IInv'
<1> DEFINE o == [Idle EXCEPT !.m = manifest, !.rock = r, !.todo = WorkOf(r)]
<1>1. manifest \in Manifest /\ SoundManifest(manifest)
  BY AllManifests
<1>2. o \in Op /\ o.m = manifest
  BY <1>1, IdleOp, RockWork DEF Op
<1>3. op' = [op EXCEPT ![c] = o] /\ manifest' = manifest
  BY DEF StartDeploy
<1> HIDE DEF o
<1>4. op' \in [Clients -> Op] /\ ManifestSound'
  BY <1>1, <1>2, <1>3, ClientStep
<1>5. TypeOK'
  BY <1>1, <1>4 DEF StartDeploy, IInv, TypeOK
<1> QED
  BY <1>4, <1>5 DEF IInv

(* resolveSpot moves the file in the way.                                  *)
LEMMA ResolveSpotInv ==
    ASSUME IInv, NEW c \in Clients, NEW w \in op[c].todo, ResolveSpot(c, w) PROVE IInv'
<1> DEFINE r == op[c].rock
           t == w[2]
           slot == IF WinsSpot(op[c].m, t[2], r) THEN "plain" ELSE r
           o == [op[c] EXCEPT !.now = w, !.slot = slot]
<1>1. manifest \in Manifest /\ SoundManifest(manifest) /\ SoundManifest(op[c].m)
  BY AllManifests
<1>2. op[c] \in Op /\ w \in Work /\ t \in Target /\ r \in Rocks /\ op[c].m \in Manifest
  BY DEF IInv, TypeOK, Op, Work
<1>3. slot \in Slot
  BY <1>2 DEF Slot
<1>4. o \in Op /\ o.m = op[c].m
  BY <1>2, <1>3 DEF Op
<1>5. op' = [op EXCEPT ![c] = o] /\ manifest' = manifest
  BY DEF ResolveSpot, IInv, TypeOK
<1> HIDE DEF o, slot
<1>6. op' \in [Clients -> Op] /\ ManifestSound'
  BY <1>1, <1>4, <1>5, ClientStep
<1>7. file' \in [Target -> [Slot -> Content]]
  <2>1. Preserved(op[c].m, t, r) \in [Slot -> Content]
    BY <1>2, PreservedType DEF IInv
  <2> QED
    BY <1>2, <2>1 DEF ResolveSpot, IInv, TypeOK
<1>8. TypeOK'
  BY <1>1, <1>6, <1>7 DEF ResolveSpot, IInv, TypeOK
<1> QED
  BY <1>6, <1>8 DEF IInv

(* copyFile writes one file and its rock_manifest entry.                   *)
LEMMA CopyFileInv ==
    ASSUME IInv, NEW c \in Clients, CopyFile(c) PROVE IInv'
<1> DEFINE r == op[c].rock
           t == op[c].now[2]
           s == op[c].slot
           o == [op[c] EXCEPT !.todo = op[c].todo \ {op[c].now},
                              !.keys = op[c].keys \cup {KeyOf(r, t, s)}]
<1>1. manifest \in Manifest /\ SoundManifest(manifest) /\ SoundManifest(op[c].m)
  BY AllManifests
<1>2. op[c] \in Op /\ t \in Target /\ r \in Rocks /\ s \in Slot
  BY DEF IInv, TypeOK, Op, Work
<1>3. KeyOf(r, t, s) \in Key
  BY <1>2 DEF KeyOf, Key, Slot
<1>4. o \in Op /\ o.m = op[c].m
  BY <1>2, <1>3 DEF Op
<1>5. op' = [op EXCEPT ![c] = o] /\ manifest' = manifest
  BY DEF CopyFile, IInv, TypeOK
<1> HIDE DEF o
<1>6. op' \in [Clients -> Op] /\ ManifestSound'
  BY <1>1, <1>4, <1>5, ClientStep
<1>7. file' \in [Target -> [Slot -> Content]]
  BY <1>2 DEF CopyFile, IInv, TypeOK, Content
<1>8. TypeOK'
  BY <1>1, <1>6, <1>7 DEF CopyFile, IInv, TypeOK
<1> QED
  BY <1>6, <1>8 DEF IInv

(* A copy that fails half way.                                             *)
LEMMA CopyTornInv ==
    ASSUME IInv, NEW c \in Clients, CopyTorn(c) PROVE IInv'
<1>1. manifest' \in Manifest /\ SoundManifest(manifest')
  BY AllManifests DEF CopyTorn
<1>2. /\ op' \in [Clients -> Op]
      /\ ManifestSound'
      /\ pc' \in [Clients -> {"idle", "deploy", "copy", "record", "remove", "unlink"}]
  BY <1>1, FinishInv DEF CopyTorn
<1>3. op[c].now[2] \in Target /\ op[c].slot \in Slot
  BY DEF IInv, TypeOK, Op, Work
<1>4. file' \in [Target -> [Slot -> Content]]
  BY <1>3 DEF CopyTorn, IInv, TypeOK, Content
<1>5. TypeOK'
  BY <1>1, <1>2, <1>4 DEF CopyTorn, IInv, TypeOK
<1> QED
  BY <1>2, <1>5 DEF IInv

(* The rock_manifest is written.                                           *)
LEMMA WriteRockInv ==
    ASSUME IInv, NEW c \in Clients, WriteRock(c) PROVE IInv'
<1>1. op[c].rock \in Rocks /\ op[c].keys \in SUBSET Key
  BY DEF IInv, TypeOK, Op
<1>2. TypeOK'
  BY <1>1 DEF WriteRock, IInv, TypeOK
<1>3. ManifestSound'
  BY DEF WriteRock, IInv, ManifestSound, Manifests
<1> QED
  BY <1>2, <1>3 DEF IInv

(* deployRock publishes the manifest.                                      *)
LEMMA WriteTreeInv ==
    ASSUME IInv, NEW c \in Clients, WriteTree(c) PROVE IInv'
<1>1. op[c].m \in Manifest /\ SoundManifest(op[c].m) /\ op[c].rock \in Rocks
  BY AllManifests DEF IInv, TypeOK, Op
<1>2. manifest' \in Manifest /\ SoundManifest(manifest')
  BY <1>1, RecordedSound DEF WriteTree
<1>3. /\ op' \in [Clients -> Op]
      /\ ManifestSound'
      /\ pc' \in [Clients -> {"idle", "deploy", "copy", "record", "remove", "unlink"}]
  BY <1>2, FinishInv DEF WriteTree
<1>4. TypeOK'
  BY <1>2, <1>3 DEF WriteTree, IInv, TypeOK
<1> QED
  BY <1>3, <1>4 DEF IInv

(* Remove reads the manifest and picks the versions.                       *)
LEMMA StartRemoveInv ==
    ASSUME IInv, NEW c \in Clients, NEW R \in SUBSET manifest.repo, StartRemove(c, R)
    PROVE  IInv'
<1> DEFINE o == [Idle EXCEPT !.m = manifest, !.victims = R]
<1>1. manifest \in Manifest /\ SoundManifest(manifest)
  BY AllManifests
<1>2. R \in SUBSET Rocks
  BY <1>1 DEF Manifest
<1>3. o \in Op /\ o.m = manifest
  BY <1>1, <1>2, IdleOp DEF Op
<1>4. op' = [op EXCEPT ![c] = o] /\ manifest' = manifest
  BY DEF StartRemove
<1> HIDE DEF o
<1>5. op' \in [Clients -> Op] /\ ManifestSound'
  BY <1>1, <1>3, <1>4, ClientStep
<1>6. TypeOK'
  BY <1>1, <1>5 DEF StartRemove, IInv, TypeOK
<1> QED
  BY <1>5, <1>6 DEF IInv

(* DeleteVersion reads the rock_manifest.                                  *)
LEMMA ReadRockInv ==
    ASSUME IInv, NEW c \in Clients, NEW r \in op[c].victims, ReadRock(c, r) PROVE IInv'
<1> DEFINE o == [op[c] EXCEPT !.rock = r, !.keys = rockManifest[r], !.missed = {}]
<1>1. manifest \in Manifest /\ SoundManifest(manifest) /\ SoundManifest(op[c].m)
  BY AllManifests
<1>2. op[c] \in Op /\ r \in Rocks
  BY DEF IInv, TypeOK, Op
<1>3. rockManifest[r] \in SUBSET Key
  BY <1>2 DEF IInv, TypeOK
<1>4. o \in Op /\ o.m = op[c].m
  BY <1>2, <1>3 DEF Op
<1>5. op' = [op EXCEPT ![c] = o] /\ manifest' = manifest
  BY DEF ReadRock, IInv, TypeOK
<1> HIDE DEF o
<1>6. op' \in [Clients -> Op] /\ ManifestSound'
  BY <1>1, <1>4, <1>5, ClientStep
<1>7. TypeOK'
  BY <1>1, <1>6 DEF ReadRock, IInv, TypeOK
<1> QED
  BY <1>6, <1>7 DEF IInv

(* DeleteVersion cannot read it and goes on.                               *)
LEMMA ReadRockFailsInv ==
    ASSUME IInv, NEW c \in Clients, NEW r \in op[c].victims, ReadRockFails(c, r) PROVE IInv'
<1> DEFINE o == [op[c] EXCEPT !.rock = r, !.keys = {}, !.missed = rockManifest[r]]
<1>1. manifest \in Manifest /\ SoundManifest(manifest) /\ SoundManifest(op[c].m)
  BY AllManifests
<1>2. op[c] \in Op /\ r \in Rocks
  BY DEF IInv, TypeOK, Op
<1>3. rockManifest[r] \in SUBSET Key
  BY <1>2 DEF IInv, TypeOK
<1>4. o \in Op /\ o.m = op[c].m
  BY <1>2, <1>3 DEF Op
<1>5. op' = [op EXCEPT ![c] = o] /\ manifest' = manifest
  BY DEF ReadRockFails, IInv, TypeOK
<1> HIDE DEF o
<1>6. op' \in [Clients -> Op] /\ ManifestSound'
  BY <1>1, <1>4, <1>5, ClientStep
<1>7. TypeOK'
  BY <1>1, <1>6 DEF ReadRockFails, IInv, TypeOK
<1> QED
  BY <1>6, <1>7 DEF IInv

(* DeleteVersion deletes one file.                                         *)
LEMMA UnlinkInv ==
    ASSUME IInv, NEW c \in Clients, NEW k \in op[c].keys, Unlink(c, k) PROVE IInv'
<1> DEFINE o == [op[c] EXCEPT !.keys = op[c].keys \ {k}]
<1>1. manifest \in Manifest /\ SoundManifest(manifest) /\ SoundManifest(op[c].m)
  BY AllManifests
<1>2. op[c] \in Op /\ k[1] \in Target /\ k[2] \in Slot
  BY DEF IInv, TypeOK, Op, Key
<1>3. o \in Op /\ o.m = op[c].m
  BY <1>2 DEF Op
<1>4. op' = [op EXCEPT ![c] = o] /\ manifest' = manifest
  BY DEF Unlink, IInv, TypeOK
<1> HIDE DEF o
<1>5. op' \in [Clients -> Op] /\ ManifestSound'
  BY <1>1, <1>3, <1>4, ClientStep
<1>6. file' \in [Target -> [Slot -> Content]]
  BY <1>2 DEF Unlink, IInv, TypeOK, Content
<1>7. TypeOK'
  BY <1>1, <1>5, <1>6 DEF Unlink, IInv, TypeOK
<1> QED
  BY <1>5, <1>7 DEF IInv

(* A file cannot be deleted, and DeleteVersion goes on.                    *)
LEMMA UnlinkFailsInv ==
    ASSUME IInv, NEW c \in Clients, NEW k \in op[c].keys, UnlinkFails(c, k) PROVE IInv'
<1> DEFINE o == [op[c] EXCEPT !.keys = op[c].keys \ {k}, !.missed = op[c].missed \cup {k}]
<1>1. manifest \in Manifest /\ SoundManifest(manifest) /\ SoundManifest(op[c].m)
  BY AllManifests
<1>2. op[c] \in Op /\ k \in Key
  BY DEF IInv, TypeOK, Op
<1>3. o \in Op /\ o.m = op[c].m
  BY <1>2 DEF Op
<1>4. op' = [op EXCEPT ![c] = o] /\ manifest' = manifest
  BY DEF UnlinkFails, IInv, TypeOK
<1> HIDE DEF o
<1>5. op' \in [Clients -> Op] /\ ManifestSound'
  BY <1>1, <1>3, <1>4, ClientStep
<1>6. TypeOK'
  BY <1>1, <1>5 DEF UnlinkFails, IInv, TypeOK
<1> QED
  BY <1>5, <1>6 DEF IInv

(* The install directory and the providers of the rock go.                 *)
LEMMA RemoveDirInv ==
    ASSUME IInv, NEW c \in Clients, RemoveDir(c) PROVE IInv'
<1> DEFINE r == op[c].rock
           m == op[c].m
           n == [repo |-> m.repo \ {r}, prov |-> RemoveProvider(m.prov, r)]
           o == [op[c] EXCEPT !.victims = op[c].victims \ {r}, !.m = n]
<1>1. manifest \in Manifest /\ SoundManifest(manifest) /\ m \in Manifest /\ SoundManifest(m)
  BY AllManifests
<1>2. op[c] \in Op /\ r \in Rocks
  BY DEF IInv, TypeOK, Op
<1>3. n \in Manifest /\ SoundManifest(n)
  BY <1>1, RemovedSound
<1>4. op' = [op EXCEPT ![c] = o] /\ manifest' = manifest
  BY DEF RemoveDir, IInv, TypeOK
<1> HIDE DEF n
<1>5. o \in Op /\ o.m = n
  BY <1>2, <1>3 DEF Op
<1> HIDE DEF o
<1>6. op' \in [Clients -> Op] /\ ManifestSound'
  BY <1>1, <1>3, <1>4, <1>5, ClientStep
<1>7. TypeOK'
  BY <1>1, <1>2, <1>6 DEF RemoveDir, IInv, TypeOK
<1> QED
  BY <1>6, <1>7 DEF IInv

(* Remove publishes the manifest.                                          *)
LEMMA WriteRemovedInv ==
    ASSUME IInv, NEW c \in Clients, WriteRemoved(c) PROVE IInv'
<1>1. manifest' \in Manifest /\ SoundManifest(manifest')
  BY AllManifests DEF WriteRemoved
<1>2. /\ op' \in [Clients -> Op]
      /\ ManifestSound'
      /\ pc' \in [Clients -> {"idle", "deploy", "copy", "record", "remove", "unlink"}]
  BY <1>1, FinishInv DEF WriteRemoved
<1>3. TypeOK'
  BY <1>1, <1>2 DEF WriteRemoved, IInv, TypeOK
<1> QED
  BY <1>2, <1>3 DEF IInv

(* An operation fails or is killed.                                        *)
LEMMA AbortInv ==
    ASSUME IInv, NEW c \in Clients, Abort(c) PROVE IInv'
<1>1. manifest' \in Manifest /\ SoundManifest(manifest')
  BY AllManifests DEF Abort
<1>2. /\ op' \in [Clients -> Op]
      /\ ManifestSound'
      /\ pc' \in [Clients -> {"idle", "deploy", "copy", "record", "remove", "unlink"}]
  BY <1>1, FinishInv DEF Abort
<1>3. TypeOK'
  BY <1>1, <1>2 DEF Abort, IInv, TypeOK
<1> QED
  BY <1>2, <1>3 DEF IInv

(* A step of something else.                                               *)
LEMMA StutterInv ==
    ASSUME IInv, UNCHANGED vars PROVE IInv'
BY DEF IInv, TypeOK, ManifestSound, Manifests, vars

(* Every step keeps the invariant.                                         *)
LEMMA NextInv == IInv /\ [Next]_vars => IInv'
<1> SUFFICES ASSUME IInv, [Next]_vars PROVE IInv'
  OBVIOUS
<1>1. CASE UNCHANGED vars
  BY <1>1, StutterInv
<1>2. CASE Next
  <2>1. PICK c \in Clients : Deploying(c) \/ Removing(c) \/ Abort(c)
    BY <1>2 DEF Next
  <2>2. CASE Deploying(c)
    BY <2>2, StartDeployInv, ResolveSpotInv, CopyFileInv, CopyTornInv, WriteRockInv,
       WriteTreeInv DEF Deploying
  <2>3. CASE Removing(c)
    BY <2>3, StartRemoveInv, ReadRockInv, ReadRockFailsInv, UnlinkInv, UnlinkFailsInv,
       RemoveDirInv, WriteRemovedInv
       DEF Removing
  <2>4. CASE Abort(c)
    BY <2>4, AbortInv
  <2> QED
    BY <2>1, <2>2, <2>3, <2>4
<1> QED
  BY <1>1, <1>2

(* Every reachable state is well formed.                                   *)
THEOREM TypeCorrect == Spec => []TypeOK
<1>1. IInv => TypeOK
  BY DEF IInv
<1> QED
  BY <1>1, InitInv, NextInv, PTL DEF Spec

(* Whatever rocks exist, however many clients share the tree without a      *)
(* lock and wherever they fail, no provider list of a manifest on disk or   *)
(* in memory names a rock that manifest does not list as installed, or      *)
(* names a rock twice.                                                      *)
THEOREM ManifestAlwaysSound == Spec => []ManifestSound
<1>1. IInv => ManifestSound
  BY DEF IInv
<1> QED
  BY <1>1, InitInv, NextInv, PTL DEF Spec

-----------------------------------------------------------------------------
(* A tree with one client works from fresh manifests and implements        *)
(* TreeIndex; and while rocks are only installed, without failures, every  *)
(* file of them is kept where the manifest sends a reader.                 *)

(* The tree no client has used maps to the empty index.                    *)
LEMMA InitIndex == Init => Index!Init
BY DEF Init, Index!Init, EmptyManifest, Active, Indexes

(* The head of a sound provider list is an installed rock.                 *)
LEMMA ActiveType ==
    ASSUME NEW m \in Manifest, SoundManifest(m), NEW i \in Items
    PROVE  /\ Active(m, i) \in m.repo \cup {NoRock}
           /\ Active(m, i) \in Rocks \cup {NoRock}
           /\ Active(m, i) = NoRock <=> m.prov["modules"][i] = <<>>
<1> DEFINE list == m.prov["modules"][i]
<1>1. list \in Seq(Rocks) /\ \A k \in DOMAIN list : list[k] \in m.repo
  BY DEF Manifest, SoundManifest, Indexes
<1>2. m.repo \subseteq Rocks /\ NoRock \notin Rocks
  BY CatalogAssumption DEF Manifest
<1>3. CASE list = <<>>
  BY <1>3 DEF Active
<1>4. CASE list # <<>>
  <2>1. Head(list) = list[1] /\ 1 \in DOMAIN list
    BY <1>1, <1>4
  <2> QED
    BY <1>1, <1>2, <1>4, <2>1 DEF Active
<1> QED
  BY <1>3, <1>4

(* Where a module has an active provider, resolveSpot awards the plain path *)
(* to that provider itself and to the rocks that outrank it.                *)
LEMMA SpotRule ==
    ASSUME NEW m \in Manifest, SoundManifest(m), NEW i \in Items, NEW r \in Rocks,
           Active(m, i) # NoRock
    PROVE  WinsSpot(m, i, r) <=> r = Active(m, i) \/ Index!Outranks(r, Active(m, i))
<1>1. m.prov["modules"][i] # <<>>
  BY DEF Active
<1>2. CurrentProvider(m, i) = Active(m, i)
  BY <1>1 DEF CurrentProvider, Provider, Active
<1>3. Active(m, i) \in Rocks /\ Name \in [Rocks -> Nat]
  BY ActiveType, CatalogAssumption
<1> QED
  BY <1>2, <1>3 DEF WinsSpot, Index!Outranks

(* Recording a rock makes it the active provider of the modules it has at   *)
(* plain paths and of no others.                                            *)
LEMMA RecordedActive ==
    ASSUME NEW m \in Manifest, SoundManifest(m), NEW r \in Rocks, NEW keys, NEW i \in Items
    PROVE  Active(Recorded(m, r, keys), i) =
               IF i \in ModuleIndex(keys) THEN r ELSE Active(m, i)
<1> DEFINE old == m.prov["modules"][i]
           new == Recorded(m, r, keys).prov["modules"][i]
<1>1. old \in Seq(Rocks) /\ Distinct(old)
  BY DEF Manifest, SoundManifest, Indexes
<1>2. new = IF i \in ModuleIndex(keys) THEN UpsertProvider(old, r) ELSE old
  BY DEF Recorded, Indexes
<1>3. UpsertProvider(old, r) # <<>> /\ Head(UpsertProvider(old, r)) = r
  <2> HIDE DEF old
  <2> QED
    BY <1>1, UpsertList
<1>4. CASE i \in ModuleIndex(keys)
  BY <1>2, <1>3, <1>4 DEF Active
<1>5. CASE i \notin ModuleIndex(keys)
  BY <1>2, <1>5 DEF Active
<1> QED
  BY <1>4, <1>5

(* Dropping a provider that is not the head keeps the head.                *)
LEMMA WithoutHead ==
    ASSUME NEW S, NEW list \in Seq(S), NEW r, list # <<>> => Head(list) # r
    PROVE  /\ Without(list, r) = <<>> <=> list = <<>>
           /\ list # <<>> => Head(Without(list, r)) = Head(list)
<1>1. CASE ~ Holds(list, r)
  BY <1>1 DEF Without
<1>2. CASE Holds(list, r)
  <2> DEFINE k == CHOOSE k \in DOMAIN list : list[k] = r
             n == Len(list) - 1
             rest == [j \in 1..n |-> IF j < k THEN list[j] ELSE list[j + 1]]
  <2>1. k \in DOMAIN list /\ list[k] = r
    BY <1>2 DEF Holds
  <2>2. DOMAIN list = 1..Len(list) /\ Len(list) \in Nat /\ list # <<>>
    BY <2>1
  <2>3. Without(list, r) = rest
    BY <1>2 DEF Without
  <2> HIDE DEF k
  <2>4. Head(list) = list[1] /\ k # 1 /\ n \in Nat /\ n >= 1
    BY <2>1, <2>2
  <2>5. rest[1] = list[1]
    BY <2>1, <2>2, <2>4
  <2>6. rest \in [1..n -> S]
    BY <2>1, <2>2, <2>4
  <2>7. rest \in Seq(S) /\ 1 \in DOMAIN rest /\ rest # <<>>
    BY <2>4, <2>6
  <2>8. Head(rest) = rest[1]
    BY <2>7
  <2> QED
    BY <2>2, <2>3, <2>4, <2>5, <2>7, <2>8
<1> QED
  BY <1>1, <1>2

(* Removing a rock changes the active provider only where it was active.   *)
LEMMA RemovedActive ==
    ASSUME NEW m \in Manifest, SoundManifest(m), NEW r, NEW i \in Items, NEW R,
           Active(m, i) # r
    PROVE  Active([repo |-> R, prov |-> RemoveProvider(m.prov, r)], i) = Active(m, i)
<1> DEFINE old == m.prov["modules"][i]
           n == [repo |-> R, prov |-> RemoveProvider(m.prov, r)]
<1>1. old \in Seq(Rocks) /\ (old # <<>> => Head(old) # r)
  BY DEF Manifest, Active, Indexes
<1>2. n.prov["modules"][i] = Without(old, r)
  BY DEF RemoveProvider, Indexes
<1>3. /\ Without(old, r) = <<>> <=> old = <<>>
      /\ old # <<>> => Head(Without(old, r)) = Head(old)
  <2> HIDE DEF old
  <2> QED
    BY <1>1, WithoutHead
<1> QED
  BY <1>2, <1>3 DEF Active

-----------------------------------------------------------------------------
(* The invariant of a tree with one client.                                *)

SInv == IInv /\ SnapshotFresh

(* A step of the only client that starts or goes on with an install.       *)
LEMMA DeploySnapshot ==
    ASSUME SInv, NEW c, Clients = {c},
           \/ \E r \in Rocks : StartDeploy(c, r)
           \/ \E w \in op[c].todo : ResolveSpot(c, w)
           \/ CopyFile(c)
           \/ WriteRock(c)
    PROVE  DeployInProgress(c)' /\ pc'[c] \in {"deploy", "copy", "record"}
<1> c \in Clients /\ TypeOK
  BY DEF SInv, IInv
<1>0. op[c] \in Op /\ pc[c] \in {"idle", "deploy", "copy", "record", "remove", "unlink"}
  BY DEF TypeOK
<1>1. ASSUME NEW r \in Rocks, StartDeploy(c, r)
      PROVE  DeployInProgress(c)' /\ pc'[c] = "deploy"
  <2>1. /\ op'[c].m = manifest /\ op'[c].rock = r /\ op'[c].todo = WorkOf(r)
        /\ op'[c].keys = {} /\ manifest' = manifest /\ pc'[c] = "deploy"
    BY <1>1, IdleOp DEF StartDeploy, TypeOK, Idle
  <2>2. \A t \in Ships(r) : \E w \in WorkOf(r) : w[2] = t
    <3> TAKE t \in Ships(r)
    <3>1. <<1, t>> \in WorkOf(r) \/ <<3, t>> \in WorkOf(r)
      BY DEF Ships, WorkOf
    <3> QED
      BY <3>1
  <2> QED
    BY <2>1, <2>2 DEF DeployInProgress
<1>2. ASSUME NEW w \in op[c].todo, ResolveSpot(c, w)
      PROVE  DeployInProgress(c)' /\ pc'[c] = "copy"
  <2>1. DeployInProgress(c)
    BY <1>2 DEF SInv, SnapshotFresh, ResolveSpot
  <2> DEFINE slot == IF WinsSpot(manifest, w[2][2], op[c].rock) THEN "plain" ELSE op[c].rock
  <2>2. /\ op'[c].m = manifest /\ op'[c].rock = op[c].rock /\ op'[c].todo = op[c].todo
        /\ op'[c].keys = op[c].keys /\ op'[c].now = w
        /\ op'[c].slot = slot
        /\ manifest' = manifest /\ pc'[c] = "copy"
    BY <1>0, <1>2, <2>1 DEF ResolveSpot, TypeOK, Op, DeployInProgress
  <2> HIDE DEF slot
  <2> QED
    BY <2>1, <2>2 DEF DeployInProgress, slot
<1>3. ASSUME CopyFile(c)
      PROVE  DeployInProgress(c)' /\ pc'[c] = "deploy"
  <2> DEFINE r == op[c].rock
             t == op[c].now[2]
             s == op[c].slot
  <2>1. DeployInProgress(c)
    BY <1>3 DEF SInv, SnapshotFresh, CopyFile
  <2>2. /\ op'[c].m = manifest /\ op'[c].rock = r
        /\ op'[c].todo = op[c].todo \ {op[c].now}
        /\ op'[c].keys = op[c].keys \cup {KeyOf(r, t, s)}
        /\ manifest' = manifest /\ pc'[c] = "deploy"
    BY <1>0, <1>3, <2>1 DEF CopyFile, TypeOK, Op, DeployInProgress
  <2>3. /\ op[c].now \in WorkOf(r)
        /\ s = IF WinsSpot(manifest, t[2], r) THEN "plain" ELSE r
        /\ r \in Rocks /\ r # "plain"
    BY <1>0, <1>3, <2>1, CatalogAssumption DEF DeployInProgress, CopyFile, Op
  <2>4. t \in ModTarget => t \in Ships(r) /\ t[1] # "bin"
    BY <2>3 DEF WorkOf, Ships, ModTarget
  <2>5. \A u \in ModTarget :
           <<u, "plain">> = KeyOf(r, t, s) => u \in Ships(r) /\ WinsSpot(manifest, u[2], r)
    BY <2>3, <2>4 DEF KeyOf
  <2>6. WinsSpot(manifest, t[2], r) => <<t, "plain">> = KeyOf(r, t, s)
    BY <2>3 DEF KeyOf
  <2> HIDE DEF r, t, s
  <2>7. \A u \in Ships(r) :
           WinsSpot(manifest, u[2], r) /\ (\A w \in op'[c].todo : w[2] # u)
               => <<u, "plain">> \in op'[c].keys
    <3> SUFFICES ASSUME NEW u \in Ships(r), WinsSpot(manifest, u[2], r),
                        \A w \in op'[c].todo : w[2] # u
                 PROVE  <<u, "plain">> \in op'[c].keys
      OBVIOUS
    <3>1. CASE u = t
      BY <2>2, <2>6, <3>1
    <3>2. CASE u # t
      BY <2>1, <2>2, <3>2 DEF DeployInProgress, r, t
    <3> QED
      BY <3>1, <3>2
  <2>8. \A u \in ModTarget :
           <<u, "plain">> \in op'[c].keys => u \in Ships(r) /\ WinsSpot(manifest, u[2], r)
    BY <2>1, <2>2, <2>5 DEF DeployInProgress, r
  <2>9. op'[c].todo \subseteq WorkOf(r)
    BY <2>1, <2>2 DEF DeployInProgress, r
  <2> QED
    BY <2>2, <2>7, <2>8, <2>9 DEF DeployInProgress
<1>4. ASSUME WriteRock(c)
      PROVE  DeployInProgress(c)' /\ pc'[c] = "record"
  <2>1. DeployInProgress(c)
    BY <1>4 DEF SInv, SnapshotFresh, WriteRock
  <2>2. op' = op /\ manifest' = manifest /\ pc'[c] = "record" /\ op[c].todo = {}
    BY <1>4 DEF WriteRock, TypeOK
  <2> QED
    BY <2>1, <2>2 DEF DeployInProgress
<1> QED
  BY <1>1, <1>2, <1>3, <1>4

(* A step of the only client that starts or goes on with a removal.        *)
LEMMA RemoveSnapshot ==
    ASSUME SInv, NEW c, Clients = {c},
           \/ \E R \in SUBSET manifest.repo : StartRemove(c, R)
           \/ \E r \in op[c].victims : ReadRock(c, r) \/ ReadRockFails(c, r)
           \/ \E k \in op[c].keys : Unlink(c, k) \/ UnlinkFails(c, k)
           \/ RemoveDir(c)
    PROVE  RemoveInProgress(c)' /\ pc'[c] \in {"remove", "unlink"}
<1> c \in Clients /\ TypeOK
  BY DEF SInv, IInv
<1>0. op[c] \in Op
  BY DEF TypeOK
<1>1. ASSUME NEW R \in SUBSET manifest.repo, StartRemove(c, R)
      PROVE  RemoveInProgress(c)' /\ pc'[c] = "remove"
  <2>1. /\ op'[c].m = manifest /\ op'[c].victims = R
        /\ manifest' = manifest /\ pc'[c] = "remove"
    BY <1>1, IdleOp DEF StartRemove, TypeOK, Op
  <2>2. R # {} /\ \A q, r \in R : Name[q] = Name[r]
    BY <1>1 DEF StartRemove
  <2> QED
    BY <2>1, <2>2 DEF RemoveInProgress
<1>2. ASSUME NEW r \in op[c].victims, ReadRock(c, r) \/ ReadRockFails(c, r)
      PROVE  RemoveInProgress(c)' /\ pc'[c] = "unlink"
  <2>1. RemoveInProgress(c)
    BY <1>2 DEF SInv, SnapshotFresh, ReadRock, ReadRockFails
  <2>2. /\ op'[c].m = op[c].m /\ op'[c].victims = op[c].victims /\ op'[c].rock = r
        /\ manifest' = manifest /\ pc'[c] = "unlink"
    <3>1. CASE ReadRock(c, r)
      BY <1>0, <3>1 DEF ReadRock, TypeOK, Op
    <3>2. CASE ReadRockFails(c, r)
      BY <1>0, <3>2 DEF ReadRockFails, TypeOK, Op
    <3> QED
      BY <1>2, <3>1, <3>2
  <2> QED
    BY <1>2, <2>1, <2>2 DEF RemoveInProgress
<1>3. ASSUME NEW k \in op[c].keys, Unlink(c, k) \/ UnlinkFails(c, k)
      PROVE  RemoveInProgress(c)' /\ pc'[c] = "unlink"
  <2>1. RemoveInProgress(c) /\ pc[c] = "unlink"
    BY <1>3 DEF SInv, SnapshotFresh, Unlink, UnlinkFails
  <2>2. /\ op'[c].m = op[c].m /\ op'[c].victims = op[c].victims /\ op'[c].rock = op[c].rock
        /\ manifest' = manifest /\ pc' = pc
    <3>1. CASE Unlink(c, k)
      BY <1>0, <3>1 DEF Unlink, TypeOK, Op
    <3>2. CASE UnlinkFails(c, k)
      BY <1>0, <3>2 DEF UnlinkFails, TypeOK, Op
    <3> QED
      BY <1>3, <3>1, <3>2
  <2> QED
    BY <2>1, <2>2 DEF RemoveInProgress
<1>4. ASSUME RemoveDir(c)
      PROVE  RemoveInProgress(c)' /\ pc'[c] = "remove"
  <2> DEFINE r == op[c].rock
             m == op[c].m
             n == [repo |-> m.repo \ {r}, prov |-> RemoveProvider(m.prov, r)]
             removed == manifest.repo \ m.repo
  <2>1. RemoveInProgress(c) /\ r \in op[c].victims
    BY <1>4 DEF SInv, SnapshotFresh, RemoveDir, RemoveInProgress
  <2>2. /\ op'[c].m = n /\ op'[c].victims = op[c].victims \ {r}
        /\ manifest' = manifest /\ pc'[c] = "remove"
    BY <1>0, <1>4 DEF RemoveDir, TypeOK, Op
  <2>3. m \in Manifest /\ SoundManifest(m)
    BY AllManifests DEF SInv
  <2>4. manifest.repo \ n.repo = removed \cup {r} /\ n.repo = m.repo \ {r}
    BY <2>1 DEF RemoveInProgress
  <2>5. \A i \in Items : Active(manifest, i) \notin removed \cup {r}
                            => Active(n, i) = Active(manifest, i)
    <3> SUFFICES ASSUME NEW i \in Items, Active(manifest, i) \notin removed \cup {r}
                 PROVE  Active(n, i) = Active(manifest, i)
      OBVIOUS
    <3>1. Active(m, i) = Active(manifest, i) /\ Active(m, i) # r
      BY <2>1 DEF RemoveInProgress
    <3>2. Active(n, i) = Active(m, i)
      BY <2>3, <3>1, RemovedActive
    <3> QED
      BY <3>1, <3>2
  <2> HIDE DEF n
  <2>6. removed \cup {r} \cup (op[c].victims \ {r}) = removed \cup op[c].victims
    BY <2>1
  <2> QED
    BY <2>1, <2>2, <2>4, <2>5, <2>6 DEF RemoveInProgress
<1> QED
  BY <1>1, <1>2, <1>3, <1>4

(* With one client every step keeps the invariant.                         *)
LEMMA NextSnapshot ==
    ASSUME NEW c, Clients = {c} PROVE SInv /\ [Next]_vars => SInv'
<1> SUFFICES ASSUME SInv, [Next]_vars PROVE SInv'
  OBVIOUS
<1> c \in Clients /\ TypeOK
  BY DEF SInv, IInv
<1>1. IInv'
  BY NextInv DEF SInv
<1>2. CASE UNCHANGED vars
  BY <1>1, <1>2 DEF SInv, SnapshotFresh, DeployInProgress, RemoveInProgress, vars
<1>3. CASE Next
  <2>1. CASE Finish(c)
    BY <1>1, <2>1 DEF Finish, SInv, SnapshotFresh, TypeOK
  <2>2. CASE \/ \E r \in Rocks : StartDeploy(c, r)
             \/ \E w \in op[c].todo : ResolveSpot(c, w)
             \/ CopyFile(c)
             \/ WriteRock(c)
    <3>1. DeployInProgress(c)' /\ pc'[c] \in {"deploy", "copy", "record"}
      BY <2>2, DeploySnapshot
    <3> QED
      BY <1>1, <3>1 DEF SInv, SnapshotFresh
  <2>3. CASE \/ \E R \in SUBSET manifest.repo : StartRemove(c, R)
             \/ \E r \in op[c].victims : ReadRock(c, r) \/ ReadRockFails(c, r)
             \/ \E k \in op[c].keys : Unlink(c, k) \/ UnlinkFails(c, k)
             \/ RemoveDir(c)
    <3>1. RemoveInProgress(c)' /\ pc'[c] \in {"remove", "unlink"}
      BY <2>3, RemoveSnapshot
    <3> QED
      BY <1>1, <3>1 DEF SInv, SnapshotFresh
  <2> QED
    BY <1>3, <2>1, <2>2, <2>3
       DEF Next, Deploying, Removing, Abort, CopyTorn, WriteTree, WriteRemoved
<1> QED
  BY <1>2, <1>3

(* Publishing an install is one Install step of the index.                 *)
LEMMA PublishInstall ==
    ASSUME SInv, NEW c \in Clients, WriteTree(c) PROVE Index!Install(op[c].rock)
<1> DEFINE r == op[c].rock
           keys == op[c].keys
<1>1. /\ manifest \in Manifest /\ SoundManifest(manifest)
      /\ r \in Rocks /\ DeployInProgress(c) /\ op[c].todo = {}
  BY AllManifests DEF SInv, IInv, SnapshotFresh, WriteTree, TypeOK, Op, DeployInProgress
<1>2. manifest' = Recorded(manifest, r, keys)
  BY <1>1 DEF WriteTree, DeployInProgress
<1>3. manifest'.repo = manifest.repo \cup {r}
  BY <1>2 DEF Recorded
<1>4. \A i \in Items :
         Active(manifest', i) = IF i \in ModuleIndex(keys) THEN r ELSE Active(manifest, i)
  BY <1>1, <1>2, RecordedActive
<1>5. \A i \in Items : Active(manifest, i) \in Rocks \cup {NoRock}
  BY <1>1, ActiveType
<1>6. \A i \in ModuleIndex(keys) : ShipsModule(r, i) /\ WinsSpot(manifest, i, r)
  BY <1>1 DEF ModuleIndex, DeployInProgress, ShipsModule, ModTarget
<1>7. \A i \in Items : ShipsModule(r, i) /\ WinsSpot(manifest, i, r) => i \in ModuleIndex(keys)
  BY <1>1 DEF ModuleIndex, DeployInProgress, ShipsModule
<1>8. \A i \in Items : Active(manifest, i) # NoRock =>
         (WinsSpot(manifest, i, r) <=>
             r = Active(manifest, i) \/ Index!Outranks(r, Active(manifest, i)))
  BY <1>1, SpotRule
<1> HIDE DEF r, keys
<1>9. [i \in Items |-> Active(manifest', i)] \in [Items -> Rocks \cup {NoRock}]
  BY <1>1, <1>4, <1>5
<1>10. \A i \in Items :
          \/ Active(manifest', i) = Active(manifest, i)
          \/ Active(manifest', i) = r /\ ShipsModule(r, i)
  BY <1>4, <1>6
<1>11. \A i \in Items :
          Active(manifest, i) # NoRock /\ ShipsModule(r, i) =>
              (Active(manifest', i) = r <=>
                  r = Active(manifest, i) \/ Index!Outranks(r, Active(manifest, i)))
  BY <1>4, <1>6, <1>7, <1>8
<1> QED
  BY <1>3, <1>9, <1>10, <1>11 DEF Index!Install, r

(* Publishing a removal is one Remove step of the index.                   *)
LEMMA PublishRemoval ==
    ASSUME SInv, NEW c \in Clients, WriteRemoved(c)
    PROVE  \E R \in SUBSET manifest.repo : Index!Remove(R)
<1> DEFINE m == op[c].m
           R == manifest.repo \ m.repo
<1>1. m \in Manifest /\ SoundManifest(m) /\ RemoveInProgress(c) /\ op[c].victims = {}
  BY AllManifests DEF SInv, SnapshotFresh, WriteRemoved
<1>2. manifest' = m
  BY DEF WriteRemoved
<1>3. R # {} /\ \A q, r \in R : Name[q] = Name[r]
  BY <1>1 DEF RemoveInProgress
<1>4. m.repo = manifest.repo \ R
  BY <1>1 DEF RemoveInProgress
<1>5. \A i \in Items : Active(m, i) \in m.repo \cup {NoRock} /\ Active(m, i) \in Rocks \cup {NoRock}
  BY <1>1, ActiveType
<1>6. \A i \in Items : Active(manifest, i) \notin R => Active(m, i) = Active(manifest, i)
  BY <1>1 DEF RemoveInProgress
<1> HIDE DEF m, R
<1>7. [i \in Items |-> Active(m, i)] \in [Items -> Rocks \cup {NoRock}]
  BY <1>5
<1>8. Index!Remove(R)
  BY <1>2, <1>3, <1>4, <1>5, <1>6, <1>7 DEF Index!Remove
<1> QED
  BY <1>8 DEF R

(* Every step of a tree with one client is a step of the index or changes   *)
(* nothing the index shows.                                                 *)
LEMMA StepIndex == SInv /\ [Next]_vars => [Index!Next]_(Index!indexVars)
<1> SUFFICES ASSUME SInv, [Next]_vars PROVE [Index!Next]_(Index!indexVars)
  OBVIOUS
<1>1. CASE manifest' = manifest
  BY <1>1 DEF Index!indexVars
<1>2. CASE manifest' # manifest
  <2>1. PICK c \in Clients : WriteTree(c) \/ WriteRemoved(c)
    <3>1. PICK c \in Clients : Deploying(c) \/ Removing(c) \/ Abort(c)
      BY <1>2 DEF Next, vars
    <3>2. ASSUME Deploying(c) PROVE WriteTree(c)
      BY <1>2, <3>2 DEF Deploying, StartDeploy, ResolveSpot, CopyFile, CopyTorn, WriteRock
    <3>3. ASSUME Removing(c) PROVE WriteRemoved(c)
      BY <1>2, <3>3 DEF Removing, StartRemove, ReadRock, ReadRockFails, Unlink, UnlinkFails,
                        RemoveDir
    <3>4. ~ Abort(c)
      BY <1>2 DEF Abort
    <3> QED
      BY <3>1, <3>2, <3>3, <3>4
  <2>2. CASE WriteTree(c)
    <3>1. Index!Install(op[c].rock) /\ op[c].rock \in Rocks
      BY <2>2, PublishInstall DEF SInv, IInv, TypeOK, Op
    <3> QED
      BY <3>1 DEF Index!Next
  <2>3. CASE WriteRemoved(c)
    BY <2>3, PublishRemoval DEF Index!Next
  <2> QED
    BY <2>1, <2>2, <2>3
<1> QED
  BY <1>1, <1>2

(* With one client, every operation overwrites the manifest it read.       *)
THEOREM OneClientFresh ==
    ASSUME NEW c, Clients = {c} PROVE Spec => []SnapshotFresh
<1>1. Init => SInv
  BY InitInv DEF SInv, SnapshotFresh, Init
<1>2. SInv => SnapshotFresh
  BY DEF SInv
<1>3. SInv /\ [Next]_vars => SInv'
  BY NextSnapshot
<1> QED
  BY <1>1, <1>2, <1>3, PTL DEF Spec

(* Whatever the catalog and however many operations fail, a tree with one   *)
(* client looks to a reader of its manifest as if every install and every   *)
(* removal were one atomic step of TreeIndex.                               *)
THEOREM OneClientImplementsIndex ==
    ASSUME NEW c, Clients = {c} PROVE Spec => ImplementsIndex
<1>1. Init => SInv
  BY InitInv DEF SInv, SnapshotFresh, Init
<1>2. SInv /\ [Next]_vars => SInv'
  BY NextSnapshot
<1>3. SInv /\ [Next]_vars => [Index!Next]_(Index!indexVars)
  BY StepIndex
<1> QED
  BY <1>1, <1>2, <1>3, InitIndex, PTL DEF Spec, ImplementsIndex, Index!Spec

-----------------------------------------------------------------------------
(* What a completed install leaves on disk, whatever the catalog and        *)
(* whatever failed before it.                                               *)

Modules == {i \in Items : \E r \in Rocks : ShipsModule(r, i)}

(* The files the install in progress has copied are where it copied them.  *)
Placed(c) ==
    pc[c] \in {"deploy", "copy", "record"} =>
        LET r == op[c].rock
        IN \A t \in Ships(r) : (\A w \in op[c].todo : w[2] # t) =>
              file[t][IF WinsSpot(manifest, t[2], r) THEN "plain" ELSE r] = r

(* The module files of a rock and their names.                             *)
LEMMA ShipsFacts ==
    ASSUME NEW r \in Rocks
    PROVE  /\ Ships(r) \subseteq ModTarget /\ ModTarget \subseteq Target
           /\ \A t \in Ships(r) : t[2] \in Modules /\ t[2] \in Items /\ ShipsModule(r, t[2])
<1>1. Ships(r) \subseteq ModTarget /\ ModTarget \subseteq Target
  BY CatalogAssumption DEF Ships, ModTarget, Target, Sections
<1>2. \A t \in ModTarget : t = <<t[1], t[2]>> /\ t[1] \in {"lua", "lib"} /\ t[2] \in Items
  BY DEF ModTarget
<1>3. \A t \in Ships(r) : t[2] \in Items /\ ShipsModule(r, t[2])
  BY <1>1, <1>2 DEF ShipsModule
<1> QED
  BY <1>1, <1>3 DEF Modules

(* An install starts with every file still to copy.                        *)
LEMMA StartPlaced ==
    ASSUME SInv, NEW c \in Clients, NEW r \in Rocks, StartDeploy(c, r) PROVE Placed(c)'
<1>1. op'[c].rock = r /\ op'[c].todo = WorkOf(r)
  BY IdleOp DEF StartDeploy, SInv, IInv, TypeOK, Idle
<1>2. \A t \in Ships(r) : \E w \in WorkOf(r) : w[2] = t
  <2> TAKE t \in Ships(r)
  <2>1. <<1, t>> \in WorkOf(r) \/ <<3, t>> \in WorkOf(r)
    BY DEF Ships, WorkOf
  <2> QED
    BY <2>1
<1> QED
  BY <1>1, <1>2 DEF Placed

(* resolveSpot moves only a file that is still to copy.                    *)
LEMMA ResolvePlaced ==
    ASSUME SInv, NEW c \in Clients, Placed(c), NEW w \in op[c].todo, ResolveSpot(c, w)
    PROVE  Placed(c)'
<1> DEFINE r == op[c].rock
<1>1. /\ op[c] \in Op /\ r \in Rocks /\ file \in [Target -> [Slot -> Content]]
      /\ pc[c] = "deploy" /\ manifest' = manifest
  BY DEF ResolveSpot, SInv, IInv, TypeOK, Op
<1>2. op'[c].rock = r /\ op'[c].todo = op[c].todo
  BY <1>1 DEF ResolveSpot, SInv, IInv, TypeOK, Op
<1>3. \A u \in Target : u # w[2] => file'[u] = file[u]
  BY <1>1 DEF ResolveSpot
<1> SUFFICES ASSUME NEW u \in Ships(r), \A v \in op[c].todo : v[2] # u
             PROVE  file'[u][IF WinsSpot(manifest, u[2], r) THEN "plain" ELSE r] = r
  BY <1>1, <1>2 DEF Placed
<1>4. u # w[2] /\ u \in Target
  BY <1>1, ShipsFacts
<1>5. file[u][IF WinsSpot(manifest, u[2], r) THEN "plain" ELSE r] = r
  BY <1>1 DEF Placed
<1> QED
  BY <1>3, <1>4, <1>5

(* A copy puts its own file in place and touches no other.                 *)
LEMMA CopyPlaced ==
    ASSUME SInv, NEW c \in Clients, Placed(c), CopyFile(c) PROVE Placed(c)'
<1> DEFINE r == op[c].rock
           w == op[c].now
           t == w[2]
           s == op[c].slot
<1>1. /\ op[c] \in Op /\ r \in Rocks /\ file \in [Target -> [Slot -> Content]]
      /\ pc[c] = "copy" /\ manifest' = manifest
      /\ s = IF WinsSpot(manifest, t[2], r) THEN "plain" ELSE r
  BY DEF CopyFile, SInv, IInv, TypeOK, Op, SnapshotFresh, DeployInProgress
<1>2. op'[c].rock = r /\ op'[c].todo = op[c].todo \ {w} /\ file' = [file EXCEPT ![t][s] = r]
  BY <1>1 DEF CopyFile, SInv, IInv, TypeOK, Op
<1>3. t \in Target /\ s \in Slot
  BY <1>1 DEF Op, Work
<1>4. (\A u \in Target : u # t => file'[u] = file[u]) /\ file'[t][s] = r
  BY <1>1, <1>2, <1>3
<1> HIDE DEF r, w, t, s
<1> SUFFICES ASSUME NEW u \in Ships(r), \A v \in op[c].todo \ {w} : v[2] # u
             PROVE  file'[u][IF WinsSpot(manifest, u[2], r) THEN "plain" ELSE r] = r
  BY <1>1, <1>2 DEF Placed
<1>5. CASE u = t
  BY <1>1, <1>4, <1>5
<1>6. CASE u # t
  <2>1. \A v \in op[c].todo : v[2] # u
    BY <1>6 DEF t
  <2>2. file[u][IF WinsSpot(manifest, u[2], r) THEN "plain" ELSE r] = r
    BY <1>1, <2>1 DEF Placed, r
  <2> QED
    BY <1>1, <1>4, <1>6, <2>2, ShipsFacts
<1> QED
  BY <1>5, <1>6

LEMMA NextPlaced ==
    ASSUME NEW c, Clients = {c} PROVE SInv /\ Placed(c) /\ [Next]_vars => Placed(c)'
<1> SUFFICES ASSUME SInv, Placed(c), [Next]_vars PROVE Placed(c)'
  OBVIOUS
<1> c \in Clients /\ TypeOK
  BY DEF SInv, IInv
<1>1. CASE UNCHANGED vars
  BY <1>1 DEF Placed, vars
<1>2. CASE Finish(c) \/ Removing(c)
  <2>1. ASSUME NEW R \in SUBSET manifest.repo, StartRemove(c, R) PROVE pc'[c] = "remove"
    BY <2>1 DEF StartRemove, TypeOK
  <2>2. ASSUME NEW r \in op[c].victims, ReadRock(c, r) \/ ReadRockFails(c, r)
        PROVE  pc'[c] = "unlink"
    BY <2>2 DEF ReadRock, ReadRockFails, TypeOK
  <2>3. ASSUME NEW k \in op[c].keys, Unlink(c, k) \/ UnlinkFails(c, k)
        PROVE  pc'[c] = "unlink"
    BY <2>3 DEF Unlink, UnlinkFails, TypeOK
  <2>4. CASE RemoveDir(c)
    BY <2>4 DEF RemoveDir, Placed, TypeOK
  <2>5. CASE Finish(c)
    BY <2>5 DEF Finish, Placed, TypeOK
  <2> QED
    BY <1>2, <2>1, <2>2, <2>3, <2>4, <2>5 DEF Placed, Removing, WriteRemoved
<1>3. CASE WriteRock(c)
  BY <1>3 DEF WriteRock, Placed, TypeOK
<1> QED
  BY <1>1, <1>2, <1>3, StartPlaced, ResolvePlaced, CopyPlaced
     DEF Next, Deploying, Abort, CopyTorn, WriteTree

(* The step that publishes an install.                                     *)
LEMMA PublishTakesEffect ==
    ASSUME SInv, NEW c \in Clients, Placed(c), WriteTree(c), NEW t \in Ships(op[c].rock)
    PROVE  LET r == op[c].rock
           IN file[t][IF Active(manifest', t[2]) = r THEN "plain" ELSE r] = r
<1> DEFINE r == op[c].rock
           keys == op[c].keys
           i == t[2]
<1>1. /\ manifest \in Manifest /\ SoundManifest(manifest)
      /\ r \in Rocks /\ DeployInProgress(c) /\ op[c].todo = {} /\ pc[c] = "record"
  BY AllManifests DEF SInv, IInv, SnapshotFresh, WriteTree, TypeOK, Op, DeployInProgress
<1>2. i \in Items /\ ShipsModule(r, i) /\ r # NoRock
  BY <1>1, ShipsFacts, CatalogAssumption
<1>3. manifest' = Recorded(manifest, r, keys)
  BY <1>1 DEF WriteTree, DeployInProgress
<1>4. Active(manifest', i) = IF i \in ModuleIndex(keys) THEN r ELSE Active(manifest, i)
  BY <1>1, <1>2, <1>3, RecordedActive
<1>5. i \in ModuleIndex(keys) <=> WinsSpot(manifest, i, r)
  BY <1>1, <1>2 DEF ModuleIndex, DeployInProgress, ShipsModule, ModTarget
<1>6. Active(manifest, i) = r => WinsSpot(manifest, i, r)
  BY <1>1, <1>2, SpotRule
<1>7. file[t][IF WinsSpot(manifest, i, r) THEN "plain" ELSE r] = r
  BY <1>1 DEF Placed
<1> QED
  BY <1>4, <1>5, <1>6, <1>7

(* InstallTakesEffect: for every catalog and whatever operations died       *)
(* before, a completed install has each module file of its rock where the   *)
(* manifest it publishes sends a reader.                                    *)
THEOREM OneClientTakesEffect ==
    ASSUME NEW one, Clients = {one} PROVE Spec => InstallTakesEffect
<1>1. Init => SInv /\ Placed(one)
  BY InitInv DEF SInv, SnapshotFresh, Init, Placed
<1>2. SInv /\ Placed(one) /\ [Next]_vars => SInv' /\ Placed(one)'
  BY NextSnapshot, NextPlaced
<1>3. SInv /\ Placed(one) /\ [Next]_vars =>
         [\A c \in Clients : TakesEffect(c)]_vars
  <2> SUFFICES ASSUME SInv, Placed(one), Next, NEW c \in Clients, pc[c] = "record",
                      pc'[c] = "idle", failures' = failures
               PROVE  \A t \in Ships(op[c].rock) :
                         LET r == op[c].rock
                         IN file[t][IF Active(manifest', t[2]) = r THEN "plain" ELSE r] = r
    BY DEF TakesEffect
  <2>1. failures # failures + 1 /\ c = one
    BY DEF SInv, IInv, TypeOK
  <2>2. ~ Abort(c) /\ ~ CopyTorn(c)
    BY <2>1 DEF Abort, CopyTorn
  <2>3. ~ Removing(c)
    BY DEF Removing, StartRemove, ReadRock, ReadRockFails, Unlink, UnlinkFails, RemoveDir,
           WriteRemoved
  <2>4. /\ \A r : ~ StartDeploy(c, r)
        /\ \A w : ~ ResolveSpot(c, w)
        /\ ~ CopyFile(c) /\ ~ WriteRock(c)
    BY Zenon DEF StartDeploy, ResolveSpot, CopyFile, WriteRock
  <2>5. Deploying(c)
    BY <2>1, <2>2, <2>3 DEF Next
  <2>6. WriteTree(c)
    BY <2>2, <2>4, <2>5 DEF Deploying
  <2> QED
    BY <2>1, <2>6, PublishTakesEffect
<1> QED
  BY <1>1, <1>2, <1>3, PTL DEF Spec, InstallTakesEffect

-----------------------------------------------------------------------------
(* What each step of the only client does to the files and to its own       *)
(* state, with the EXCEPTs resolved.                                        *)

Artifacts(r) == {w[2] : w \in WorkOf(r)}

(* Every artifact of a rock is a target.                                   *)
LEMMA ArtifactTargets ==
    ASSUME NEW r \in Rocks
    PROVE  Artifacts(r) \subseteq Target /\ Ships(r) \subseteq Artifacts(r)
<1>1. \A w \in Work : w[2] \in Target
  BY DEF Work
<1>2. \A t \in Ships(r) : \E w \in WorkOf(r) : w[2] = t
  <2> TAKE t \in Ships(r)
  <2>1. <<1, t>> \in WorkOf(r) \/ <<3, t>> \in WorkOf(r)
    BY DEF Ships, WorkOf
  <2> QED
    BY <2>1
<1> QED
  BY <1>1, <1>2, RockWork DEF Artifacts

LEMMA FinishFacts ==
    ASSUME TypeOK, NEW c \in Clients, Finish(c)
    PROVE  /\ pc'[c] = "idle" /\ op'[c] = Idle /\ op'[c].m = EmptyManifest
           /\ op'[c].keys = {} /\ op'[c].todo = {}
<1>1. pc'[c] = "idle" /\ op'[c] = Idle
  BY DEF Finish, TypeOK
<1> QED
  BY <1>1 DEF Idle

LEMMA StartDeployFacts ==
    ASSUME TypeOK, NEW c \in Clients, NEW r \in Rocks, StartDeploy(c, r)
    PROVE  /\ pc[c] = "idle" /\ pc'[c] = "deploy" /\ op'[c].m = manifest /\ op'[c].rock = r
           /\ op'[c].todo = WorkOf(r) /\ op'[c].keys = {}
           /\ UNCHANGED <<file, rockManifest, manifest, failures>>
BY IdleOp DEF StartDeploy, TypeOK, Idle

LEMMA ResolveFacts ==
    ASSUME SInv, NEW c \in Clients, NEW w \in op[c].todo, ResolveSpot(c, w)
    PROVE  LET r == op[c].rock
               t == w[2]
           IN /\ pc[c] = "deploy" /\ pc'[c] = "copy" /\ op'[c].m = manifest
              /\ op[c].m = manifest /\ op'[c].rock = r /\ op'[c].todo = op[c].todo
              /\ op'[c].keys = op[c].keys /\ op'[c].now = w
              /\ UNCHANGED <<rockManifest, manifest, failures>>
              /\ r \in Rocks /\ w \in WorkOf(r) /\ t \in Artifacts(r) /\ t \in Target
              /\ \A u \in Target : u # t => file'[u] = file[u]
              /\ file'[t] = IF WinsSpot(manifest, t[2], r)
                            THEN Preserved(manifest, t, r) ELSE file[t]
<1> DEFINE r == op[c].rock
           t == w[2]
<1>1. /\ op[c] \in Op /\ r \in Rocks /\ file \in [Target -> [Slot -> Content]]
      /\ DeployInProgress(c) /\ op[c].m = manifest /\ w \in WorkOf(r)
  BY DEF SInv, IInv, TypeOK, Op, SnapshotFresh, ResolveSpot, DeployInProgress
<1>2. /\ pc[c] = "deploy" /\ pc'[c] = "copy" /\ op'[c].m = manifest
      /\ op'[c].rock = r /\ op'[c].todo = op[c].todo
      /\ op'[c].keys = op[c].keys /\ op'[c].now = w
      /\ UNCHANGED <<rockManifest, manifest, failures>>
  BY <1>1 DEF ResolveSpot, SInv, IInv, TypeOK, Op
<1>3. t \in Artifacts(r) /\ t \in Target
  BY <1>1, ArtifactTargets DEF Artifacts
<1>4. file' = IF WinsSpot(manifest, t[2], r)
              THEN [file EXCEPT ![t] = Preserved(manifest, t, r)] ELSE file
  BY <1>1 DEF ResolveSpot
<1>5. /\ \A u \in Target : u # t => file'[u] = file[u]
      /\ file'[t] = IF WinsSpot(manifest, t[2], r) THEN Preserved(manifest, t, r) ELSE file[t]
  BY <1>1, <1>3, <1>4
<1> QED
  BY <1>1, <1>2, <1>3, <1>5

(* The file a client that has resolved a spot is about to write.           *)
LEMMA CopyFacts ==
    ASSUME SInv, NEW c \in Clients, pc[c] = "copy"
    PROVE  LET r == op[c].rock
               t == op[c].now[2]
               s == op[c].slot
           IN /\ op[c] \in Op /\ r \in Rocks /\ op[c].m = manifest
              /\ op[c].now \in op[c].todo /\ op[c].now \in WorkOf(r)
              /\ t \in Artifacts(r) /\ t \in Target /\ s \in Slot
              /\ s = IF WinsSpot(manifest, t[2], r) THEN "plain" ELSE r
<1> DEFINE r == op[c].rock
           t == op[c].now[2]
           s == op[c].slot
<1>1. /\ op[c] \in Op /\ r \in Rocks /\ s \in Slot
      /\ DeployInProgress(c) /\ op[c].m = manifest
      /\ op[c].now \in op[c].todo /\ op[c].now \in WorkOf(r)
      /\ s = IF WinsSpot(manifest, t[2], r) THEN "plain" ELSE r
  BY DEF SInv, IInv, TypeOK, Op, SnapshotFresh, DeployInProgress
<1>2. t \in Artifacts(r) /\ t \in Target
  BY <1>1, ArtifactTargets DEF Artifacts
<1> QED
  BY <1>1, <1>2

LEMMA CopyFileFacts ==
    ASSUME SInv, NEW c \in Clients, CopyFile(c)
    PROVE  LET r == op[c].rock
               t == op[c].now[2]
               s == op[c].slot
           IN /\ pc[c] = "copy" /\ pc'[c] = "deploy" /\ op'[c].m = manifest /\ op'[c].rock = r
              /\ op'[c].todo = op[c].todo \ {op[c].now}
              /\ op'[c].keys = op[c].keys \cup {KeyOf(r, t, s)}
              /\ UNCHANGED <<rockManifest, manifest, failures>>
              /\ \A u \in Target : u # t => file'[u] = file[u]
              /\ file'[t][s] = r
              /\ \A x \in Slot : x # s => file'[t][x] = file[t][x]
<1> DEFINE r == op[c].rock
           t == op[c].now[2]
           s == op[c].slot
<1>1. /\ op[c] \in Op /\ t \in Target /\ s \in Slot /\ op[c].m = manifest
      /\ file \in [Target -> [Slot -> Content]]
  BY CopyFacts DEF CopyFile, SInv, IInv, TypeOK
<1>2. /\ pc[c] = "copy" /\ pc'[c] = "deploy" /\ op'[c].m = manifest /\ op'[c].rock = r
      /\ op'[c].todo = op[c].todo \ {op[c].now}
      /\ op'[c].keys = op[c].keys \cup {KeyOf(r, t, s)}
      /\ UNCHANGED <<rockManifest, manifest, failures>>
      /\ file' = [file EXCEPT ![t][s] = r]
  BY <1>1 DEF CopyFile, SInv, IInv, TypeOK, Op
<1> QED
  BY <1>1, <1>2

LEMMA CopyTornFacts ==
    ASSUME SInv, NEW c \in Clients, CopyTorn(c)
    PROVE  LET t == op[c].now[2]
               s == op[c].slot
           IN /\ pc[c] = "copy" /\ Finish(c) /\ UNCHANGED <<rockManifest, manifest>>
              /\ failures' # 0
              /\ \A u \in Target : u # t => file'[u] = file[u]
              /\ file'[t][s] = "torn"
              /\ \A x \in Slot : x # s => file'[t][x] = file[t][x]
<1> DEFINE t == op[c].now[2]
           s == op[c].slot
<1>1. t \in Target /\ s \in Slot /\ file \in [Target -> [Slot -> Content]] /\ failures \in Nat
  BY CopyFacts DEF CopyTorn, SInv, IInv, TypeOK
<1>2. /\ pc[c] = "copy" /\ Finish(c) /\ UNCHANGED <<rockManifest, manifest>>
      /\ failures' = failures + 1 /\ file' = [file EXCEPT ![t][s] = "torn"]
  BY DEF CopyTorn
<1> QED
  BY <1>1, <1>2

LEMMA WriteRockFacts ==
    ASSUME SInv, NEW c \in Clients, WriteRock(c)
    PROVE  /\ pc[c] = "deploy" /\ pc'[c] = "record" /\ op[c].todo = {}
           /\ op[c].m = manifest /\ op[c].rock \in Rocks
           /\ UNCHANGED <<file, manifest, op, failures>>
           /\ rockManifest'[op[c].rock] = op[c].keys
           /\ \A q \in Rocks : q # op[c].rock => rockManifest'[q] = rockManifest[q]
BY DEF WriteRock, SInv, IInv, TypeOK, Op, SnapshotFresh, DeployInProgress

LEMMA StartRemoveFacts ==
    ASSUME TypeOK, NEW c \in Clients, NEW R, StartRemove(c, R)
    PROVE  /\ pc[c] = "idle" /\ pc'[c] = "remove" /\ op'[c].m = manifest /\ op'[c].keys = {}
           /\ UNCHANGED <<file, rockManifest, manifest, failures>>
BY IdleOp DEF StartRemove, TypeOK, Idle

LEMMA ReadRockFacts ==
    ASSUME TypeOK, NEW c \in Clients, NEW q \in op[c].victims, ReadRock(c, q)
    PROVE  /\ pc[c] = "remove" /\ pc'[c] = "unlink" /\ op'[c].m = op[c].m /\ op'[c].rock = q
           /\ op'[c].keys = rockManifest[q] /\ op'[c].missed = {} /\ q \in Rocks
           /\ UNCHANGED <<file, rockManifest, manifest, failures>>
BY DEF ReadRock, TypeOK, Op

LEMMA ReadRockFailsFacts ==
    ASSUME TypeOK, NEW c \in Clients, NEW q \in op[c].victims, ReadRockFails(c, q)
    PROVE  /\ pc[c] = "remove" /\ pc'[c] = "unlink" /\ op'[c].m = op[c].m /\ op'[c].rock = q
           /\ op'[c].keys = {} /\ op'[c].missed = rockManifest[q] /\ q \in Rocks
           /\ UNCHANGED <<file, rockManifest, manifest>> /\ failures' = failures + 1
BY DEF ReadRockFails, TypeOK, Op

LEMMA UnlinkFacts ==
    ASSUME TypeOK, NEW c \in Clients, NEW k \in op[c].keys, Unlink(c, k)
    PROVE  /\ pc[c] = "unlink" /\ pc'[c] = "unlink" /\ op'[c].m = op[c].m
           /\ op'[c].rock = op[c].rock /\ op'[c].keys = op[c].keys \ {k}
           /\ op'[c].missed = op[c].missed
           /\ UNCHANGED <<rockManifest, manifest, failures>>
           /\ k = <<k[1], k[2]>> /\ k[1] \in Target /\ k[2] \in Slot
           /\ \A u \in Target : \A x \in Slot :
                 file'[u][x] = IF <<u, x>> = k THEN NoRock ELSE file[u][x]
<1>1. op[c] \in Op /\ file \in [Target -> [Slot -> Content]] /\ op[c].keys \subseteq Key
  BY DEF TypeOK, Op
<1>2. k = <<k[1], k[2]>> /\ k[1] \in Target /\ k[2] \in Slot
  BY <1>1 DEF Key
<1>3. /\ pc[c] = "unlink" /\ pc'[c] = "unlink" /\ op'[c].m = op[c].m
      /\ op'[c].rock = op[c].rock /\ op'[c].keys = op[c].keys \ {k}
      /\ op'[c].missed = op[c].missed
      /\ UNCHANGED <<rockManifest, manifest, failures>>
      /\ file' = [file EXCEPT ![k[1]][k[2]] = NoRock]
  BY <1>1 DEF Unlink, TypeOK, Op
<1>4. \A u \in Target : \A x \in Slot :
         file'[u][x] = IF u = k[1] /\ x = k[2] THEN NoRock ELSE file[u][x]
  BY <1>1, <1>2, <1>3
<1>5. \A u, x : <<u, x>> = k <=> u = k[1] /\ x = k[2]
  BY <1>2
<1> QED
  BY <1>2, <1>3, <1>4, <1>5

LEMMA UnlinkFailsFacts ==
    ASSUME TypeOK, NEW c \in Clients, NEW k \in op[c].keys, UnlinkFails(c, k)
    PROVE  /\ pc[c] = "unlink" /\ pc'[c] = "unlink" /\ op'[c].m = op[c].m
           /\ op'[c].rock = op[c].rock /\ op'[c].keys = op[c].keys \ {k}
           /\ op'[c].missed = op[c].missed \cup {k}
           /\ UNCHANGED <<file, rockManifest, manifest>> /\ failures' = failures + 1
BY DEF UnlinkFails, TypeOK, Op

LEMMA RemoveDirFacts ==
    ASSUME TypeOK, NEW c \in Clients, RemoveDir(c)
    PROVE  LET r == op[c].rock
           IN /\ pc[c] = "unlink" /\ pc'[c] = "remove" /\ op[c].keys = {} /\ op'[c].keys = {}
              /\ op'[c].m = [repo |-> op[c].m.repo \ {r},
                             prov |-> RemoveProvider(op[c].m.prov, r)]
              /\ r \in Rocks /\ rockManifest'[r] = {}
              /\ \A q \in Rocks : q # r => rockManifest'[q] = rockManifest[q]
              /\ UNCHANGED <<file, manifest, failures>>
BY DEF RemoveDir, TypeOK, Op

-----------------------------------------------------------------------------
(* What a removal leaves on disk, whatever the catalog and whatever failed  *)
(* before it.                                                               *)

(* A manifest lists a rock only under modules and commands it has.         *)
Honest(m) ==
    \A i \in Items :
        /\ \A k \in DOMAIN m.prov["modules"][i] : ShipsModule(m.prov["modules"][i][k], i)
        /\ \A k \in DOMAIN m.prov["commands"][i] : i \in Bins[m.prov["commands"][i][k]]

HonestManifests(c) == Honest(manifest) /\ Honest(op[c].m)

LEMMA EmptyHonest == Honest(EmptyManifest)
BY DEF Honest, EmptyManifest, Indexes

LEMMA RecordedHonest ==
    ASSUME NEW m \in Manifest, SoundManifest(m), Honest(m), NEW r \in Rocks, NEW keys,
           \A i \in ModuleIndex(keys) : ShipsModule(r, i)
    PROVE  Honest(Recorded(m, r, keys))
<1> SUFFICES ASSUME NEW i \in Items
             PROVE  LET n == Recorded(m, r, keys)
                    IN /\ \A k \in DOMAIN n.prov["modules"][i] :
                             ShipsModule(n.prov["modules"][i][k], i)
                       /\ \A k \in DOMAIN n.prov["commands"][i] :
                             i \in Bins[n.prov["commands"][i][k]]
  BY DEF Honest
<1> DEFINE mods == m.prov["modules"][i]
           cmds == m.prov["commands"][i]
           n == Recorded(m, r, keys)
<1>1. /\ mods \in Seq(Rocks) /\ Distinct(mods) /\ cmds \in Seq(Rocks) /\ Distinct(cmds)
      /\ \A k \in DOMAIN mods : ShipsModule(mods[k], i)
      /\ \A k \in DOMAIN cmds : i \in Bins[cmds[k]]
  BY DEF Manifest, SoundManifest, Indexes, Honest
<1>2. n.prov["modules"][i] = IF i \in ModuleIndex(keys) THEN UpsertProvider(mods, r) ELSE mods
  BY DEF Recorded, Indexes
<1>3. \/ n.prov["commands"][i] = cmds
      \/ n.prov["commands"][i] = UpsertProvider(cmds, r) /\ i \in Bins[r]
  BY DEF Recorded, Indexes
<1> HIDE DEF mods, cmds, n
<1>4. \A j \in DOMAIN UpsertProvider(mods, r) :
         \/ UpsertProvider(mods, r)[j] = r
         \/ \E k \in DOMAIN mods : UpsertProvider(mods, r)[j] = mods[k]
  BY <1>1, UpsertList
<1>5. \A j \in DOMAIN UpsertProvider(cmds, r) :
         \/ UpsertProvider(cmds, r)[j] = r
         \/ \E k \in DOMAIN cmds : UpsertProvider(cmds, r)[j] = cmds[k]
  BY <1>1, UpsertList
<1>6. \A k \in DOMAIN n.prov["modules"][i] : ShipsModule(n.prov["modules"][i][k], i)
  <2>1. CASE i \in ModuleIndex(keys)
    <3>1. ShipsModule(r, i) /\ n.prov["modules"][i] = UpsertProvider(mods, r)
      BY <1>2, <2>1
    <3> QED
      BY <1>1, <1>4, <3>1
  <2>2. CASE i \notin ModuleIndex(keys)
    BY <1>1, <1>2, <2>2
  <2> QED
    BY <2>1, <2>2
<1>7. \A k \in DOMAIN n.prov["commands"][i] : i \in Bins[n.prov["commands"][i][k]]
  BY <1>1, <1>3, <1>5
<1> QED
  BY <1>6, <1>7 DEF n

LEMMA RemovedHonest ==
    ASSUME NEW m \in Manifest, SoundManifest(m), Honest(m), NEW r, NEW R
    PROVE  Honest([repo |-> R, prov |-> RemoveProvider(m.prov, r)])
<1> DEFINE n == [repo |-> R, prov |-> RemoveProvider(m.prov, r)]
<1> SUFFICES ASSUME NEW i \in Items
             PROVE  /\ \A k \in DOMAIN n.prov["modules"][i] :
                          ShipsModule(n.prov["modules"][i][k], i)
                    /\ \A k \in DOMAIN n.prov["commands"][i] :
                          i \in Bins[n.prov["commands"][i][k]]
  BY DEF Honest
<1> DEFINE mods == m.prov["modules"][i]
           cmds == m.prov["commands"][i]
<1>1. /\ mods \in Seq(Rocks) /\ Distinct(mods) /\ cmds \in Seq(Rocks) /\ Distinct(cmds)
      /\ \A k \in DOMAIN mods : ShipsModule(mods[k], i)
      /\ \A k \in DOMAIN cmds : i \in Bins[cmds[k]]
  BY DEF Manifest, SoundManifest, Indexes, Honest
<1>2. n.prov["modules"][i] = Without(mods, r) /\ n.prov["commands"][i] = Without(cmds, r)
  BY DEF RemoveProvider, Indexes
<1> HIDE DEF mods, cmds, n
<1>3. \A j \in DOMAIN Without(mods, r) : \E k \in DOMAIN mods : Without(mods, r)[j] = mods[k]
  BY <1>1, WithoutList
<1>4. \A j \in DOMAIN Without(cmds, r) : \E k \in DOMAIN cmds : Without(cmds, r)[j] = cmds[k]
  BY <1>1, WithoutList
<1>5. \A k \in DOMAIN n.prov["modules"][i] : ShipsModule(n.prov["modules"][i][k], i)
  BY <1>1, <1>2, <1>3
<1>6. \A k \in DOMAIN n.prov["commands"][i] : i \in Bins[n.prov["commands"][i][k]]
  BY <1>1, <1>2, <1>4
<1> QED
  BY <1>5, <1>6

LEMMA NextHonest ==
    ASSUME NEW c, Clients = {c}
    PROVE  SInv /\ HonestManifests(c) /\ [Next]_vars => HonestManifests(c)'
<1> SUFFICES ASSUME SInv, HonestManifests(c), [Next]_vars PROVE HonestManifests(c)'
  OBVIOUS
<1> c \in Clients /\ TypeOK /\ IInv
  BY DEF SInv, IInv
<1>1. /\ manifest \in Manifest /\ SoundManifest(manifest)
      /\ op[c].m \in Manifest /\ SoundManifest(op[c].m) /\ op[c].rock \in Rocks
  BY AllManifests DEF TypeOK, Op
<1>2. Honest(manifest) /\ Honest(op[c].m) /\ Honest(EmptyManifest)
  BY EmptyHonest DEF HonestManifests
<1>3. ASSUME Finish(c), Honest(manifest') PROVE HonestManifests(c)'
  BY <1>2, <1>3, FinishFacts DEF HonestManifests
<1>4. ASSUME manifest' = manifest, op'[c].m \in {manifest, op[c].m} PROVE HonestManifests(c)'
  BY <1>2, <1>4 DEF HonestManifests
<1>5. ASSUME NEW r \in Rocks, StartDeploy(c, r) PROVE HonestManifests(c)'
  BY <1>4, <1>5, StartDeployFacts
<1>6. ASSUME NEW w \in op[c].todo, ResolveSpot(c, w) PROVE HonestManifests(c)'
  BY <1>4, <1>6, ResolveFacts
<1>7. CASE CopyFile(c)
  BY <1>4, <1>7, CopyFileFacts
<1>8. CASE CopyTorn(c) \/ Abort(c)
  BY <1>2, <1>3, <1>8 DEF CopyTorn, Abort
<1>9. CASE WriteRock(c)
  BY <1>4, <1>9, WriteRockFacts
<1>10. CASE WriteTree(c)
  <2> DEFINE r == op[c].rock
             keys == op[c].keys
  <2>1. DeployInProgress(c) /\ manifest' = Recorded(manifest, r, keys) /\ Finish(c)
    BY <1>10 DEF WriteTree, SInv, SnapshotFresh, DeployInProgress
  <2>2. \A i \in ModuleIndex(keys) : ShipsModule(r, i)
    BY <2>1 DEF ModuleIndex, DeployInProgress, ShipsModule, ModTarget
  <2>3. Honest(Recorded(manifest, r, keys))
    <3> HIDE DEF r, keys
    <3> QED
      BY <1>1, <1>2, <2>2, RecordedHonest DEF r
  <2> QED
    BY <1>3, <2>1, <2>3
<1>11. ASSUME NEW R, StartRemove(c, R) PROVE HonestManifests(c)'
  BY <1>4, <1>11, StartRemoveFacts
<1>12. ASSUME NEW r \in op[c].victims, ReadRock(c, r) \/ ReadRockFails(c, r)
       PROVE  HonestManifests(c)'
  BY <1>4, <1>12, ReadRockFacts, ReadRockFailsFacts
<1>13. ASSUME NEW k \in op[c].keys, Unlink(c, k) \/ UnlinkFails(c, k)
       PROVE  HonestManifests(c)'
  BY <1>4, <1>13, UnlinkFacts, UnlinkFailsFacts
<1>14. CASE RemoveDir(c)
  <2> DEFINE r == op[c].rock
             n == [repo |-> op[c].m.repo \ {r}, prov |-> RemoveProvider(op[c].m.prov, r)]
  <2>1. op'[c].m = n /\ manifest' = manifest
    BY <1>14, RemoveDirFacts
  <2>2. Honest(n)
    BY <1>1, <1>2, RemovedHonest
  <2> HIDE DEF n
  <2> QED
    BY <1>2, <2>1, <2>2 DEF HonestManifests
<1>15. CASE WriteRemoved(c)
  BY <1>2, <1>3, <1>15 DEF WriteRemoved
<1>16. CASE UNCHANGED vars
  BY <1>4, <1>16 DEF vars
<1> QED
  BY <1>5, <1>6, <1>7, <1>8, <1>9, <1>10, <1>11, <1>12, <1>13, <1>14, <1>15, <1>16
     DEF Next, Deploying, Removing

Claims(c, r) == IF op[c].rock = r THEN op[c].keys ELSE {}

(* A rock_manifest, on disk or in the making, lists artifacts of its rock   *)
(* at the plain or at the rock's own versioned path.                        *)
KeysListed(c) ==
    \A q \in Rocks : \A k \in rockManifest[q] \cup Claims(c, q) :
        k[1] \in Artifacts(q) /\ k[2] \in {"plain", q}

(* What the tree knows of the file t when r alone has its name.  Only r     *)
(* writes it, and only at the plain path; a rock_manifest of r lists it if  *)
(* it lists anything; and a removal has the file, while it is there, still  *)
(* on its list or among those it could not delete.                          *)
Own(c, r, t) ==
    /\ file[t]["plain"] = r => t \in Artifacts(r)
    /\ file[t][r] # r
    /\ \A s \in Slot : <<t, s>> \in rockManifest[r] \cup Claims(c, r) =>
          s = "plain" /\ file[t]["plain"] \in {r, "torn", NoRock}
    /\ rockManifest[r] # {} /\ t \in Artifacts(r) => <<t, "plain">> \in rockManifest[r]
    /\ ( /\ pc[c] \in {"deploy", "copy", "record"}
         /\ op[c].rock = r
         /\ t \in Artifacts(r)
         /\ \A w \in op[c].todo : w[2] # t ) => <<t, "plain">> \in op[c].keys
    /\ ( /\ pc[c] = "unlink"
         /\ op[c].rock = r
         /\ rockManifest[r] # {}
         /\ file[t]["plain"] = r ) => <<t, "plain">> \in op[c].keys \cup op[c].missed

SoleFiles(c) ==
    \A r \in Rocks : \A t \in Target : SoleOwner(r, t) => Own(c, r, t)

RemovalInv(c) == SInv /\ HonestManifests(c) /\ KeysListed(c) /\ SoleFiles(c)

(* Where a rock alone has a name, it wins every path of that name, and what *)
(* is there is its own or untracked.                                        *)
LEMMA SoleWins ==
    ASSUME NEW m \in Manifest, Honest(m), NEW r \in Rocks, NEW t \in Target, SoleOwner(r, t)
    PROVE  CurrentProvider(m, t[2]) \in {NoRock, r} /\ WinsSpot(m, t[2], r)
<1>1. t[2] \in Items /\ InitBase[t[2]] \in Items
  BY CatalogAssumption DEF Target
<1>2. \A i \in {t[2], InitBase[t[2]]} : Provider(m, i) \in {NoRock, r}
  <2> SUFFICES ASSUME NEW i \in {t[2], InitBase[t[2]]}, Provider(m, i) # NoRock
               PROVE  Provider(m, i) = r
    OBVIOUS
  <2> DEFINE mods == m.prov["modules"][i]
             cmds == m.prov["commands"][i]
  <2>1. /\ mods \in Seq(Rocks) /\ cmds \in Seq(Rocks)
        /\ \A k \in DOMAIN mods : ShipsModule(mods[k], i)
        /\ \A k \in DOMAIN cmds : i \in Bins[cmds[k]]
    BY <1>1 DEF Manifest, Indexes, Honest
  <2>2. \/ mods # <<>> /\ Provider(m, i) = Head(mods)
        \/ cmds # <<>> /\ Provider(m, i) = Head(cmds)
    BY DEF Provider
  <2> HIDE DEF mods, cmds
  <2>3. mods # <<>> => 1 \in DOMAIN mods /\ Head(mods) = mods[1] /\ mods[1] \in Rocks
    BY <2>1
  <2>4. cmds # <<>> => 1 \in DOMAIN cmds /\ Head(cmds) = cmds[1] /\ cmds[1] \in Rocks
    BY <2>1
  <2>5. \A q \in Rocks : q # r => ~ ShipsModule(q, i) /\ i \notin Bins[q]
    BY DEF SoleOwner
  <2> QED
    BY <2>1, <2>2, <2>3, <2>4, <2>5
<1>3. CurrentProvider(m, t[2]) \in {NoRock, r}
  BY <1>2 DEF CurrentProvider
<1> QED
  BY <1>3 DEF WinsSpot

(* No other rock has such a file among its artifacts.                      *)
LEMMA SoleArtifact ==
    ASSUME NEW r \in Rocks, NEW t \in Target, SoleOwner(r, t), NEW q \in Rocks, t \in Artifacts(q)
    PROVE  q = r
<1>1. \/ t \in Ships(q)
      \/ \E i \in Bins[q] : t = <<"bin", i>>
  BY DEF Artifacts, WorkOf, Ships
<1>2. \A i \in {t[2], InitBase[t[2]]} : q # r => ~ ShipsModule(q, i) /\ i \notin Bins[q]
  BY DEF SoleOwner
<1>3. CASE t \in Ships(q)
  BY <1>2, <1>3, ShipsFacts
<1>4. CASE \E i \in Bins[q] : t = <<"bin", i>>
  BY <1>2, <1>4
<1> QED
  BY <1>1, <1>3, <1>4

LEMMA RemovalFacts ==
    ASSUME NEW c, Clients = {c}, RemovalInv(c)
    PROVE  /\ c \in Clients /\ TypeOK /\ SInv
           /\ manifest \in Manifest /\ Honest(manifest) /\ op[c] \in Op /\ op[c].rock \in Rocks
           /\ file \in [Target -> [Slot -> Content]]
           /\ KeysListed(c) /\ SoleFiles(c)
<1>1. SInv /\ IInv /\ TypeOK
  BY DEF RemovalInv, SInv, IInv
<1> QED
  BY <1>1, AllManifests DEF RemovalInv, TypeOK, Op, HonestManifests

-----------------------------------------------------------------------------
(* One lemma per action that moves files or lists of files.                *)

LEMMA ResolveSole ==
    ASSUME NEW c, Clients = {c}, RemovalInv(c), NEW w \in op[c].todo, ResolveSpot(c, w)
    PROVE  KeysListed(c)' /\ SoleFiles(c)'
<1> DEFINE q == op[c].rock
           u == w[2]
<1>1. /\ c \in Clients /\ SInv /\ manifest \in Manifest /\ Honest(manifest)
      /\ file \in [Target -> [Slot -> Content]] /\ KeysListed(c) /\ SoleFiles(c)
  BY RemovalFacts
<1>2. /\ pc[c] = "deploy" /\ pc'[c] = "copy" /\ op'[c].rock = q
      /\ op'[c].todo = op[c].todo /\ op'[c].keys = op[c].keys /\ rockManifest' = rockManifest
      /\ q \in Rocks /\ u \in Artifacts(q)
      /\ \A t \in Target : t # u => file'[t] = file[t]
      /\ file'[u] = IF WinsSpot(manifest, u[2], q) THEN Preserved(manifest, u, q) ELSE file[u]
  BY <1>1, ResolveFacts
<1> HIDE DEF q, u
<1>3. KeysListed(c)'
  BY <1>1, <1>2 DEF KeysListed, Claims, q
<1>4. SoleFiles(c)'
  <2> SUFFICES ASSUME NEW r \in Rocks, NEW t \in Target, SoleOwner(r, t), Own(c, r, t)
               PROVE  Own(c, r, t)'
    BY <1>1 DEF SoleFiles
  <2>1. Claims(c, r)' = Claims(c, r)
    BY <1>2 DEF Claims, q
  <2>2. ASSUME file'[t]["plain"] \in {file[t]["plain"], NoRock}, file'[t][r] = file[t][r]
        PROVE  Own(c, r, t)'
    <3>1. r # NoRock /\ pc'[c] # "unlink" /\ pc'[c] \in {"deploy", "copy", "record"}
          /\ pc[c] \in {"deploy", "copy", "record"}
      BY <1>2, CatalogAssumption
    <3> QED
      BY <1>2, <2>1, <2>2, <3>1 DEF Own, q
  <2>3. CASE t # u
    BY <1>2, <2>2, <2>3
  <2>4. CASE t = u
    <3>1. q = r
      BY <1>2, <2>4, SoleArtifact
    <3>2. CurrentProvider(manifest, t[2]) \in {NoRock, r} /\ WinsSpot(manifest, t[2], r)
      BY <1>1, SoleWins
    <3>3. file'[t] = Preserved(manifest, t, r)
      BY <1>2, <2>4, <3>1, <3>2
    <3>4. \/ file'[t] = file[t]
          \/ file'[t] = [file[t] EXCEPT !["backup"] = file[t]["plain"], !["plain"] = NoRock]
      BY <3>2, <3>3 DEF Preserved
    <3>5. file[t] \in [Slot -> Content] /\ r \notin {"plain", "backup"} /\ r \in Slot
          /\ "plain" \in Slot
      BY <1>1, CatalogAssumption DEF Slot
    <3>6. file'[t]["plain"] \in {file[t]["plain"], NoRock} /\ file'[t][r] = file[t][r]
      BY <3>4, <3>5
    <3> QED
      BY <2>2, <3>6
  <2> QED
    BY <2>3, <2>4
<1> QED
  BY <1>3, <1>4

LEMMA CopySole ==
    ASSUME NEW c, Clients = {c}, RemovalInv(c), CopyFile(c)
    PROVE  KeysListed(c)' /\ SoleFiles(c)'
<1> DEFINE q == op[c].rock
           w == op[c].now
           u == w[2]
           x == op[c].slot
<1>1. /\ c \in Clients /\ SInv /\ manifest \in Manifest /\ Honest(manifest)
      /\ file \in [Target -> [Slot -> Content]] /\ KeysListed(c) /\ SoleFiles(c)
  BY RemovalFacts
<1>2. /\ pc[c] = "copy" /\ pc'[c] = "deploy" /\ op'[c].rock = q
      /\ op'[c].todo = op[c].todo \ {w}
      /\ op'[c].keys = op[c].keys \cup {KeyOf(q, u, x)} /\ rockManifest' = rockManifest
      /\ \A t \in Target : t # u => file'[t] = file[t]
      /\ file'[u][x] = q
      /\ \A s \in Slot : s # x => file'[u][s] = file[u][s]
  BY <1>1, CopyFileFacts
<1>3. /\ q \in Rocks /\ u \in Artifacts(q) /\ u \in Target /\ x \in Slot
      /\ x = IF WinsSpot(manifest, u[2], q) THEN "plain" ELSE q
  BY <1>1, <1>2, CopyFacts
<1> HIDE DEF q, w, u, x
<1>4. /\ KeyOf(q, u, x)[1] = u /\ KeyOf(q, u, x)[2] \in {"plain", q}
      /\ x = "plain" => KeyOf(q, u, x) = <<u, "plain">>
  BY <1>3 DEF KeyOf
<1>5. \A r : Claims(c, r)' = IF r = q THEN Claims(c, r) \cup {KeyOf(q, u, x)} ELSE {}
  BY <1>2 DEF Claims, q
<1>6. \A r : r # q => Claims(c, r) = {}
  BY DEF Claims, q
<1>7. KeysListed(c)'
  BY <1>1, <1>2, <1>3, <1>4, <1>5 DEF KeysListed
<1>8. SoleFiles(c)'
  <2> SUFFICES ASSUME NEW r \in Rocks, NEW t \in Target, SoleOwner(r, t), Own(c, r, t)
               PROVE  Own(c, r, t)'
    BY <1>1 DEF SoleFiles
  <2>1. CASE t # u
    <3>1. file'[t] = file[t]
      BY <1>2, <2>1
    <3>2. \A s \in Slot : <<t, s>> \in Claims(c, r)' => <<t, s>> \in Claims(c, r)
      <4>1. \A s : <<t, s>> # KeyOf(q, u, x)
        BY <1>4, <2>1
      <4> QED
        BY <1>5, <4>1
    <3>3. (\A v \in op'[c].todo : v[2] # t) => (\A v \in op[c].todo : v[2] # t)
      BY <1>2, <2>1 DEF u
    <3> QED
      BY <1>2, <3>1, <3>2, <3>3 DEF Own, q
  <2>2. CASE t = u
    <3>1. q = r
      BY <1>3, <2>2, SoleArtifact
    <3>2. x = "plain" /\ KeyOf(q, u, x) = <<t, "plain">>
      BY <1>1, <1>3, <1>4, <2>2, <3>1, SoleWins
    <3>3. r \in Slot /\ r # "plain"
      BY CatalogAssumption DEF Slot
    <3>4. file'[t]["plain"] = r /\ file'[t][r] = file[t][r] /\ t \in Artifacts(r)
      BY <1>2, <1>3, <2>2, <3>1, <3>2, <3>3
    <3>5. \A s : <<t, s>> \in Claims(c, r)' => s = "plain" \/ <<t, s>> \in Claims(c, r)
      BY <1>5, <3>1, <3>2
    <3>6. <<t, "plain">> \in op'[c].keys
      BY <1>2, <3>2
    <3> QED
      BY <1>2, <3>4, <3>5, <3>6 DEF Own
  <2> QED
    BY <2>1, <2>2
<1> QED
  BY <1>7, <1>8

LEMMA TornSole ==
    ASSUME NEW c, Clients = {c}, RemovalInv(c), CopyTorn(c)
    PROVE  KeysListed(c)' /\ SoleFiles(c)'
<1> DEFINE q == op[c].rock
           u == op[c].now[2]
           x == op[c].slot
<1>1. /\ c \in Clients /\ TypeOK /\ SInv /\ manifest \in Manifest /\ Honest(manifest)
      /\ KeysListed(c) /\ SoleFiles(c)
  BY RemovalFacts
<1>2. /\ pc[c] = "copy" /\ Finish(c) /\ rockManifest' = rockManifest
      /\ \A t \in Target : t # u => file'[t] = file[t]
      /\ file'[u][x] = "torn"
      /\ \A s \in Slot : s # x => file'[u][s] = file[u][s]
  BY <1>1, CopyTornFacts
<1>3. /\ q \in Rocks /\ u \in Artifacts(q) /\ u \in Target
      /\ x = IF WinsSpot(manifest, u[2], q) THEN "plain" ELSE q
  BY <1>1, <1>2, CopyFacts
<1>4. pc'[c] = "idle" /\ op'[c].keys = {}
  BY <1>1, <1>2, FinishFacts
<1>5. \A r : Claims(c, r)' = {}
  BY <1>4 DEF Claims
<1> HIDE DEF q, u, x
<1>6. KeysListed(c)'
  BY <1>1, <1>2, <1>5 DEF KeysListed
<1>7. SoleFiles(c)'
  <2> SUFFICES ASSUME NEW r \in Rocks, NEW t \in Target, SoleOwner(r, t), Own(c, r, t)
               PROVE  Own(c, r, t)'
    BY <1>1 DEF SoleFiles
  <2>1. file'[t]["plain"] \in {file[t]["plain"], "torn"} /\ file'[t][r] = file[t][r]
    <3>1. CASE t # u
      BY <1>2, <3>1
    <3>2. CASE t = u
      <4>1. x = "plain"
        BY <1>1, <1>3, <3>2, SoleArtifact, SoleWins
      <4>2. r \in Slot /\ r # "plain"
        BY CatalogAssumption DEF Slot
      <4> QED
        BY <1>2, <3>2, <4>1, <4>2
    <3> QED
      BY <3>1, <3>2
  <2>2. r # "torn"
    BY CatalogAssumption
  <2> QED
    BY <1>2, <1>4, <1>5, <2>1, <2>2 DEF Own
<1> QED
  BY <1>6, <1>7

LEMMA WriteRockSole ==
    ASSUME NEW c, Clients = {c}, RemovalInv(c), WriteRock(c)
    PROVE  KeysListed(c)' /\ SoleFiles(c)'
<1> DEFINE q == op[c].rock
<1>1. c \in Clients /\ SInv /\ KeysListed(c) /\ SoleFiles(c)
  BY RemovalFacts
<1>2. /\ pc[c] = "deploy" /\ pc'[c] = "record" /\ op[c].todo = {} /\ q \in Rocks
      /\ UNCHANGED <<file, op>> /\ rockManifest'[q] = op[c].keys
      /\ \A p \in Rocks : p # q => rockManifest'[p] = rockManifest[p]
  BY <1>1, WriteRockFacts
<1> HIDE DEF q
<1>3. \A r \in Rocks : Claims(c, r)' = Claims(c, r)
  BY <1>2 DEF Claims
<1>4. Claims(c, q) = rockManifest'[q]
  BY <1>2 DEF Claims, q
<1>5. KeysListed(c)'
  BY <1>1, <1>2, <1>3, <1>4 DEF KeysListed
<1>6. SoleFiles(c)'
  <2> SUFFICES ASSUME NEW r \in Rocks, NEW t \in Target, SoleOwner(r, t), Own(c, r, t)
               PROVE  Own(c, r, t)'
    BY <1>1 DEF SoleFiles
  <2>1. CASE r = q
    BY <1>2, <1>3, <1>4, <2>1 DEF Own, q
  <2>2. CASE r # q
    BY <1>2, <1>3, <2>2 DEF Own, q
  <2> QED
    BY <2>1, <2>2
<1> QED
  BY <1>5, <1>6

LEMMA ReadRockSole ==
    ASSUME NEW c, Clients = {c}, RemovalInv(c), NEW q \in op[c].victims, ReadRock(c, q)
    PROVE  KeysListed(c)' /\ SoleFiles(c)'
<1>1. c \in Clients /\ TypeOK /\ KeysListed(c) /\ SoleFiles(c)
  BY RemovalFacts
<1>2. /\ pc'[c] = "unlink" /\ op'[c].rock = q /\ op'[c].keys = rockManifest[q] /\ q \in Rocks
      /\ UNCHANGED <<file, rockManifest>>
  BY <1>1, ReadRockFacts
<1>3. \A r \in Rocks : Claims(c, r)' \subseteq rockManifest[r]
  BY <1>2 DEF Claims
<1>4. KeysListed(c)'
  BY <1>1, <1>2, <1>3 DEF KeysListed
<1>5. SoleFiles(c)'
  <2> SUFFICES ASSUME NEW r \in Rocks, NEW t \in Target, SoleOwner(r, t), Own(c, r, t)
               PROVE  Own(c, r, t)'
    BY <1>1 DEF SoleFiles
  <2> QED
    BY <1>2, <1>3 DEF Own
<1> QED
  BY <1>4, <1>5

LEMMA ReadRockFailsSole ==
    ASSUME NEW c, Clients = {c}, RemovalInv(c), NEW q \in op[c].victims, ReadRockFails(c, q)
    PROVE  KeysListed(c)' /\ SoleFiles(c)'
<1>1. c \in Clients /\ TypeOK /\ KeysListed(c) /\ SoleFiles(c)
  BY RemovalFacts
<1>2. /\ pc'[c] = "unlink" /\ op'[c].rock = q /\ op'[c].keys = {} /\ q \in Rocks
      /\ op'[c].missed = rockManifest[q] /\ UNCHANGED <<file, rockManifest>>
  BY <1>1, ReadRockFailsFacts
<1>3. \A r \in Rocks : Claims(c, r)' = {}
  BY <1>2 DEF Claims
<1>4. KeysListed(c)'
  BY <1>1, <1>2, <1>3 DEF KeysListed
<1>5. SoleFiles(c)'
  <2> SUFFICES ASSUME NEW r \in Rocks, NEW t \in Target, SoleOwner(r, t), Own(c, r, t)
               PROVE  Own(c, r, t)'
    BY <1>1 DEF SoleFiles
  <2> QED
    BY <1>2, <1>3 DEF Own
<1> QED
  BY <1>4, <1>5

LEMMA UnlinkFailsSole ==
    ASSUME NEW c, Clients = {c}, RemovalInv(c), NEW k \in op[c].keys, UnlinkFails(c, k)
    PROVE  KeysListed(c)' /\ SoleFiles(c)'
<1>1. c \in Clients /\ TypeOK /\ KeysListed(c) /\ SoleFiles(c)
  BY RemovalFacts
<1>2. /\ pc[c] = "unlink" /\ pc'[c] = "unlink" /\ op'[c].rock = op[c].rock
      /\ op'[c].keys = op[c].keys \ {k} /\ op'[c].missed = op[c].missed \cup {k}
      /\ UNCHANGED <<file, rockManifest>>
  BY <1>1, UnlinkFailsFacts
<1>3. \A r \in Rocks : Claims(c, r)' \subseteq Claims(c, r)
  BY <1>2 DEF Claims
<1>4. KeysListed(c)'
  BY <1>1, <1>2, <1>3 DEF KeysListed
<1>5. SoleFiles(c)'
  <2> SUFFICES ASSUME NEW r \in Rocks, NEW t \in Target, SoleOwner(r, t), Own(c, r, t)
               PROVE  Own(c, r, t)'
    BY <1>1 DEF SoleFiles
  <2>1. op'[c].keys \cup op'[c].missed = op[c].keys \cup op[c].missed
    BY <1>2
  <2> QED
    BY <1>2, <1>3, <2>1 DEF Own
<1> QED
  BY <1>4, <1>5

LEMMA UnlinkSole ==
    ASSUME NEW c, Clients = {c}, RemovalInv(c), NEW k \in op[c].keys, Unlink(c, k)
    PROVE  KeysListed(c)' /\ SoleFiles(c)'
<1>1. c \in Clients /\ TypeOK /\ KeysListed(c) /\ SoleFiles(c)
  BY RemovalFacts
<1>2. /\ pc[c] = "unlink" /\ pc'[c] = "unlink" /\ op'[c].rock = op[c].rock
      /\ op'[c].keys = op[c].keys \ {k} /\ op'[c].missed = op[c].missed
      /\ rockManifest' = rockManifest
      /\ \A u \in Target : \A x \in Slot :
            file'[u][x] = IF <<u, x>> = k THEN NoRock ELSE file[u][x]
  BY <1>1, UnlinkFacts
<1>3. \A r \in Rocks : Claims(c, r)' \subseteq Claims(c, r)
  BY <1>2 DEF Claims
<1>4. KeysListed(c)'
  BY <1>1, <1>2, <1>3 DEF KeysListed
<1>5. SoleFiles(c)'
  <2> SUFFICES ASSUME NEW r \in Rocks, NEW t \in Target, SoleOwner(r, t), Own(c, r, t)
               PROVE  Own(c, r, t)'
    BY <1>1 DEF SoleFiles
  <2>1. r # NoRock /\ r \in Slot /\ "plain" \in Slot
    BY CatalogAssumption DEF Slot
  <2>2. /\ file'[t]["plain"] \in {file[t]["plain"], NoRock}
        /\ file'[t][r] \in {file[t][r], NoRock}
        /\ file'[t]["plain"] = r => <<t, "plain">> # k
    BY <1>2, <2>1
  <2> QED
    BY <1>2, <1>3, <2>1, <2>2 DEF Own
<1> QED
  BY <1>4, <1>5

(* The steps that leave the files alone and list nothing new.              *)
LEMMA QuietSole ==
    ASSUME NEW c, Clients = {c}, RemovalInv(c), file' = file, op'[c].keys = {},
           \A q \in Rocks : rockManifest'[q] \in {rockManifest[q], {}},
           \/ pc'[c] \in {"idle", "remove"}
           \/ pc'[c] = "deploy" /\ op'[c].todo = WorkOf(op'[c].rock)
    PROVE  KeysListed(c)' /\ SoleFiles(c)'
<1>1. KeysListed(c) /\ SoleFiles(c)
  BY RemovalFacts
<1>2. \A r : Claims(c, r)' = {}
  BY DEF Claims
<1>3. KeysListed(c)'
  BY <1>1, <1>2 DEF KeysListed
<1>4. SoleFiles(c)'
  <2> SUFFICES ASSUME NEW r \in Rocks, NEW t \in Target, SoleOwner(r, t), Own(c, r, t)
               PROVE  Own(c, r, t)'
    BY <1>1 DEF SoleFiles
  <2>1. /\ pc'[c] \in {"deploy", "copy", "record"} /\ op'[c].rock = r /\ t \in Artifacts(r)
        => \E w \in op'[c].todo : w[2] = t
    BY DEF Artifacts
  <2>2. pc'[c] # "unlink" /\ rockManifest'[r] \in {rockManifest[r], {}}
    OBVIOUS
  <2> QED
    BY <1>2, <2>1, <2>2 DEF Own
<1> QED
  BY <1>3, <1>4

LEMMA NextRemoval ==
    ASSUME NEW c, Clients = {c} PROVE RemovalInv(c) /\ [Next]_vars => RemovalInv(c)'
<1> SUFFICES ASSUME RemovalInv(c), [Next]_vars PROVE KeysListed(c)' /\ SoleFiles(c)'
  BY NextSnapshot, NextHonest DEF RemovalInv
<1>1. c \in Clients /\ TypeOK /\ SInv /\ op[c].rock \in Rocks
  BY RemovalFacts
<1>2. ASSUME UNCHANGED <<file, rockManifest>>, Finish(c) PROVE KeysListed(c)' /\ SoleFiles(c)'
  BY <1>1, <1>2, FinishFacts, QuietSole
<1>3. ASSUME NEW r \in Rocks, StartDeploy(c, r) PROVE KeysListed(c)' /\ SoleFiles(c)'
  BY <1>1, <1>3, StartDeployFacts, QuietSole
<1>4. ASSUME NEW R, StartRemove(c, R) PROVE KeysListed(c)' /\ SoleFiles(c)'
  BY <1>1, <1>4, StartRemoveFacts, QuietSole
<1>5. CASE RemoveDir(c)
  BY <1>1, <1>5, RemoveDirFacts, QuietSole
<1>6. CASE WriteTree(c) \/ WriteRemoved(c) \/ Abort(c)
  BY <1>2, <1>6 DEF WriteTree, WriteRemoved, Abort
<1>7. CASE UNCHANGED vars
  BY <1>7 DEF vars, RemovalInv, KeysListed, SoleFiles, Own, Claims
<1> QED
  BY <1>3, <1>4, <1>5, <1>6, <1>7, ResolveSole, CopySole, TornSole, WriteRockSole,
     ReadRockSole, ReadRockFailsSole, UnlinkSole, UnlinkFailsSole
     DEF Next, Deploying, Removing

LEMMA InitRemoval == ASSUME NEW c, Clients = {c} PROVE Init => RemovalInv(c)
<1> SUFFICES ASSUME Init PROVE RemovalInv(c)
  OBVIOUS
<1>1. SInv /\ c \in Clients
  BY InitInv DEF SInv, SnapshotFresh, Init
<1>2. Idle.m = EmptyManifest /\ Idle.keys = {}
  BY DEF Idle
<1>3. /\ manifest = EmptyManifest /\ op[c].m = EmptyManifest /\ op[c].keys = {}
      /\ pc[c] = "idle"
  BY <1>1, <1>2 DEF Init
<1>4. \A r \in Rocks : rockManifest[r] = {}
  BY Zenon DEF Init
<1>5. \A t \in Target : \A s \in Slot : file[t][s] \in {NoRock, "user"}
  BY DEF Init, EmptyTarget
<1>6. \A r \in Rocks : r \in Slot /\ r \notin {NoRock, "user"} /\ "plain" \in Slot
  BY CatalogAssumption DEF Slot
<1>7. HonestManifests(c)
  BY <1>3, EmptyHonest DEF HonestManifests
<1>8. \A r \in Rocks : Claims(c, r) = {}
  BY <1>3 DEF Claims
<1>9. KeysListed(c)
  BY <1>4, <1>8 DEF KeysListed
<1>10. SoleFiles(c)
  <2> SUFFICES ASSUME NEW r \in Rocks, NEW t \in Target PROVE Own(c, r, t)
    BY DEF SoleFiles
  <2>1. file[t]["plain"] # r /\ file[t][r] # r
    BY <1>5, <1>6
  <2> QED
    BY <1>3, <1>4, <1>8, <2>1 DEF Own
<1> QED
  BY <1>1, <1>7, <1>9, <1>10 DEF RemovalInv

(* The end of the removal of one rock.                                     *)
LEMMA EndRemoval ==
    ASSUME NEW c, Clients = {c}, RemovalInv(c), Next PROVE LeavesNothing(c)
<1> DEFINE r == op[c].rock
<1> SUFFICES ASSUME pc[c] = "unlink", pc'[c] = "remove", rockManifest[r] # {},
                    NEW t \in Target, NEW s \in {"plain", r}, SoleOwner(r, t), file[t][s] = r
             PROVE  <<t, s>> \in op[c].missed
  BY DEF LeavesNothing
<1>1. c \in Clients /\ TypeOK /\ SInv /\ r \in Rocks /\ SoleFiles(c)
  BY RemovalFacts
<1>2. ~ Finish(c)
  BY <1>1, FinishFacts
<1>3. /\ \A q \in Rocks : ~ StartDeploy(c, q)
      /\ \A w : ~ ResolveSpot(c, w)
      /\ ~ CopyFile(c) /\ ~ WriteRock(c)
      /\ \A R : ~ StartRemove(c, R)
      /\ \A q : ~ ReadRock(c, q) /\ ~ ReadRockFails(c, q)
  BY Zenon DEF StartDeploy, ResolveSpot, CopyFile, WriteRock, StartRemove, ReadRock,
               ReadRockFails
<1>4. \A k \in op[c].keys : ~ Unlink(c, k) /\ ~ UnlinkFails(c, k)
  BY <1>1, UnlinkFacts, UnlinkFailsFacts
<1>5. RemoveDir(c)
  BY <1>2, <1>3, <1>4
     DEF Next, Deploying, Removing, CopyTorn, WriteTree, WriteRemoved, Abort
<1>6. op[c].keys = {}
  BY <1>5 DEF RemoveDir
<1>7. Own(c, r, t)
  BY <1>1 DEF SoleFiles
<1> QED
  BY <1>6, <1>7 DEF Own

(* RemovalIsComplete: for every catalog, and whatever installs and removals *)
(* of the rock died half way before, a removal of a rock with a             *)
(* rock_manifest leaves no file of the rock whose name no other rock has,   *)
(* but for listed files whose os.Remove, or the read of the list, failed.   *)
THEOREM OneClientRemovesAll ==
    ASSUME NEW one, Clients = {one} PROVE Spec => RemovalIsComplete
<1>1. Init => RemovalInv(one)
  BY InitRemoval
<1>2. RemovalInv(one) /\ [Next]_vars => RemovalInv(one)'
  BY NextRemoval
<1>3. RemovalInv(one) /\ [Next]_vars => [\A c \in Clients : LeavesNothing(c)]_vars
  BY EndRemoval
<1> QED
  BY <1>1, <1>2, <1>3, PTL DEF Spec, RemovalIsComplete

(* A removal touches no file but the ones on its list.                     *)
LEMMA RemovalTouches ==
    ASSUME NEW c, Clients = {c}, SInv, Next, NEW t \in Target, NEW s \in Slot,
           pc[c] = "unlink", file'[t][s] # file[t][s]
    PROVE  <<t, s>> \in op[c].keys /\ file[t][s] # NoRock
<1>1. c \in Clients /\ TypeOK
  BY DEF SInv, IInv
<1>2. /\ \A r : ~ StartDeploy(c, r)
      /\ \A w : ~ ResolveSpot(c, w)
      /\ ~ CopyFile(c) /\ ~ CopyTorn(c)
  BY Zenon DEF StartDeploy, ResolveSpot, CopyFile, CopyTorn
<1>3. /\ \A R : ~ StartRemove(c, R)
      /\ ~ WriteRock(c) /\ ~ WriteTree(c) /\ ~ RemoveDir(c) /\ ~ WriteRemoved(c) /\ ~ Abort(c)
      /\ \A r : ~ ReadRock(c, r) /\ ~ ReadRockFails(c, r)
      /\ \A k : ~ UnlinkFails(c, k)
  BY Zenon DEF StartRemove, WriteRock, WriteTree, RemoveDir, WriteRemoved, Abort, ReadRock,
               ReadRockFails, UnlinkFails
<1>4. PICK k \in op[c].keys : Unlink(c, k)
  BY <1>2, <1>3 DEF Next, Deploying, Removing
<1> QED
  BY <1>1, <1>4, UnlinkFacts

(* A removal deletes only its own files where no other rock has the name.  *)
LEMMA SoleSpared ==
    ASSUME NEW c, Clients = {c}, RemovalInv(c), Next, NEW t \in Target, NEW s \in Slot,
           SoleOwner(op[c].rock, t)
    PROVE  SparesOthers(c, t, s)
<1> DEFINE r == op[c].rock
<1> SUFFICES ASSUME pc[c] = "unlink", file'[t][s] # file[t][s]
             PROVE  file[t][s] \in {r, "torn"}
  BY DEF SparesOthers
<1>1. c \in Clients /\ SInv /\ r \in Rocks /\ SoleFiles(c)
  BY RemovalFacts
<1>2. <<t, s>> \in op[c].keys /\ file[t][s] # NoRock
  BY <1>1, RemovalTouches
<1>3. Own(c, r, t) /\ <<t, s>> \in Claims(c, r)
  BY <1>1, <1>2 DEF SoleFiles, Claims
<1> QED
  BY <1>2, <1>3 DEF Own

-----------------------------------------------------------------------------
(* The files of a tree that only grows, with one client and no failures.   *)

(* The catalogs this is about.  No file of a rock passes through            *)
(* resolveSpot twice; a module is no command and has no ".init" alias;      *)
(* versions of one rock differ in the order of deps.Compare; and a rock     *)
(* that outranks another has a module in every section the other has it in, *)
(* as resolveSpot asks for the provider of the module, not of the file.     *)
PlainCatalog ==
    /\ \A r \in Rocks : Declared[r] \cap Staged[r] = {}
    /\ \A i \in Modules : InitBase[i] = i /\ \A r \in Rocks : i \notin Bins[r]
    /\ \A q, r \in Rocks : q = r \/ Beats(q, r) \/ Beats(r, q)
    /\ \A q, r \in Rocks : \A t \in Ships(r) :
          Beats(q, r) /\ ShipsModule(q, t[2]) => t \in Ships(q)

(* The active provider of a module ships it and outranks the other          *)
(* installed rocks that do.                                                 *)
Ranked(m) ==
    \A i \in Items :
        /\ Active(m, i) # NoRock => ShipsModule(Active(m, i), i)
        /\ \A q \in m.repo : ShipsModule(q, i) =>
              /\ Active(m, i) # NoRock
              /\ q = Active(m, i) \/ Beats(Active(m, i), q)

CommandsApart(m) == \A i \in Modules : m.prov["commands"][i] = <<>>

Takes(r, t) ==
    t \in Ships(r) /\ WinsSpot(manifest, t[2], r) /\ r # Active(manifest, t[2])

(* The install in progress has taken the plain path of t from its owner.   *)
Moved(c, t) ==
    /\ pc[c] # "idle"
    /\ Takes(op[c].rock, t)
    /\ \A w \in op[c].todo : w[2] = t => pc[c] = "copy" /\ op[c].now = w

Kept(c, q, t) ==
    file[t][IF q = Active(manifest, t[2]) /\ ~ Moved(c, t) THEN "plain" ELSE q] = q

(* Each file of an installed rock is at the plain path if the rock is the   *)
(* active provider and nobody has just taken that path, else at its         *)
(* versioned one.                                                           *)
FilesKept(c) == \A q \in manifest.repo : \A t \in Ships(q) : Kept(c, q, t)

FInv(c) ==
    /\ SInv
    /\ pc[c] \in {"idle", "deploy", "copy", "record"}
    /\ failures = 0
    /\ Ranked(manifest)
    /\ CommandsApart(manifest)
    /\ FilesKept(c)
    /\ Placed(c)

(* Outranking is transitive and excludes itself.                           *)
LEMMA BeatsOrder ==
    /\ \A p, q, r \in Rocks : Beats(p, q) /\ Beats(q, r) => Beats(p, r)
    /\ \A q, r \in Rocks : Beats(q, r) => q # r
BY CatalogAssumption DEF Beats

(* The provider resolveSpot sees of a module is its active one.            *)
LEMMA SeesActive ==
    ASSUME PlainCatalog, NEW m \in Manifest, SoundManifest(m), CommandsApart(m),
           NEW i \in Modules
    PROVE  CurrentProvider(m, i) = Active(m, i)
<1>1. i \in Items /\ InitBase[i] = i /\ m.prov["commands"][i] = <<>>
  BY DEF Modules, PlainCatalog, CommandsApart
<1>2. Provider(m, i) = Active(m, i)
  BY <1>1 DEF Provider, Active
<1> QED
  BY <1>1, <1>2 DEF CurrentProvider

(* A rock wins a path against the active provider exactly if it outranks it *)
(* or is it.                                                                *)
LEMMA WinsRule ==
    ASSUME PlainCatalog, NEW m \in Manifest, SoundManifest(m), CommandsApart(m),
           NEW i \in Modules, NEW r \in Rocks
    PROVE  WinsSpot(m, i, r) <=>
               Active(m, i) = NoRock \/ r = Active(m, i) \/ Beats(r, Active(m, i))
<1>1. CurrentProvider(m, i) = Active(m, i) /\ i \in Items
  BY SeesActive DEF Modules
<1>2. Active(m, i) \in Rocks \cup {NoRock}
  BY <1>1, ActiveType
<1> QED
  BY <1>1, <1>2, CatalogAssumption DEF WinsSpot, Beats

(* A module file of a rock is one artifact of it.                          *)
LEMMA OneArtifact ==
    ASSUME PlainCatalog, NEW r \in Rocks, NEW v \in WorkOf(r), NEW w \in WorkOf(r),
           v[2] = w[2], w[2] \in ModTarget
    PROVE  v = w /\ w[2] \in Ships(r)
<1>1. w[2][1] # "bin"
  BY DEF ModTarget
<1>2. (v = <<1, v[2]>> /\ v[2] \in Declared[r]) \/ (v = <<3, v[2]>> /\ v[2] \in Staged[r])
  BY <1>1 DEF WorkOf
<1>3. (w = <<1, w[2]>> /\ w[2] \in Declared[r]) \/ (w = <<3, w[2]>> /\ w[2] \in Staged[r])
  BY <1>1 DEF WorkOf
<1>4. Declared[r] \cap Staged[r] = {}
  BY DEF PlainCatalog
<1> QED
  BY <1>2, <1>3, <1>4 DEF Ships

-----------------------------------------------------------------------------
(* Each step of an install keeps the files of the installed rocks.         *)

LEMMA FFacts ==
    ASSUME NEW c, Clients = {c}, FInv(c)
    PROVE  /\ manifest \in Manifest /\ SoundManifest(manifest) /\ manifest.repo \subseteq Rocks
           /\ op[c] \in Op /\ op[c].rock \in Rocks
           /\ file \in [Target -> [Slot -> Content]]
           /\ pc[c] # "idle" => DeployInProgress(c)
<1>1. IInv /\ SnapshotFresh /\ c \in Clients
  BY DEF FInv, SInv
<1>2. manifest \in Manifest /\ SoundManifest(manifest)
  BY <1>1, AllManifests
<1>3. op[c] \in Op /\ file \in [Target -> [Slot -> Content]]
  BY <1>1 DEF IInv, TypeOK
<1>4. pc[c] # "idle" => DeployInProgress(c)
  BY <1>1 DEF SnapshotFresh, FInv
<1> QED
  BY <1>2, <1>3, <1>4 DEF Op, Manifest

(* A file that is not touched is kept.                                     *)
LEMMA KeptSame ==
    ASSUME manifest' = manifest, NEW c, NEW q, NEW t, file'[t] = file[t],
           Moved(c, t)' <=> Moved(c, t), Kept(c, q, t)
    PROVE  Kept(c, q, t)'
BY DEF Kept

LEMMA StartDeployFiles ==
    ASSUME PlainCatalog, NEW c, Clients = {c}, FInv(c), NEW r \in Rocks, StartDeploy(c, r)
    PROVE  FilesKept(c)'
<1>1. /\ UNCHANGED <<file, manifest>> /\ pc[c] = "idle" /\ pc'[c] = "deploy"
      /\ op'[c].rock = r /\ op'[c].todo = WorkOf(r)
  BY IdleOp DEF StartDeploy, FInv, SInv, IInv, TypeOK, Idle
<1>2. \A t \in Ships(r) : \E w \in WorkOf(r) : w[2] = t
  <2> TAKE t \in Ships(r)
  <2>1. <<1, t>> \in WorkOf(r) \/ <<3, t>> \in WorkOf(r)
    BY DEF Ships, WorkOf
  <2> QED
    BY <2>1
<1>3. \A t : ~ Moved(c, t) /\ ~ Moved(c, t)'
  BY <1>1, <1>2 DEF Moved, Takes
<1> SUFFICES ASSUME NEW q \in manifest.repo, NEW t \in Ships(q) PROVE Kept(c, q, t)'
  BY <1>1 DEF FilesKept
<1>4. Kept(c, q, t)
  BY DEF FInv, FilesKept
<1> QED
  BY <1>1, <1>3, <1>4, KeptSame

LEMMA ResolveSpotFiles ==
    ASSUME PlainCatalog, NEW c, Clients = {c}, FInv(c), NEW w \in op[c].todo, ResolveSpot(c, w)
    PROVE  FilesKept(c)'
<1> DEFINE r == op[c].rock
           t == w[2]
<1>1. /\ manifest \in Manifest /\ SoundManifest(manifest) /\ manifest.repo \subseteq Rocks
      /\ op[c] \in Op /\ r \in Rocks /\ file \in [Target -> [Slot -> Content]]
      /\ DeployInProgress(c) /\ CommandsApart(manifest) /\ FilesKept(c) /\ Ranked(manifest)
      /\ op[c].m = manifest /\ op[c].todo \subseteq WorkOf(r)
  BY FFacts DEF ResolveSpot, FInv, DeployInProgress
<1>2. /\ manifest' = manifest /\ pc[c] = "deploy" /\ pc'[c] = "copy" /\ op'[c].rock = r
      /\ op'[c].todo = op[c].todo /\ op'[c].now = w
      /\ file' = IF WinsSpot(manifest, t[2], r)
                 THEN [file EXCEPT ![t] = Preserved(manifest, t, r)] ELSE file
  BY <1>1 DEF ResolveSpot, FInv, SInv, IInv, TypeOK, Op
<1>3. t \in Target /\ r \notin {"plain", "backup", NoRock}
  BY <1>1, CatalogAssumption DEF Op, Work
<1>4. \A u \in Target : u # t => file'[u] = file[u]
  BY <1>1, <1>2
<1> HIDE DEF r, t
<1>5. \A u : u # t => (Moved(c, u)' <=> Moved(c, u))
  BY <1>2 DEF Moved, Takes, r, t
<1>6. FilesKept(c)'
  <2> SUFFICES ASSUME NEW q \in manifest.repo, NEW u \in Ships(q) PROVE Kept(c, q, u)'
    BY <1>2 DEF FilesKept
  <2>1. Kept(c, q, u) /\ q \in Rocks /\ u \in ModTarget /\ u \in Target /\ u[2] \in Modules
        /\ u[2] \in Items /\ ShipsModule(q, u[2])
    BY <1>1, ShipsFacts DEF FilesKept
  <2>2. CASE u # t
    BY <1>2, <1>4, <1>5, <2>1, <2>2, KeptSame
  <2>3. CASE u = t
    <3> DEFINE a == Active(manifest, u[2])
    <3>1. a \in Rocks /\ a # NoRock /\ CurrentProvider(manifest, u[2]) = a
      BY <1>1, <2>1, ActiveType, SeesActive DEF Ranked
    <3>2. ~ Moved(c, u)
      BY <1>2, <2>3 DEF Moved, t
    <3>3. u \in Ships(r) /\ \A v \in op[c].todo : v[2] = u => v = w
      <4>1. w \in WorkOf(r) /\ w[2] = u
        BY <1>1, <2>3 DEF t
      <4> QED
        BY <1>1, <2>1, <4>1, OneArtifact
    <3>4. Moved(c, u)' <=> Takes(r, u)
      BY <1>2, <3>3 DEF Moved, Takes
    <3>5. CASE ~ Takes(r, u)
      <4>1. file'[u] = file[u]
        BY <1>1, <1>2, <2>1, <2>3, <3>1, <3>3, <3>5 DEF Takes, Preserved, t
      <4> QED
        BY <1>2, <2>1, <3>2, <3>4, <3>5, <4>1, KeptSame
    <3>6. CASE Takes(r, u)
      <4>1. r # a /\ WinsSpot(manifest, u[2], r)
        BY <3>6 DEF Takes
      <4>2. file'[u] = Preserved(manifest, u, r)
        BY <1>1, <1>2, <2>1, <2>3, <4>1
      <4>3. CASE q = a
        <5>1. file[u]["plain"] = a
          BY <2>1, <3>2, <4>3 DEF Kept
        <5>2. file'[u] = [file[u] EXCEPT ![a] = file[u]["plain"], !["plain"] = NoRock]
          BY <3>1, <4>1, <4>2, <5>1 DEF Preserved
        <5>3. file[u] \in [Slot -> Content] /\ a \in Slot /\ a # "plain"
          BY <1>1, <2>1, <3>1, CatalogAssumption DEF Slot
        <5>4. file'[u][a] = a
          BY <5>1, <5>2, <5>3
        <5> QED
          BY <1>2, <3>4, <3>6, <4>3, <5>4 DEF Kept
      <4>4. CASE q # a
        <5>1. file[u][q] = q
          BY <2>1, <4>4 DEF Kept
        <5>2. file'[u][q] = q
          <6>1. q \in Slot /\ q # "plain" /\ file[u] \in [Slot -> Content]
            BY <1>1, <2>1, CatalogAssumption DEF Slot
          <6>2. \/ file'[u] = file[u]
                \/ file'[u] = [file[u] EXCEPT ![a] = file[u]["plain"], !["plain"] = NoRock]
            BY <3>1, <4>1, <4>2 DEF Preserved
          <6> QED
            BY <4>4, <5>1, <6>1, <6>2
        <5> QED
          BY <1>2, <4>4, <5>2 DEF Kept
      <4> QED
        BY <4>3, <4>4
    <3> QED
      BY <3>5, <3>6
  <2> QED
    BY <2>2, <2>3
<1> QED
  BY <1>6

LEMMA CopyFileFiles ==
    ASSUME PlainCatalog, NEW c, Clients = {c}, FInv(c), CopyFile(c)
    PROVE  FilesKept(c)'
<1> DEFINE r == op[c].rock
           w == op[c].now
           t == w[2]
           s == op[c].slot
<1>1. /\ manifest \in Manifest /\ SoundManifest(manifest) /\ manifest.repo \subseteq Rocks
      /\ op[c] \in Op /\ r \in Rocks /\ file \in [Target -> [Slot -> Content]]
      /\ CommandsApart(manifest) /\ FilesKept(c) /\ Ranked(manifest)
      /\ op[c].todo \subseteq WorkOf(r) /\ w \in op[c].todo
      /\ s = IF WinsSpot(manifest, t[2], r) THEN "plain" ELSE r
  BY FFacts DEF CopyFile, FInv, DeployInProgress
<1>2. /\ manifest' = manifest /\ pc[c] = "copy" /\ pc'[c] = "deploy" /\ op'[c].rock = r
      /\ op'[c].todo = op[c].todo \ {w} /\ file' = [file EXCEPT ![t][s] = r]
  BY <1>1 DEF CopyFile, FInv, SInv, IInv, TypeOK, Op
<1>3. t \in Target /\ s \in Slot /\ r \in Slot /\ r # "plain"
  BY <1>1, CatalogAssumption DEF Op, Work, Slot
<1>4. /\ \A u \in Target : u # t => file'[u] = file[u]
      /\ file'[t][s] = r /\ \A x \in Slot : x # s => file'[t][x] = file[t][x]
  BY <1>1, <1>2, <1>3
<1> HIDE DEF r, w, t, s
<1>5. \A u : u # t => (Moved(c, u)' <=> Moved(c, u))
  BY <1>2 DEF Moved, Takes, r, t, w
<1>6. t \in ModTarget => t \in Ships(r) /\ \A v \in op[c].todo : v[2] = t => v = w
  BY <1>1, OneArtifact DEF t
<1>7. t \in ModTarget => (Moved(c, t) <=> Takes(r, t))
  BY <1>2, <1>6 DEF Moved, r, w
<1>8. FilesKept(c)'
  <2> SUFFICES ASSUME NEW q \in manifest.repo, NEW u \in Ships(q) PROVE Kept(c, q, u)'
    BY <1>2 DEF FilesKept
  <2>1. Kept(c, q, u) /\ q \in Rocks /\ u \in ModTarget /\ u \in Target /\ u[2] \in Modules
        /\ u[2] \in Items /\ ShipsModule(q, u[2])
    BY <1>1, ShipsFacts DEF FilesKept
  <2>2. CASE u # t
    BY <1>2, <1>4, <1>5, <2>1, <2>2, KeptSame
  <2>3. CASE u = t
    <3> DEFINE a == Active(manifest, u[2])
    <3>1. /\ a # NoRock /\ q \in Slot /\ q # "plain"
          /\ WinsSpot(manifest, u[2], r) <=> r = a \/ Beats(r, a)
      BY <1>1, <2>1, WinsRule, CatalogAssumption DEF Ranked, Slot
    <3>2. Moved(c, u)' <=> Takes(r, u)
      <4>1. \A v \in op'[c].todo : v[2] # u
        BY <1>2, <1>6, <2>1, <2>3
      <4> QED
        BY <1>2, <4>1 DEF Moved, Takes
    <3>3. Moved(c, u) <=> Takes(r, u)
      BY <1>7, <2>1, <2>3
    <3> DEFINE x == IF q = a /\ ~ Takes(r, u) THEN "plain" ELSE q
    <3>4. file[u][x] = q
      BY <2>1, <3>3 DEF Kept
    <3>5. x \in Slot
      BY <3>1 DEF Slot
    <3>6. file'[u][x] = q
      <4>1. CASE x # s
        BY <1>4, <2>3, <3>4, <3>5, <4>1
      <4>2. CASE x = s
        <5>1. u \in Ships(r)
          BY <1>6, <2>1, <2>3
        <5>2. q = r
          BY <1>1, <1>3, <2>3, <3>1, <4>2, <5>1 DEF Takes
        <5> QED
          BY <1>4, <2>3, <4>2, <5>2
      <4> QED
        BY <4>1, <4>2
    <3> QED
      BY <1>2, <3>2, <3>6 DEF Kept
  <2> QED
    BY <2>2, <2>3
<1> QED
  BY <1>8

LEMMA WriteRockFiles ==
    ASSUME NEW c, Clients = {c}, FInv(c), WriteRock(c)
    PROVE  FilesKept(c)'
<1>1. /\ UNCHANGED <<file, manifest, op>> /\ pc[c] = "deploy" /\ pc'[c] = "record"
      /\ op[c].todo = {}
  BY DEF WriteRock, FInv, SInv, IInv, TypeOK
<1>2. \A t : Moved(c, t)' <=> Moved(c, t)
  BY <1>1 DEF Moved, Takes
<1> SUFFICES ASSUME NEW q \in manifest.repo, NEW t \in Ships(q) PROVE Kept(c, q, t)'
  BY <1>1 DEF FilesKept
<1>3. Kept(c, q, t)
  BY DEF FInv, FilesKept
<1> QED
  BY <1>1, <1>2, <1>3, KeptSame

(* Publishing an install hands each plain path it took to it.              *)
LEMMA WriteTreeFiles ==
    ASSUME PlainCatalog, NEW c, Clients = {c}, FInv(c), WriteTree(c)
    PROVE  /\ pc'[c] = "idle" /\ Ranked(manifest') /\ CommandsApart(manifest')
           /\ FilesKept(c)'
<1> DEFINE r == op[c].rock
           keys == op[c].keys
           a(i) == Active(manifest, i)
           b(i) == Active(manifest', i)
<1>1. /\ manifest \in Manifest /\ SoundManifest(manifest) /\ manifest.repo \subseteq Rocks
      /\ r \in Rocks /\ DeployInProgress(c) /\ CommandsApart(manifest) /\ FilesKept(c)
      /\ Ranked(manifest) /\ Placed(c) /\ op[c].todo = {} /\ pc[c] = "record"
  BY FFacts DEF WriteTree, FInv, DeployInProgress
<1>2. /\ manifest' = Recorded(manifest, r, keys) /\ file' = file /\ pc'[c] = "idle"
  BY <1>1 DEF WriteTree, Finish, DeployInProgress, FInv, SInv, IInv, TypeOK
<1>3. manifest'.repo = manifest.repo \cup {r}
  BY <1>2 DEF Recorded
<1>4. \A i \in Items : b(i) = IF i \in ModuleIndex(keys) THEN r ELSE a(i)
  BY <1>1, <1>2, RecordedActive
<1>5. \A i \in Items : i \in ModuleIndex(keys) <=> ShipsModule(r, i) /\ WinsSpot(manifest, i, r)
  <2>1. \A i \in ModuleIndex(keys) : ShipsModule(r, i) /\ WinsSpot(manifest, i, r)
    BY <1>1 DEF ModuleIndex, DeployInProgress, ShipsModule, ModTarget
  <2>2. \A i \in Items : ShipsModule(r, i) /\ WinsSpot(manifest, i, r) => i \in ModuleIndex(keys)
    BY <1>1 DEF ModuleIndex, DeployInProgress, ShipsModule
  <2> QED
    BY <2>1, <2>2
<1>6. \A i \in Items : a(i) \in Rocks \cup {NoRock} /\ NoRock \notin Rocks
  BY <1>1, ActiveType, CatalogAssumption
<1>7. \A i \in Items : ShipsModule(r, i) =>
         (WinsSpot(manifest, i, r) <=> a(i) = NoRock \/ r = a(i) \/ Beats(r, a(i)))
  <2>1. \A i \in Items : ShipsModule(r, i) => i \in Modules
    BY <1>1 DEF Modules
  <2> QED
    BY <1>1, <2>1, WinsRule
<1>8. /\ \A q, p \in Rocks : q = p \/ Beats(q, p) \/ Beats(p, q)
      /\ \A q, p \in Rocks : \A t \in Ships(p) :
            Beats(q, p) /\ ShipsModule(q, t[2]) => t \in Ships(q)
  BY DEF PlainCatalog
<1>10. CommandsApart(manifest')
  <2> SUFFICES ASSUME NEW i \in Modules PROVE manifest'.prov["commands"][i] = <<>>
    BY DEF CommandsApart
  <2>1. i \in Items /\ i \notin Bins[r] /\ manifest.prov["commands"][i] = <<>>
    BY <1>1 DEF Modules, PlainCatalog, CommandsApart
  <2> QED
    BY <1>2, <2>1 DEF Recorded, Indexes
<1> HIDE DEF r, keys, a, b
<1>11. \A i \in Items : a(i) # NoRock => ShipsModule(a(i), i)
  BY <1>1 DEF Ranked, a
<1>12. \A i \in Items : \A q \in manifest.repo : ShipsModule(q, i) =>
          a(i) # NoRock /\ (q = a(i) \/ Beats(a(i), q))
  BY <1>1 DEF Ranked, a
<1>13. Ranked(manifest')
  <2> SUFFICES ASSUME NEW i \in Items
               PROVE  /\ b(i) # NoRock => ShipsModule(b(i), i)
                      /\ \A q \in manifest.repo \cup {r} : ShipsModule(q, i) =>
                            b(i) # NoRock /\ (q = b(i) \/ Beats(b(i), q))
    BY <1>3 DEF Ranked, b
  <2>1. CASE i \in ModuleIndex(keys)
    <3>1. b(i) = r /\ ShipsModule(r, i) /\ (a(i) = NoRock \/ r = a(i) \/ Beats(r, a(i)))
      BY <1>4, <1>5, <1>7, <2>1
    <3>2. ASSUME NEW q \in manifest.repo, ShipsModule(q, i) PROVE q = r \/ Beats(r, q)
      <4>1. a(i) \in Rocks /\ (q = a(i) \/ Beats(a(i), q)) /\ q \in Rocks
        BY <1>1, <1>6, <1>12, <3>2
      <4> QED
        BY <1>1, <1>6, <3>1, <4>1, BeatsOrder DEF r
    <3> QED
      BY <1>1, <1>6, <3>1, <3>2 DEF r
  <2>2. CASE i \notin ModuleIndex(keys)
    <3>1. b(i) = a(i)
      BY <1>4, <2>2
    <3>2. ShipsModule(r, i) => a(i) # NoRock /\ Beats(a(i), r)
      BY <1>1, <1>5, <1>6, <1>7, <1>8, <2>2 DEF r
    <3> QED
      BY <1>11, <1>12, <3>1, <3>2
  <2> QED
    BY <2>1, <2>2
<1>14. FilesKept(c)'
  <2> SUFFICES ASSUME NEW q \in manifest.repo \cup {r}, NEW t \in Ships(q)
               PROVE  file[t][IF q = b(t[2]) THEN "plain" ELSE q] = q
    BY <1>2, <1>3 DEF FilesKept, Kept, Moved, b
  <2> DEFINE i == t[2]
  <2>1. q \in Rocks /\ i \in Items /\ ShipsModule(q, i)
    BY <1>1, ShipsFacts DEF r
  <2>2. t \in Ships(r) =>
           file[t][IF WinsSpot(manifest, i, r) THEN "plain" ELSE r] = r
    BY <1>1 DEF Placed, r
  <2>3. q \in manifest.repo =>
           file[t][IF q = a(i) /\ ~ Takes(r, t) THEN "plain" ELSE q] = q
    BY <1>1 DEF FilesKept, Kept, Moved, r, a
  <2>4. Takes(r, t) <=> t \in Ships(r) /\ WinsSpot(manifest, i, r) /\ r # a(i)
    BY DEF Takes, a
  <2>5. t \in Ships(r) => ShipsModule(r, i)
    BY <1>1, ShipsFacts DEF r
  <2> HIDE DEF i
  <2>6. CASE i \in ModuleIndex(keys)
    <3>1. b(i) = r /\ ShipsModule(r, i) /\ WinsSpot(manifest, i, r)
          /\ (a(i) = NoRock \/ r = a(i) \/ Beats(r, a(i)))
      BY <1>4, <1>5, <1>7, <2>1, <2>6
    <3>2. CASE q = r
      BY <2>2, <3>1, <3>2 DEF i
    <3>3. CASE q # r /\ q # a(i)
      BY <2>3, <3>1, <3>3 DEF i
    <3>4. CASE q # r /\ q = a(i)
      <4>1. t \in Ships(r)
        BY <1>1, <1>6, <1>8, <2>1, <3>1, <3>4 DEF r, i
      <4> QED
        BY <2>3, <2>4, <3>1, <3>4, <4>1 DEF i
    <3> QED
      BY <3>2, <3>3, <3>4
  <2>7. CASE i \notin ModuleIndex(keys)
    <3>1. b(i) = a(i) /\ (ShipsModule(r, i) => ~ WinsSpot(manifest, i, r) /\ r # a(i))
      BY <1>4, <1>5, <1>7, <2>1, <2>7
    <3>2. CASE q = r
      BY <2>1, <2>2, <3>1, <3>2 DEF i
    <3>3. CASE q # r
      BY <2>3, <2>4, <2>5, <3>1, <3>3 DEF i
    <3> QED
      BY <3>2, <3>3
  <2> QED
    BY <2>6, <2>7
<1> QED
  BY <1>2, <1>10, <1>13, <1>14

LEMMA InstallsInv ==
    ASSUME PlainCatalog, MaxFailures = 0, NEW c, Clients = {c}
    PROVE  InstallsOnly => []FInv(c)
<1>1. Init => FInv(c)
  <2> SUFFICES ASSUME Init PROVE FInv(c)
    OBVIOUS
  <2>1. SInv /\ pc[c] = "idle" /\ failures = 0 /\ manifest = EmptyManifest
    BY InitInv DEF SInv, SnapshotFresh, Init
  <2>2. \A i \in Items : Active(EmptyManifest, i) = NoRock
    BY DEF EmptyManifest, Active, Indexes
  <2>3. Ranked(manifest) /\ CommandsApart(manifest)
    BY <2>1, <2>2 DEF Ranked, CommandsApart, EmptyManifest, Indexes, Modules
  <2> QED
    BY <2>1, <2>3 DEF FInv, FilesKept, Placed, EmptyManifest
<1>2. FInv(c) /\ [Installing]_vars => FInv(c)'
  <2> SUFFICES ASSUME FInv(c), [Installing]_vars PROVE FInv(c)'
    OBVIOUS
  <2>1. c \in Clients /\ SInv /\ [Next]_vars
    BY DEF FInv, Next, Installing
  <2>2. SInv' /\ Placed(c)'
    BY <2>1, NextSnapshot, NextPlaced DEF FInv
  <2>3. ASSUME UNCHANGED <<manifest, failures>>, FilesKept(c)',
               pc'[c] \in {"deploy", "copy", "record"}
        PROVE  FInv(c)'
    BY <2>2, <2>3 DEF FInv, Ranked, CommandsApart
  <2>4. CASE \E r \in Rocks : StartDeploy(c, r)
    BY <2>1, <2>3, <2>4, StartDeployFiles DEF StartDeploy, SInv, IInv, TypeOK
  <2>5. CASE \E w \in op[c].todo : ResolveSpot(c, w)
    BY <2>1, <2>3, <2>5, ResolveSpotFiles DEF ResolveSpot, SInv, IInv, TypeOK
  <2>6. CASE CopyFile(c)
    BY <2>1, <2>3, <2>6, CopyFileFiles DEF CopyFile, SInv, IInv, TypeOK
  <2>7. CASE CopyTorn(c)
    BY <2>7 DEF CopyTorn, FInv
  <2>8. CASE WriteRock(c)
    BY <2>1, <2>3, <2>8, WriteRockFiles DEF WriteRock, SInv, IInv, TypeOK
  <2>9. CASE WriteTree(c)
    BY <2>2, <2>9, WriteTreeFiles DEF WriteTree, FInv
  <2>10. CASE UNCHANGED vars
    BY <2>2, <2>10 DEF vars, FInv, Ranked, CommandsApart, FilesKept, Kept, Moved, Takes, Placed
  <2> QED
    BY <2>4, <2>5, <2>6, <2>7, <2>8, <2>9, <2>10 DEF Installing, Deploying
<1> QED
  BY <1>1, <1>2, PTL DEF InstallsOnly

(* ActiveIsBest: in whatever order rocks are installed, the active provider *)
(* of a module is the installed rock of least name and greatest version     *)
(* that ships it.                                                           *)
THEOREM InstallsPickBest ==
    ASSUME PlainCatalog, MaxFailures = 0, NEW c, Clients = {c}
    PROVE  InstallsOnly => []ActiveIsBest
<1>1. FInv(c) => ActiveIsBest
  <2> SUFFICES ASSUME FInv(c), NEW i \in Items,
                      NEW p \in manifest.repo, ShipsModule(p, i)
               PROVE  /\ Active(manifest, i) \in manifest.repo
                      /\ ShipsModule(Active(manifest, i), i)
                      /\ \A q \in manifest.repo : ShipsModule(q, i) =>
                            q = Active(manifest, i) \/ Beats(Active(manifest, i), q)
    BY DEF ActiveIsBest
  <2>1. manifest \in Manifest /\ SoundManifest(manifest) /\ Ranked(manifest)
    BY FFacts DEF FInv
  <2> QED
    BY <2>1, ActiveType DEF Ranked
<1> QED
  BY <1>1, InstallsInv, PTL

(* ActiveServed: the active provider of a module has its file at the plain  *)
(* path.                                                                    *)
THEOREM InstallsServeActive ==
    ASSUME PlainCatalog, MaxFailures = 0, NEW c, Clients = {c}
    PROVE  InstallsOnly => []ActiveServed
<1>1. FInv(c) => ActiveServed
  <2> SUFFICES ASSUME FInv(c), Quiet, NEW i \in Items, Active(manifest, i) # NoRock
               PROVE  \E s \in {"lua", "lib"} :
                         file[<<s, i>>]["plain"] = Active(manifest, i)
    BY DEF ActiveServed
  <2> DEFINE a == Active(manifest, i)
  <2>1. /\ manifest \in Manifest /\ SoundManifest(manifest) /\ Ranked(manifest)
        /\ FilesKept(c) /\ pc[c] = "idle"
    BY FFacts DEF FInv, Quiet
  <2>2. a \in manifest.repo /\ ShipsModule(a, i)
    BY <2>1, ActiveType DEF Ranked
  <2>3. PICK s \in {"lua", "lib"} : <<s, i>> \in Ships(a)
    BY <2>2 DEF ShipsModule
  <2>4. Kept(c, a, <<s, i>>)
    BY <2>1, <2>2, <2>3 DEF FilesKept
  <2>5. file[<<s, i>>]["plain"] = a
    BY <2>1, <2>4 DEF Kept, Moved
  <2> QED
    BY <2>5
<1> QED
  BY <1>1, InstallsInv, PTL

(* NoModuleLost: every installed rock still has each of its module files,   *)
(* at the plain path or under its versioned name.                           *)
THEOREM InstallsLoseNothing ==
    ASSUME PlainCatalog, MaxFailures = 0, NEW c, Clients = {c}
    PROVE  InstallsOnly => []NoModuleLost
<1>1. FInv(c) => NoModuleLost
  <2> SUFFICES ASSUME FInv(c), NEW r \in manifest.repo, NEW t \in Ships(r)
               PROVE  r \in {file[t]["plain"], file[t][r]}
    BY DEF NoModuleLost
  <2>1. Kept(c, r, t)
    BY DEF FInv, FilesKept
  <2>2. \E x \in {"plain", r} : file[t][x] = r
    BY <2>1 DEF Kept
  <2> QED
    BY <2>2
<1> QED
  BY <1>1, InstallsInv, PTL
-----------------------------------------------------------------------------
(* Removals from a tree in which no operation has failed.                  *)

(* Each provider of a module outranks the ones behind it in the list.      *)
Decreasing(list) == \A j, k \in DOMAIN list : j < k => Beats(list[j], list[k])

ListsDecrease(m) == \A i \in Items : Decreasing(m.prov["modules"][i])

(* Dropping a provider keeps the order of the others, and the next active   *)
(* provider is one that the dropped one outranked.                          *)
LEMMA WithoutDecreasing ==
    ASSUME NEW list \in Seq(Rocks), NEW r, Decreasing(list), Distinct(list)
    PROVE  /\ Decreasing(Without(list, r))
           /\ \A j \in DOMAIN Without(list, r) :
                 \E i \in DOMAIN list :
                    /\ Without(list, r)[j] = list[i]
                    /\ list[1] = r => i > 1
<1>1. CASE ~ Holds(list, r)
  <2>1. Without(list, r) = list /\ (1 \in DOMAIN list => list[1] # r)
    BY <1>1 DEF Without, Holds
  <2>2. \A j \in DOMAIN list : j \in Nat /\ 1 \in DOMAIN list
    OBVIOUS
  <2> QED
    BY <2>1, <2>2
<1>2. CASE Holds(list, r)
  <2> DEFINE k == CHOOSE k \in DOMAIN list : list[k] = r
             n == Len(list) - 1
             rest == [j \in 1..n |-> IF j < k THEN list[j] ELSE list[j + 1]]
  <2>1. k \in DOMAIN list /\ list[k] = r
    BY <1>2 DEF Holds
  <2>2. DOMAIN list = 1..Len(list) /\ Len(list) \in Nat
    OBVIOUS
  <2>3. Without(list, r) = rest
    BY <1>2 DEF Without
  <2> HIDE DEF k
  <2>4. DOMAIN rest = 1..n /\ n \in Nat
    BY <2>1, <2>2
  <2>5. Decreasing(rest)
    BY <2>1, <2>2, <2>4 DEF Decreasing
  <2>6. list[1] = r => k = 1
    BY <2>1, <2>2 DEF Distinct
  <2>7. \A j \in 1..n : \E i \in DOMAIN list : rest[j] = list[i] /\ (list[1] = r => i > 1)
    <3> TAKE j \in 1..n
    <3>1. CASE j < k
      BY <2>1, <2>2, <2>6, <3>1
    <3>2. CASE ~ (j < k)
      BY <2>1, <2>2, <3>2
    <3> QED
      BY <3>1, <3>2
  <2> QED
    BY <2>3, <2>4, <2>5, <2>7
<1> QED
  BY <1>1, <1>2

LEMMA UpsertDecreasing ==
    ASSUME NEW list \in Seq(Rocks), NEW r \in Rocks, Decreasing(list), Distinct(list),
           list # <<>> => r = list[1] \/ Beats(r, list[1])
    PROVE  Decreasing(UpsertProvider(list, r))
<1> DEFINE rest == Without(list, r)
           out == [j \in 1..(Len(rest) + 1) |-> IF j = 1 THEN r ELSE rest[j - 1]]
<1>1. /\ rest \in Seq(Rocks) /\ Decreasing(rest)
      /\ \A j \in DOMAIN rest : rest[j] # r /\ \E i \in DOMAIN list : rest[j] = list[i]
  BY WithoutList, WithoutDecreasing
<1>2. UpsertProvider(list, r) = out
  BY DEF UpsertProvider
<1> HIDE DEF rest
<1>3. Len(rest) \in Nat /\ DOMAIN rest = 1..Len(rest) /\ DOMAIN out = 1..(Len(rest) + 1)
  BY <1>1
<1>4. \A j \in DOMAIN rest : Beats(r, rest[j])
  <2> SUFFICES ASSUME NEW j \in DOMAIN rest PROVE Beats(r, rest[j])
    OBVIOUS
  <2>1. PICK i \in DOMAIN list : rest[j] = list[i] /\ rest[j] # r
    BY <1>1
  <2>2. i \in Nat /\ i >= 1 /\ 1 \in DOMAIN list /\ list # <<>>
        /\ list[1] \in Rocks /\ list[i] \in Rocks
    BY <2>1
  <2>3. CASE i = 1
    BY <2>1, <2>2, <2>3
  <2>4. CASE i > 1
    <3>1. Beats(list[1], list[i])
      BY <2>2, <2>4 DEF Decreasing
    <3> QED
      BY <2>1, <2>2, <3>1, BeatsOrder
  <2> QED
    BY <2>2, <2>3, <2>4
<1>5. Decreasing(out)
  <2> SUFFICES ASSUME NEW j \in 1..(Len(rest) + 1), NEW k \in 1..(Len(rest) + 1), j < k
               PROVE  Beats(out[j], out[k])
    BY <1>3 DEF Decreasing
  <2>1. k - 1 \in DOMAIN rest /\ out[k] = rest[k - 1]
    BY <1>3
  <2>2. CASE j = 1
    BY <1>4, <2>1, <2>2
  <2>3. CASE j # 1
    <3>1. j - 1 \in DOMAIN rest /\ out[j] = rest[j - 1] /\ j - 1 < k - 1
      BY <1>3, <2>3
    <3> QED
      BY <1>1, <2>1, <3>1 DEF Decreasing
  <2> QED
    BY <2>2, <2>3
<1> QED
  BY <1>2, <1>5

(* A module is no command, so no command list hides its provider.          *)
LEMMA CommandsEmpty ==
    ASSUME PlainCatalog, NEW m \in Manifest, Honest(m) PROVE CommandsApart(m)
<1> SUFFICES ASSUME NEW i \in Modules PROVE m.prov["commands"][i] = <<>>
  BY DEF CommandsApart
<1> DEFINE list == m.prov["commands"][i]
<1>1. i \in Items /\ list \in Seq(Rocks) /\ \A k \in DOMAIN list : i \in Bins[list[k]]
  BY DEF Modules, Manifest, Indexes, Honest
<1>2. \A r \in Rocks : i \notin Bins[r]
  BY DEF PlainCatalog
<1> HIDE DEF list
<1>3. list # <<>> => 1 \in DOMAIN list /\ list[1] \in Rocks
  BY <1>1
<1> QED
  BY <1>1, <1>2, <1>3 DEF list

LEMMA RecordedDecreasing ==
    ASSUME PlainCatalog, NEW m \in Manifest, SoundManifest(m), Honest(m), ListsDecrease(m),
           NEW r \in Rocks, NEW keys,
           \A i \in ModuleIndex(keys) : ShipsModule(r, i) /\ WinsSpot(m, i, r)
    PROVE  ListsDecrease(Recorded(m, r, keys))
<1> SUFFICES ASSUME NEW i \in Items
             PROVE  Decreasing(Recorded(m, r, keys).prov["modules"][i])
  BY DEF ListsDecrease
<1> DEFINE list == m.prov["modules"][i]
<1>1. list \in Seq(Rocks) /\ Distinct(list) /\ Decreasing(list)
  BY DEF Manifest, SoundManifest, Indexes, ListsDecrease
<1>2. Recorded(m, r, keys).prov["modules"][i] =
          IF i \in ModuleIndex(keys) THEN UpsertProvider(list, r) ELSE list
  BY DEF Recorded, Indexes
<1>3. CASE i \notin ModuleIndex(keys)
  BY <1>1, <1>2, <1>3
<1>4. CASE i \in ModuleIndex(keys)
  <2>1. i \in Modules /\ WinsSpot(m, i, r) /\ CommandsApart(m)
    BY <1>4, CommandsEmpty DEF Modules
  <2>2. Active(m, i) = NoRock \/ r = Active(m, i) \/ Beats(r, Active(m, i))
    BY <2>1, WinsRule
  <2>3. Active(m, i) = IF list = <<>> THEN NoRock ELSE Head(list)
    BY DEF Active
  <2> HIDE DEF list
  <2>4. list # <<>> => Head(list) = list[1] /\ list[1] \in Rocks /\ list[1] # NoRock
    BY <1>1, CatalogAssumption
  <2>5. Decreasing(UpsertProvider(list, r))
    BY <1>1, <2>2, <2>3, <2>4, UpsertDecreasing
  <2> QED
    BY <1>2, <1>4, <2>5
<1> QED
  BY <1>3, <1>4

LEMMA RemovedDecreasing ==
    ASSUME NEW m \in Manifest, SoundManifest(m), ListsDecrease(m), NEW r, NEW R
    PROVE  ListsDecrease([repo |-> R, prov |-> RemoveProvider(m.prov, r)])
<1> DEFINE n == [repo |-> R, prov |-> RemoveProvider(m.prov, r)]
<1> SUFFICES ASSUME NEW i \in Items PROVE Decreasing(n.prov["modules"][i])
  BY DEF ListsDecrease
<1> DEFINE list == m.prov["modules"][i]
<1>1. list \in Seq(Rocks) /\ Distinct(list) /\ Decreasing(list)
  BY DEF Manifest, SoundManifest, Indexes, ListsDecrease
<1>2. n.prov["modules"][i] = Without(list, r)
  BY DEF RemoveProvider, Indexes
<1> HIDE DEF list, n
<1> QED
  BY <1>1, <1>2, WithoutDecreasing

(* Removing the active provider of a module promotes one it outranked.     *)
LEMMA RemovedPromotes ==
    ASSUME NEW m \in Manifest, SoundManifest(m), Honest(m), ListsDecrease(m), NEW r \in Rocks,
           NEW R, NEW i \in Items, Active(m, i) = r
    PROVE  LET b == Active([repo |-> R, prov |-> RemoveProvider(m.prov, r)], i)
           IN b = NoRock \/ (b \in Rocks /\ Beats(r, b) /\ ShipsModule(b, i))
<1> DEFINE n == [repo |-> R, prov |-> RemoveProvider(m.prov, r)]
           list == m.prov["modules"][i]
           rest == Without(list, r)
<1>1. /\ list \in Seq(Rocks) /\ Distinct(list) /\ Decreasing(list)
      /\ \A k \in DOMAIN list : ShipsModule(list[k], i)
  BY DEF Manifest, SoundManifest, Indexes, ListsDecrease, Honest
<1>2. n.prov["modules"][i] = rest
  BY DEF RemoveProvider, Indexes
<1>3. Active(n, i) = IF rest = <<>> THEN NoRock ELSE Head(rest)
  BY <1>2 DEF Active
<1>4. list # <<>> /\ Head(list) = r
  BY CatalogAssumption DEF Active
<1> HIDE DEF list, n
<1>5. list[1] = r /\ 1 \in DOMAIN list
  BY <1>1, <1>4
<1>6. /\ rest \in Seq(Rocks)
      /\ \A j \in DOMAIN rest : \E k \in DOMAIN list : rest[j] = list[k] /\ k > 1
  BY <1>1, <1>5, WithoutList, WithoutDecreasing
<1> HIDE DEF rest
<1>7. CASE rest = <<>>
  BY <1>3, <1>7 DEF n
<1>8. CASE rest # <<>>
  <2>1. Head(rest) = rest[1] /\ 1 \in DOMAIN rest /\ rest[1] \in Rocks
    BY <1>6, <1>8
  <2>2. PICK k \in DOMAIN list : rest[1] = list[k] /\ k > 1
    BY <1>6, <2>1
  <2>3. Beats(r, rest[1]) /\ ShipsModule(rest[1], i)
    BY <1>1, <1>5, <2>2 DEF Decreasing
  <2> QED
    BY <1>3, <1>8, <2>1, <2>3 DEF n
<1> QED
  BY <1>7, <1>8

-----------------------------------------------------------------------------
(* The manifest an operation would publish if it ended now.                *)
View(c) == IF pc[c] = "idle" THEN manifest ELSE op[c].m

(* The install in progress has put its file at the plain path of t.        *)
Copied(c, t) ==
    /\ pc[c] \in {"deploy", "copy", "record"}
    /\ t \in Ships(op[c].rock)
    /\ WinsSpot(manifest, t[2], op[c].rock)
    /\ \A w \in op[c].todo : w[2] # t

(* What the tree knows of module file t of rock q.  The plain path of the   *)
(* active provider holds its file or nothing, the versioned path of a rock  *)
(* holds its file or nothing, and whoever has the plain path lists it.      *)
Tidy(c, q, t) ==
    /\ q = Active(View(c), t[2]) =>
          \/ file[t]["plain"] \in {q, NoRock}
          \/ Copied(c, t) /\ file[t]["plain"] = op[c].rock
    /\ file[t][q] \in {q, NoRock}
    /\ file[t]["plain"] = q =>
          \/ pc[c] = "unlink" /\ op[c].rock = q /\ <<t, "plain">> \in op[c].keys
          \/ ~ (pc[c] = "unlink" /\ op[c].rock = q) /\ <<t, "plain">> \in rockManifest[q]
          \/ Copied(c, t) /\ op[c].rock = q /\ <<t, "plain">> \in op[c].keys

TreeTidy(c) == failures = 0 => \A q \in Rocks : \A t \in Ships(q) : Tidy(c, q, t)

CleanInv(c) ==
    /\ RemovalInv(c)
    /\ Placed(c)
    /\ ListsDecrease(manifest)
    /\ ListsDecrease(op[c].m)
    /\ pc[c] = "record" => rockManifest[op[c].rock] = op[c].keys
    /\ TreeTidy(c)

LEMMA CleanFacts ==
    ASSUME PlainCatalog, NEW c, Clients = {c}, CleanInv(c)
    PROVE  /\ c \in Clients /\ TypeOK /\ SInv /\ RemovalInv(c)
           /\ manifest \in Manifest /\ SoundManifest(manifest) /\ Honest(manifest)
           /\ CommandsApart(manifest)
           /\ op[c].m \in Manifest /\ SoundManifest(op[c].m) /\ Honest(op[c].m)
           /\ op[c] \in Op /\ op[c].rock \in Rocks /\ failures \in Nat
           /\ file \in [Target -> [Slot -> Content]]
           /\ KeysListed(c) /\ TreeTidy(c)
           /\ ListsDecrease(manifest) /\ ListsDecrease(op[c].m)
<1>1. RemovalInv(c) /\ SInv /\ IInv /\ TypeOK /\ c \in Clients
  BY DEF CleanInv, RemovalInv, SInv, IInv
<1>2. /\ manifest \in Manifest /\ SoundManifest(manifest) /\ Honest(manifest)
      /\ op[c].m \in Manifest /\ SoundManifest(op[c].m) /\ Honest(op[c].m) /\ KeysListed(c)
  BY <1>1, AllManifests DEF RemovalInv, HonestManifests
<1>3. op[c] \in Op /\ op[c].rock \in Rocks /\ failures \in Nat
      /\ file \in [Target -> [Slot -> Content]]
  BY <1>1 DEF TypeOK, Op
<1> QED
  BY <1>1, <1>2, <1>3, CommandsEmpty DEF CleanInv

(* A rock that loses the path of its file loses it to a rock that has a     *)
(* file there too.                                                          *)
LEMMA LosesTo ==
    ASSUME PlainCatalog, NEW m \in Manifest, SoundManifest(m), Honest(m), NEW r \in Rocks,
           NEW t \in Ships(r), ~ WinsSpot(m, t[2], r)
    PROVE  LET a == Active(m, t[2]) IN a \in Rocks /\ a # r /\ t \in Ships(a)
<1> DEFINE a == Active(m, t[2])
<1>1. t[2] \in Modules /\ t[2] \in Items
  BY ShipsFacts
<1>2. a # NoRock /\ a # r /\ ~ Beats(r, a)
  BY <1>1, CommandsEmpty, WinsRule
<1>3. a \in Rocks
  BY <1>1, <1>2, ActiveType
<1>4. Beats(a, r)
  BY <1>2, <1>3 DEF PlainCatalog
<1>5. ShipsModule(a, t[2])
  <2> DEFINE list == m.prov["modules"][t[2]]
  <2>1. list \in Seq(Rocks) /\ \A k \in DOMAIN list : ShipsModule(list[k], t[2])
    BY <1>1 DEF Manifest, Indexes, Honest
  <2>2. list # <<>> /\ a = Head(list)
    BY <1>2 DEF Active
  <2> HIDE DEF list, a
  <2>3. 1 \in DOMAIN list /\ Head(list) = list[1]
    BY <2>1, <2>2
  <2> QED
    BY <2>1, <2>2, <2>3
<1> QED
  BY <1>2, <1>3, <1>4, <1>5 DEF PlainCatalog

(* A file that is not touched by a step of an install stays tidy.          *)
LEMMA TidySame ==
    ASSUME NEW c, NEW q, NEW t, Tidy(c, q, t), file'[t] = file[t],
           rockManifest'[q] = rockManifest[q], View(c)' = View(c),
           pc[c] # "unlink", pc'[c] # "unlink", op'[c].rock = op[c].rock,
           op[c].keys \subseteq op'[c].keys, Copied(c, t) => Copied(c, t)'
    PROVE  Tidy(c, q, t)'
BY DEF Tidy

(* A step that starts or ends an operation, or lists the files to unlink.  *)
LEMMA TidyCalm ==
    ASSUME NEW c, NEW q, NEW t, Tidy(c, q, t), UNCHANGED <<file, rockManifest>>,
           View(c)' = View(c), ~ Copied(c, t), pc[c] # "unlink",
           pc'[c] = "unlink" => op'[c].keys = rockManifest[op'[c].rock]
    PROVE  Tidy(c, q, t)'
BY DEF Tidy

LEMMA StartDeployTidy ==
    ASSUME PlainCatalog, NEW c, Clients = {c}, CleanInv(c), NEW r \in Rocks, StartDeploy(c, r)
    PROVE  TreeTidy(c)'
<1>1. c \in Clients /\ TypeOK /\ TreeTidy(c)
  BY CleanFacts
<1>2. /\ pc[c] = "idle" /\ pc'[c] = "deploy" /\ op'[c].m = manifest
      /\ UNCHANGED <<file, rockManifest, manifest, failures>>
  BY <1>1, StartDeployFacts
<1>3. View(c)' = View(c) /\ \A t : ~ Copied(c, t)
  BY <1>2 DEF View, Copied
<1>4. pc[c] # "unlink" /\ pc'[c] # "unlink" /\ failures' = failures
  BY <1>2
<1> SUFFICES ASSUME failures = 0, NEW q \in Rocks, NEW t \in Ships(q), Tidy(c, q, t)
             PROVE  Tidy(c, q, t)'
  BY <1>1, <1>4 DEF TreeTidy
<1> QED
  BY <1>2, <1>3, <1>4, TidyCalm

LEMMA ResolveSpotTidy ==
    ASSUME PlainCatalog, NEW c, Clients = {c}, CleanInv(c), NEW w \in op[c].todo,
           ResolveSpot(c, w)
    PROVE  TreeTidy(c)'
<1> DEFINE r == op[c].rock
           u == w[2]
<1>1. /\ c \in Clients /\ SInv /\ TreeTidy(c) /\ manifest \in Manifest
      /\ SoundManifest(manifest) /\ Honest(manifest) /\ CommandsApart(manifest)
      /\ file \in [Target -> [Slot -> Content]]
  BY CleanFacts
<1>2. /\ pc[c] = "deploy" /\ pc'[c] = "copy" /\ op'[c].m = manifest /\ op[c].m = manifest
      /\ op'[c].rock = r /\ op'[c].todo = op[c].todo /\ op'[c].keys = op[c].keys
      /\ UNCHANGED <<rockManifest, manifest, failures>>
      /\ r \in Rocks /\ w \in WorkOf(r) /\ u \in Target
      /\ \A t \in Target : t # u => file'[t] = file[t]
      /\ file'[u] = IF WinsSpot(manifest, u[2], r) THEN Preserved(manifest, u, r) ELSE file[u]
  BY <1>1, ResolveFacts
<1> HIDE DEF r, u
<1>3. View(c)' = manifest /\ View(c) = manifest
  BY <1>2 DEF View
<1>4. \A t : Copied(c, t)' <=> Copied(c, t)
  BY <1>2 DEF Copied, r
<1>5. ~ Copied(c, u)
  BY DEF Copied, u
<1> SUFFICES ASSUME failures = 0, NEW q \in Rocks, NEW t \in Ships(q), Tidy(c, q, t)
             PROVE  Tidy(c, q, t)'
  BY <1>1, <1>2 DEF TreeTidy
<1>6. t \in ModTarget /\ t \in Target /\ t[2] \in Modules
  BY ShipsFacts
<1>7. CASE file'[t] = file[t]
  <2>1. pc[c] # "unlink" /\ pc'[c] # "unlink" /\ op[c].keys \subseteq op'[c].keys
        /\ op'[c].rock = op[c].rock /\ View(c)' = View(c)
    BY <1>2, <1>3 DEF r
  <2> QED
    BY <1>2, <1>4, <1>7, <2>1, TidySame
<1>8. CASE file'[t] # file[t]
  <2> DEFINE a == Active(manifest, t[2])
             kept == IF a = NoRock THEN "backup" ELSE a
  <2>1. t = u /\ file'[t] = Preserved(manifest, t, r)
    BY <1>2, <1>6, <1>8
  <2>2. a = CurrentProvider(manifest, t[2])
    BY <1>1, <1>6, SeesActive
  <2>3. file'[t] = [file[t] EXCEPT ![kept] = file[t]["plain"], !["plain"] = NoRock]
    BY <1>8, <2>1, <2>2 DEF Preserved
  <2>4. /\ file[t] \in [Slot -> Content] /\ q \in Slot /\ kept \in Slot /\ "plain" \in Slot
        /\ kept # "plain" /\ q # "plain" /\ q # "backup" /\ q # NoRock
    <3>1. a \in Rocks \cup {NoRock}
      BY <1>1, <1>6, ActiveType DEF Modules
    <3> QED
      BY <1>1, <1>6, <3>1, CatalogAssumption DEF Slot
  <2> HIDE DEF kept
  <2>5. file'[t]["plain"] = NoRock
    BY <2>3, <2>4
  <2>6. file'[t][q] \in {q, NoRock}
    <3>1. file[t][q] \in {q, NoRock}
      BY DEF Tidy
    <3>2. CASE kept = q
      <4>1. q = Active(View(c), t[2])
        BY <1>3, <2>4, <3>2 DEF kept
      <4>2. file[t]["plain"] \in {q, NoRock}
        BY <1>5, <2>1, <4>1 DEF Tidy
      <4> QED
        BY <2>3, <2>4, <3>2, <4>2
    <3>3. CASE kept # q
      BY <2>3, <2>4, <3>1, <3>3
    <3> QED
      BY <3>2, <3>3
  <2> QED
    BY <2>4, <2>5, <2>6 DEF Tidy
<1> QED
  BY <1>7, <1>8

LEMMA CopyFileTidy ==
    ASSUME PlainCatalog, NEW c, Clients = {c}, CleanInv(c), CopyFile(c)
    PROVE  TreeTidy(c)'
<1> DEFINE r == op[c].rock
           w == op[c].now
           u == w[2]
           x == op[c].slot
<1>1. /\ c \in Clients /\ SInv /\ TreeTidy(c) /\ file \in [Target -> [Slot -> Content]]
  BY CleanFacts
<1>2. /\ pc[c] = "copy" /\ pc'[c] = "deploy" /\ op'[c].m = manifest /\ op'[c].rock = r
      /\ op'[c].todo = op[c].todo \ {w} /\ op'[c].keys = op[c].keys \cup {KeyOf(r, u, x)}
      /\ UNCHANGED <<rockManifest, manifest, failures>>
      /\ \A t \in Target : t # u => file'[t] = file[t]
      /\ file'[u][x] = r
      /\ \A s \in Slot : s # x => file'[u][s] = file[u][s]
  BY <1>1, CopyFileFacts
<1>3. /\ op[c].m = manifest /\ r \in Rocks /\ w \in WorkOf(r) /\ op[c].todo \subseteq WorkOf(r)
      /\ u \in Target /\ x = IF WinsSpot(manifest, u[2], r) THEN "plain" ELSE r
  BY <1>1, <1>2, CopyFacts DEF SInv, SnapshotFresh, DeployInProgress
<1> HIDE DEF r, w, u, x
<1>4. View(c)' = manifest /\ View(c) = manifest
  BY <1>2, <1>3 DEF View
<1>5. \A t : Copied(c, t) => Copied(c, t)'
  BY <1>2 DEF Copied, r
<1> SUFFICES ASSUME failures = 0, NEW q \in Rocks, NEW t \in Ships(q), Tidy(c, q, t)
             PROVE  Tidy(c, q, t)'
  BY <1>1, <1>2 DEF TreeTidy
<1>6. t \in ModTarget /\ t \in Target /\ q \in Slot /\ "plain" \in Slot /\ q # "plain"
      /\ r # "plain" /\ r \in Slot
  BY <1>3, ShipsFacts, CatalogAssumption DEF Slot
<1>7. CASE t # u
  <2>1. pc[c] # "unlink" /\ pc'[c] # "unlink" /\ op[c].keys \subseteq op'[c].keys
        /\ op'[c].rock = op[c].rock /\ View(c)' = View(c) /\ file'[t] = file[t]
    BY <1>2, <1>4, <1>6, <1>7 DEF r
  <2> QED
    BY <1>2, <1>5, <2>1, TidySame
<1>8. CASE t = u
  <2>1. t \in Ships(r) /\ \A v \in op'[c].todo : v[2] # t
    BY <1>2, <1>3, <1>6, <1>8, OneArtifact DEF u
  <2>2. CASE x = "plain"
    <3>1. Copied(c, t)'
      <4>1. WinsSpot(manifest, t[2], r)
        BY <1>3, <1>6, <1>8, <2>2
      <4> QED
        BY <1>2, <2>1, <4>1 DEF Copied
    <3>2. file'[t]["plain"] = r /\ file'[t][q] = file[t][q]
      BY <1>2, <1>6, <1>8, <2>2
    <3>3. <<t, "plain">> \in op'[c].keys
      BY <1>2, <1>8, <2>2 DEF KeyOf
    <3> QED
      BY <1>2, <3>1, <3>2, <3>3 DEF Tidy
  <2>3. CASE x # "plain"
    <3>1. x = r /\ ~ WinsSpot(manifest, t[2], r)
      BY <1>3, <1>8, <2>3
    <3>2. file'[t]["plain"] = file[t]["plain"] /\ file'[t][q] \in {q, file[t][q]}
      BY <1>2, <1>6, <1>8, <2>3, <3>1
    <3>3. ~ Copied(c, t)
      BY <3>1 DEF Copied, r
    <3>4. pc[c] # "unlink" /\ pc'[c] # "unlink"
      BY <1>2
    <3> QED
      BY <1>2, <1>4, <3>2, <3>3, <3>4 DEF Tidy
  <2> QED
    BY <2>2, <2>3
<1> QED
  BY <1>7, <1>8

LEMMA WriteRockTidy ==
    ASSUME PlainCatalog, NEW c, Clients = {c}, CleanInv(c), WriteRock(c)
    PROVE  TreeTidy(c)'
<1> DEFINE r == op[c].rock
<1>1. /\ c \in Clients /\ SInv /\ TreeTidy(c) /\ manifest \in Manifest
      /\ SoundManifest(manifest) /\ Honest(manifest)
  BY CleanFacts
<1>2. /\ pc[c] = "deploy" /\ pc'[c] = "record" /\ op[c].todo = {} /\ op[c].m = manifest
      /\ r \in Rocks /\ UNCHANGED <<file, manifest, op, failures>>
      /\ rockManifest'[r] = op[c].keys
      /\ \A q \in Rocks : q # r => rockManifest'[q] = rockManifest[q]
  BY <1>1, WriteRockFacts
<1>3. DeployInProgress(c)
  BY <1>1, <1>2 DEF SInv, SnapshotFresh
<1> HIDE DEF r
<1>4. View(c)' = manifest /\ View(c) = manifest
  BY <1>2 DEF View
<1>5. \A t : Copied(c, t)' <=> Copied(c, t)
  BY <1>2 DEF Copied
<1> SUFFICES ASSUME failures = 0, NEW q \in Rocks, NEW t \in Ships(q), Tidy(c, q, t)
             PROVE  Tidy(c, q, t)'
  BY <1>1, <1>2 DEF TreeTidy
<1>6. CASE q # r
  BY <1>2, <1>4, <1>5, <1>6 DEF Tidy
<1>7. CASE q = r
  <2>1. file[t]["plain"] = r => <<t, "plain">> \in op[c].keys
    <3>1. CASE WinsSpot(manifest, t[2], r)
      BY <1>2, <1>3, <1>7, <3>1 DEF DeployInProgress, r
    <3>2. CASE ~ WinsSpot(manifest, t[2], r)
      <4> DEFINE a == Active(manifest, t[2])
      <4>1. a \in Rocks /\ a # r /\ t \in Ships(a)
        BY <1>1, <1>2, <1>7, <3>2, LosesTo
      <4>2. Tidy(c, a, t)
        BY <1>1, <4>1 DEF TreeTidy
      <4>3. ~ Copied(c, t)
        BY <3>2 DEF Copied, r
      <4>4. file[t]["plain"] \in {a, NoRock}
        BY <1>4, <4>2, <4>3 DEF Tidy
      <4>5. r # NoRock
        BY <1>2, CatalogAssumption
      <4> QED
        BY <4>1, <4>4, <4>5
    <3> QED
      BY <3>1, <3>2
  <2> QED
    BY <1>2, <1>4, <1>5, <1>7, <2>1 DEF Tidy
<1> QED
  BY <1>6, <1>7

LEMMA WriteTreeTidy ==
    ASSUME PlainCatalog, NEW c, Clients = {c}, CleanInv(c), WriteTree(c)
    PROVE  TreeTidy(c)' /\ ListsDecrease(manifest')
<1> DEFINE r == op[c].rock
           keys == op[c].keys
<1>1. /\ c \in Clients /\ TypeOK /\ SInv /\ TreeTidy(c) /\ manifest \in Manifest
      /\ SoundManifest(manifest) /\ Honest(manifest) /\ ListsDecrease(manifest)
      /\ r \in Rocks
  BY CleanFacts
<1>2. /\ pc[c] = "record" /\ Finish(c) /\ UNCHANGED <<file, rockManifest, failures>>
      /\ DeployInProgress(c) /\ op[c].todo = {} /\ op[c].m = manifest
      /\ manifest' = Recorded(manifest, r, keys) /\ rockManifest[r] = keys /\ Placed(c)
  BY <1>1 DEF WriteTree, SInv, SnapshotFresh, DeployInProgress, CleanInv
<1>3. \A i \in ModuleIndex(keys) : ShipsModule(r, i) /\ WinsSpot(manifest, i, r)
  BY <1>2 DEF ModuleIndex, DeployInProgress, ShipsModule, ModTarget
<1>4. \A i \in Items :
         Active(manifest', i) = IF i \in ModuleIndex(keys) THEN r ELSE Active(manifest, i)
  BY <1>1, <1>2, RecordedActive
<1>5. ListsDecrease(manifest')
  <2>1. ListsDecrease(Recorded(manifest, r, keys))
    <3> HIDE DEF r, keys
    <3> QED
      BY <1>1, <1>3, RecordedDecreasing
  <2> QED
    BY <1>2, <2>1
<1>6. TreeTidy(c)'
  <2> SUFFICES ASSUME failures = 0, NEW q \in Rocks, NEW t \in Ships(q), Tidy(c, q, t)
               PROVE  Tidy(c, q, t)'
    BY <1>1, <1>2 DEF TreeTidy
  <2> DEFINE i == t[2]
  <2>1. i \in Items
    BY ShipsFacts
  <2>2. t \in Ships(r) /\ WinsSpot(manifest, i, r) => i \in ModuleIndex(keys)
    <3> SUFFICES ASSUME t \in Ships(r), WinsSpot(manifest, i, r) PROVE i \in ModuleIndex(keys)
      OBVIOUS
    <3>1. <<t, "plain">> \in keys
      BY <1>2 DEF DeployInProgress
    <3>2. t = <<t[1], i>> /\ t[1] \in {"lua", "lib"}
      BY <1>1, ShipsFacts DEF ModTarget
    <3> HIDE DEF i, keys
    <3> QED
      BY <2>1, <3>1, <3>2 DEF ModuleIndex
  <2>3. pc'[c] = "idle" /\ View(c)' = manifest' /\ View(c) = manifest
    BY <1>1, <1>2, FinishFacts DEF View
  <2>4. q = Active(manifest', i) => file[t]["plain"] \in {q, NoRock}
    <3> SUFFICES ASSUME q = Active(manifest', i) PROVE file[t]["plain"] \in {q, NoRock}
      OBVIOUS
    <3>1. CASE i \in ModuleIndex(keys)
      <4>1. q = r /\ WinsSpot(manifest, i, r)
        BY <1>3, <1>4, <2>1, <3>1
      <4>2. file[t]["plain"] = r
        BY <1>2, <4>1 DEF Placed
      <4> QED
        BY <4>1, <4>2
    <3>2. CASE i \notin ModuleIndex(keys)
      <4>1. q = Active(View(c), i) /\ ~ Copied(c, t)
        BY <1>4, <2>1, <2>2, <2>3, <3>2 DEF Copied
      <4> QED
        BY <4>1 DEF Tidy
    <3> QED
      BY <3>1, <3>2
  <2>5. file[t]["plain"] = q => <<t, "plain">> \in rockManifest[q]
    BY <1>2 DEF Tidy
  <2>6. file[t][q] \in {q, NoRock}
    BY DEF Tidy
  <2> QED
    BY <1>2, <2>3, <2>4, <2>5, <2>6 DEF Tidy
<1> QED
  BY <1>5, <1>6

(* A removal starts, reads a rock_manifest or publishes the manifest.      *)
LEMMA RemoveCalmTidy ==
    ASSUME PlainCatalog, NEW c, Clients = {c}, CleanInv(c),
           \/ \E R : StartRemove(c, R)
           \/ \E q \in op[c].victims : ReadRock(c, q)
           \/ WriteRemoved(c)
    PROVE  TreeTidy(c)'
<1>1. c \in Clients /\ TypeOK /\ TreeTidy(c)
  BY CleanFacts
<1>2. /\ pc[c] \in {"idle", "remove"} /\ View(c)' = View(c)
      /\ UNCHANGED <<file, rockManifest, failures>>
      /\ pc'[c] = "unlink" => op'[c].keys = rockManifest[op'[c].rock]
  <2>1. ASSUME NEW R, StartRemove(c, R)
        PROVE  /\ pc[c] = "idle" /\ pc'[c] = "remove" /\ View(c)' = View(c)
               /\ UNCHANGED <<file, rockManifest, failures>>
    BY <1>1, <2>1, StartRemoveFacts DEF View
  <2>2. ASSUME NEW q \in op[c].victims, ReadRock(c, q)
        PROVE  /\ pc[c] = "remove" /\ View(c)' = View(c)
               /\ UNCHANGED <<file, rockManifest, failures>>
               /\ op'[c].keys = rockManifest[op'[c].rock]
    BY <1>1, <2>2, ReadRockFacts DEF View
  <2>3. ASSUME WriteRemoved(c)
        PROVE  /\ pc[c] = "remove" /\ pc'[c] = "idle" /\ View(c)' = View(c)
               /\ UNCHANGED <<file, rockManifest, failures>>
    BY <1>1, <2>3, FinishFacts DEF View, WriteRemoved
  <2> QED
    BY <2>1, <2>2, <2>3
<1> SUFFICES ASSUME failures = 0, NEW q \in Rocks, NEW t \in Ships(q), Tidy(c, q, t)
             PROVE  Tidy(c, q, t)'
  BY <1>1, <1>2 DEF TreeTidy
<1>3. ~ Copied(c, t) /\ pc[c] # "unlink"
  BY <1>2 DEF Copied
<1> QED
  BY <1>2, <1>3, TidyCalm

LEMMA UnlinkTidy ==
    ASSUME PlainCatalog, NEW c, Clients = {c}, CleanInv(c), NEW k \in op[c].keys, Unlink(c, k)
    PROVE  TreeTidy(c)'
<1>1. c \in Clients /\ TypeOK /\ TreeTidy(c)
  BY CleanFacts
<1>2. /\ pc[c] = "unlink" /\ pc'[c] = "unlink" /\ op'[c].m = op[c].m
      /\ op'[c].rock = op[c].rock /\ op'[c].keys = op[c].keys \ {k}
      /\ UNCHANGED <<rockManifest, manifest, failures>>
      /\ \A u \in Target : \A x \in Slot :
            file'[u][x] = IF <<u, x>> = k THEN NoRock ELSE file[u][x]
  BY <1>1, UnlinkFacts
<1> SUFFICES ASSUME failures = 0, NEW q \in Rocks, NEW t \in Ships(q), Tidy(c, q, t)
             PROVE  Tidy(c, q, t)'
  BY <1>1, <1>2 DEF TreeTidy
<1>3. t \in Target /\ q \in Slot /\ "plain" \in Slot /\ q # NoRock
  BY ShipsFacts, CatalogAssumption DEF Slot
<1>4. /\ file'[t]["plain"] \in {file[t]["plain"], NoRock}
      /\ file'[t][q] \in {file[t][q], NoRock}
      /\ file'[t]["plain"] = q => <<t, "plain">> # k
  BY <1>2, <1>3
<1>5. View(c)' = View(c) /\ ~ Copied(c, t)
  BY <1>2 DEF View, Copied
<1> QED
  BY <1>2, <1>3, <1>4, <1>5 DEF Tidy

(* When a rock has gone, the plain paths it had as active provider are      *)
(* empty for the provider that follows it.                                  *)
LEMMA RemoveDirTidy ==
    ASSUME PlainCatalog, NEW c, Clients = {c}, CleanInv(c), RemoveDir(c)
    PROVE  TreeTidy(c)' /\ ListsDecrease(op'[c].m)
<1> DEFINE r == op[c].rock
           m == op[c].m
           n == [repo |-> m.repo \ {r}, prov |-> RemoveProvider(m.prov, r)]
<1>1. /\ c \in Clients /\ TypeOK /\ TreeTidy(c)
      /\ m \in Manifest /\ SoundManifest(m) /\ Honest(m) /\ ListsDecrease(m)
  BY CleanFacts
<1>2. /\ pc[c] = "unlink" /\ pc'[c] = "remove" /\ op[c].keys = {} /\ op'[c].m = n
      /\ r \in Rocks /\ \A q \in Rocks : q # r => rockManifest'[q] = rockManifest[q]
      /\ UNCHANGED <<file, manifest, failures>>
  BY <1>1, RemoveDirFacts
<1>3. ListsDecrease(n)
  BY <1>1, RemovedDecreasing
<1>4. \A i \in Items :
         IF Active(m, i) = r
         THEN Active(n, i) = NoRock \/ ( /\ Active(n, i) \in Rocks
                                         /\ Beats(r, Active(n, i))
                                         /\ ShipsModule(Active(n, i), i) )
         ELSE Active(n, i) = Active(m, i)
  <2> TAKE i \in Items
  <2>1. CASE Active(m, i) = r
    BY <1>1, <1>2, <2>1, RemovedPromotes
  <2>2. CASE Active(m, i) # r
    BY <1>1, <2>2, RemovedActive
  <2> QED
    BY <2>1, <2>2
<1>5. View(c) = m /\ View(c)' = n
  BY <1>2 DEF View
<1> HIDE DEF n
<1>6. ASSUME failures = 0, NEW q \in Rocks, NEW t \in Ships(q), Tidy(c, q, t)
      PROVE  Tidy(c, q, t)'
  <2>1. t[2] \in Items /\ ShipsModule(q, t[2]) /\ r # NoRock /\ q # NoRock
    BY <1>2, ShipsFacts, CatalogAssumption
  <2>2. \A p \in Rocks : t \in Ships(p) => Tidy(c, p, t)
    BY <1>1, <1>6 DEF TreeTidy
  <2>3. ~ Copied(c, t)
    BY <1>2 DEF Copied
  <2>4. t \in Ships(r) => file[t]["plain"] # r
    BY <1>2, <2>2, <2>3 DEF Tidy
  <2>5. q = Active(n, t[2]) => file[t]["plain"] \in {q, NoRock}
    <3> SUFFICES ASSUME q = Active(n, t[2]) PROVE file[t]["plain"] \in {q, NoRock}
      OBVIOUS
    <3>1. CASE Active(m, t[2]) = r
      <4>1. Beats(r, q) /\ ShipsModule(r, t[2])
        <5> DEFINE list == m.prov["modules"][t[2]]
        <5>1. list \in Seq(Rocks) /\ \A k \in DOMAIN list : ShipsModule(list[k], t[2])
          BY <1>1, <2>1 DEF Manifest, Indexes, Honest
        <5>2. list # <<>> /\ r = Head(list)
          BY <2>1, <3>1 DEF Active
        <5> HIDE DEF list, r
        <5>3. 1 \in DOMAIN list /\ Head(list) = list[1]
          BY <5>1, <5>2
        <5>4. ShipsModule(r, t[2])
          BY <5>1, <5>2, <5>3
        <5>5. Beats(r, q)
          BY <1>4, <2>1, <3>1 DEF r
        <5> QED
          BY <5>4, <5>5
      <4>2. t \in Ships(r)
        BY <1>2, <4>1 DEF PlainCatalog
      <4>3. file[t]["plain"] \in {r, NoRock}
        BY <1>2, <1>5, <2>2, <2>3, <3>1, <4>2 DEF Tidy
      <4> QED
        BY <2>4, <4>2, <4>3
    <3>2. CASE Active(m, t[2]) # r
      BY <1>4, <1>5, <1>6, <2>1, <2>3, <3>2 DEF Tidy
    <3> QED
      BY <3>1, <3>2
  <2>6. file[t]["plain"] = q => q # r /\ <<t, "plain">> \in rockManifest[q]
    BY <1>6, <2>3, <2>4 DEF Tidy
  <2>7. file[t][q] \in {q, NoRock}
    BY <1>6 DEF Tidy
  <2> QED
    BY <1>2, <1>5, <2>5, <2>6, <2>7 DEF Tidy
<1>7. TreeTidy(c)'
  BY <1>1, <1>2, <1>6 DEF TreeTidy
<1> QED
  BY <1>2, <1>3, <1>7

LEMMA NextClean ==
    ASSUME PlainCatalog, NEW c, Clients = {c} PROVE CleanInv(c) /\ [Next]_vars => CleanInv(c)'
<1> SUFFICES ASSUME CleanInv(c), [Next]_vars PROVE CleanInv(c)'
  OBVIOUS
<1>1. /\ c \in Clients /\ TypeOK /\ SInv /\ RemovalInv(c) /\ failures \in Nat /\ TreeTidy(c)
      /\ ListsDecrease(manifest) /\ ListsDecrease(op[c].m) /\ ListsDecrease(EmptyManifest)
  <2>1. ListsDecrease(EmptyManifest)
    BY DEF ListsDecrease, EmptyManifest, Indexes, Decreasing
  <2> QED
    BY <2>1, CleanFacts
<1>2. RemovalInv(c)' /\ Placed(c)'
  BY <1>1, NextRemoval, NextPlaced DEF CleanInv
<1>3. ASSUME TreeTidy(c)', ListsDecrease(manifest'), ListsDecrease(op'[c].m),
             pc'[c] = "record" => rockManifest'[op'[c].rock] = op'[c].keys
      PROVE  CleanInv(c)'
  BY <1>2, <1>3 DEF CleanInv
<1>4. ASSUME TreeTidy(c)', ListsDecrease(manifest'), Finish(c) PROVE CleanInv(c)'
  BY <1>1, <1>3, <1>4, FinishFacts
<1>5. ASSUME TreeTidy(c)', manifest' = manifest, op'[c].m \in {manifest, op[c].m},
             pc'[c] # "record"
      PROVE  CleanInv(c)'
  BY <1>1, <1>3, <1>5
<1>6. ASSUME NEW r \in Rocks, StartDeploy(c, r) PROVE CleanInv(c)'
  BY <1>1, <1>5, <1>6, StartDeployFacts, StartDeployTidy
<1>7. ASSUME NEW w \in op[c].todo, ResolveSpot(c, w) PROVE CleanInv(c)'
  BY <1>1, <1>5, <1>7, ResolveFacts, ResolveSpotTidy
<1>8. CASE CopyFile(c)
  BY <1>1, <1>5, <1>8, CopyFileFacts, CopyFileTidy
<1>9. CASE CopyTorn(c) \/ Abort(c)
  <2>1. Finish(c) /\ manifest' = manifest /\ failures' = failures + 1
    BY <1>9 DEF CopyTorn, Abort
  <2>2. TreeTidy(c)'
    BY <1>1, <2>1 DEF TreeTidy
  <2> QED
    BY <1>1, <1>4, <2>1, <2>2
<1>10. CASE WriteRock(c)
  <2>1. /\ manifest' = manifest /\ op' = op /\ rockManifest'[op[c].rock] = op[c].keys
        /\ TreeTidy(c)'
    BY <1>1, <1>10, WriteRockFacts, WriteRockTidy
  <2> QED
    BY <1>1, <1>3, <2>1
<1>11. CASE WriteTree(c)
  BY <1>4, <1>11, WriteTreeTidy DEF WriteTree
<1>12. ASSUME NEW R, StartRemove(c, R) PROVE CleanInv(c)'
  BY <1>1, <1>5, <1>12, StartRemoveFacts, RemoveCalmTidy
<1>13. ASSUME NEW r \in op[c].victims, ReadRock(c, r) PROVE CleanInv(c)'
  BY <1>1, <1>5, <1>13, ReadRockFacts, RemoveCalmTidy
<1>14. ASSUME NEW k \in op[c].keys, Unlink(c, k) PROVE CleanInv(c)'
  BY <1>1, <1>5, <1>14, UnlinkFacts, UnlinkTidy
<1>15. ASSUME \/ \E r \in op[c].victims : ReadRockFails(c, r)
              \/ \E k \in op[c].keys : UnlinkFails(c, k)
       PROVE  CleanInv(c)'
  <2>1. /\ manifest' = manifest /\ op'[c].m = op[c].m /\ pc'[c] = "unlink"
        /\ failures' = failures + 1
    BY <1>1, <1>15, ReadRockFailsFacts, UnlinkFailsFacts
  <2>2. TreeTidy(c)'
    BY <1>1, <2>1 DEF TreeTidy
  <2> QED
    BY <1>5, <2>1, <2>2
<1>16. CASE RemoveDir(c)
  <2>1. TreeTidy(c)' /\ ListsDecrease(op'[c].m) /\ manifest' = manifest /\ pc'[c] = "remove"
    BY <1>1, <1>16, RemoveDirFacts, RemoveDirTidy
  <2> QED
    BY <1>1, <1>3, <2>1
<1>17. CASE WriteRemoved(c)
  BY <1>1, <1>4, <1>17, RemoveCalmTidy DEF WriteRemoved
<1>18. CASE UNCHANGED vars
  BY <1>18 DEF vars, CleanInv, TreeTidy, Tidy, View, Copied, RemovalInv, SInv, IInv, TypeOK,
               ManifestSound, Manifests, SnapshotFresh, DeployInProgress, RemoveInProgress,
               HonestManifests, KeysListed, SoleFiles, Own, Claims, Placed
<1> QED
  BY <1>6, <1>7, <1>8, <1>9, <1>10, <1>11, <1>12, <1>13, <1>14, <1>15, <1>16, <1>17, <1>18
     DEF Next, Deploying, Removing

LEMMA InitClean == ASSUME NEW c, Clients = {c} PROVE Init => CleanInv(c)
<1> SUFFICES ASSUME Init PROVE CleanInv(c)
  OBVIOUS
<1>1. RemovalInv(c) /\ c \in Clients
  BY InitRemoval
<1>2. Idle.m = EmptyManifest
  BY DEF Idle
<1>3. manifest = EmptyManifest /\ op[c].m = EmptyManifest /\ pc[c] = "idle"
  BY <1>1, <1>2 DEF Init
<1>4. ListsDecrease(EmptyManifest)
  BY DEF ListsDecrease, EmptyManifest, Indexes, Decreasing
<1>5. \A t \in Target : \A s \in Slot : file[t][s] \in {NoRock, "user"}
                                         /\ (s # "plain" => file[t][s] = NoRock)
  BY DEF Init, EmptyTarget
<1>6. TreeTidy(c)
  <2> SUFFICES ASSUME NEW q \in Rocks, NEW t \in Ships(q) PROVE Tidy(c, q, t)
    BY DEF TreeTidy
  <2>1. t \in Target /\ q \in Slot /\ "plain" \in Slot /\ q \notin {"plain", NoRock, "user"}
    BY ShipsFacts, CatalogAssumption DEF Slot
  <2>2. t[2] \in Items
    BY ShipsFacts
  <2>3. Active(View(c), t[2]) = NoRock
    BY <1>3, <2>2 DEF View, Active, EmptyManifest, Indexes
  <2>4. file[t]["plain"] # q /\ file[t][q] = NoRock
    BY <1>5, <2>1
  <2> QED
    BY <2>1, <2>3, <2>4 DEF Tidy
<1> QED
  BY <1>1, <1>3, <1>4, <1>6 DEF CleanInv, Placed

(* A removal deletes only its own files where it is the active provider.   *)
LEMMA ActiveSpared ==
    ASSUME PlainCatalog, NEW c, Clients = {c}, CleanInv(c), Next, failures = 0,
           NEW t \in ModTarget, NEW s \in Slot, Active(op[c].m, t[2]) = op[c].rock
    PROVE  SparesOthers(c, t, s)
<1> DEFINE r == op[c].rock
<1> SUFFICES ASSUME pc[c] = "unlink", file'[t][s] # file[t][s]
             PROVE  file[t][s] = r
  BY DEF SparesOthers
<1>1. c \in Clients /\ SInv /\ r \in Rocks /\ KeysListed(c) /\ TreeTidy(c)
  BY CleanFacts
<1>2. t \in Target /\ t[1] # "bin"
  BY DEF ModTarget, Target, Sections
<1>3. <<t, s>> \in op[c].keys /\ file[t][s] # NoRock
  BY <1>1, <1>2, RemovalTouches
<1>4. t \in Artifacts(r) /\ s \in {"plain", r}
  <2>1. <<t, s>> \in Claims(c, r)
    BY <1>3 DEF Claims
  <2>2. \A k \in Claims(c, r) : k[1] \in Artifacts(r) /\ k[2] \in {"plain", r}
    BY <1>1 DEF KeysListed
  <2> QED
    BY <2>1, <2>2
<1>5. t \in Ships(r)
  BY <1>2, <1>4 DEF Artifacts, WorkOf, Ships
<1>6. Tidy(c, r, t) /\ View(c) = op[c].m /\ ~ Copied(c, t)
  BY <1>1, <1>5 DEF TreeTidy, View, Copied
<1> QED
  BY <1>3, <1>4, <1>6 DEF Tidy

(* RemovalIsClean: whatever the order of installs and removals, a removal   *)
(* deletes only its rock's files where no other rock has the name, failures *)
(* or not, and, while nothing has failed, where it is the active provider.  *)
THEOREM OneClientRemovesCleanly ==
    ASSUME PlainCatalog, NEW one, Clients = {one} PROVE Spec => RemovalIsClean
<1>1. Init => CleanInv(one)
  BY InitClean
<1>2. CleanInv(one) /\ [Next]_vars => CleanInv(one)'
  BY NextClean
<1>3. CleanInv(one) /\ [Next]_vars =>
         [\A c \in Clients : \A t \in Target : \A s \in Slot :
             ( \/ SoleOwner(op[c].rock, t)
               \/ failures = 0 /\ t \in ModTarget /\ Active(op[c].m, t[2]) = op[c].rock )
             => SparesOthers(c, t, s)]_vars
  <2> SUFFICES ASSUME CleanInv(one), Next, NEW c \in Clients, NEW t \in Target, NEW s \in Slot,
                      \/ SoleOwner(op[c].rock, t)
                      \/ failures = 0 /\ t \in ModTarget /\ Active(op[c].m, t[2]) = op[c].rock
               PROVE  SparesOthers(c, t, s)
    OBVIOUS
  <2>1. c = one /\ RemovalInv(one)
    BY DEF CleanInv
  <2> QED
    BY <2>1, SoleSpared, ActiveSpared
<1> QED
  BY <1>1, <1>2, <1>3, PTL DEF Spec, RemovalIsClean
-----------------------------------------------------------------------------
(* Files no rock deployed, in a tree that only grows.                      *)

(* Where a user's file may be while rocks are only installed: no step       *)
(* writes over a user's file at the plain path; one at the backup has been  *)
(* replaced by a rock, and so has one under the versioned name of a rock    *)
(* that ships no such file: that rock is outranked, or is being so.         *)
UserSafe(c) ==
    /\ \A t \in Target \ ModTarget : \A s \in Slot : file[t][s] # "user"
    /\ pc[c] = "copy" /\ op[c].slot = "plain" => file[op[c].now[2]]["plain"] # "user"
    /\ \A t \in ModTarget : file[t]["backup"] = "user" =>
          Active(manifest, t[2]) # NoRock \/ Moved(c, t)
    /\ \A q \in Rocks : \A t \in ModTarget \ Ships(q) : file[t][q] = "user" =>
          LET a == Active(manifest, t[2])
          IN a # NoRock /\ (Beats(a, q) \/ (a = q /\ Moved(c, t)))

(* A module file the installing rock has yet to resolve.                   *)
LEMMA Unresolved ==
    ASSUME PlainCatalog, NEW c, Clients = {c}, SInv, NEW w \in op[c].todo, ResolveSpot(c, w),
           w[2] \in ModTarget
    PROVE  /\ w[2] \in Ships(op[c].rock) /\ ~ Moved(c, w[2]) /\ ~ Copied(c, w[2])
           /\ Takes(op[c].rock, w[2]) => Moved(c, w[2])'
<1> DEFINE r == op[c].rock
           t == w[2]
<1>1. /\ pc[c] = "deploy" /\ pc'[c] = "copy" /\ op'[c].rock = r /\ op'[c].todo = op[c].todo
      /\ op'[c].now = w /\ manifest' = manifest /\ r \in Rocks /\ w \in WorkOf(r)
  BY ResolveFacts
<1>2. op[c].todo \subseteq WorkOf(r)
  BY <1>1 DEF SInv, SnapshotFresh, DeployInProgress
<1>3. t \in Ships(r) /\ \A v \in op[c].todo : v[2] = t => v = w
  BY <1>1, <1>2, OneArtifact
<1>4. ~ Moved(c, t) /\ ~ Copied(c, t)
  BY <1>1 DEF Moved, Copied
<1>5. Takes(r, t) => Moved(c, t)'
  <2>1. \A v \in op'[c].todo : v[2] = t => pc'[c] = "copy" /\ op'[c].now = v
    BY <1>1, <1>3
  <2>2. pc'[c] # "idle"
    BY <1>1
  <2>3. Takes(r, t) => Takes(op[c].rock, t)'
    BY <1>1 DEF Takes
  <2> QED
    BY <2>1, <2>2, <2>3 DEF Moved
<1> QED
  BY <1>3, <1>4, <1>5

(* What resolveSpot does to the slots of a module file.                    *)
LEMMA ResolveUser ==
    ASSUME PlainCatalog, NEW c, Clients = {c}, FInv(c), CleanInv(c), UserSafe(c),
           NEW w \in op[c].todo, ResolveSpot(c, w), w[2] \in ModTarget
    PROVE  LET t == w[2]
               a == Active(manifest, t[2])
               kept == IF a = NoRock THEN "backup" ELSE a
           IN \/ /\ file'[t] = file[t]
                 /\ WinsSpot(manifest, t[2], op[c].rock) => file[t]["plain"] # "user"
              \/ /\ kept \in Slot /\ kept # "plain" /\ file[t][kept] # "user"
                 /\ Moved(c, t)'
                 /\ file'[t] = [file[t] EXCEPT ![kept] = file[t]["plain"],
                                               !["plain"] = NoRock]
<1> DEFINE r == op[c].rock
           t == w[2]
           a == Active(manifest, t[2])
           kept == IF a = NoRock THEN "backup" ELSE a
<1>1. /\ c \in Clients /\ SInv /\ TreeTidy(c) /\ manifest \in Manifest /\ failures = 0
      /\ SoundManifest(manifest) /\ CommandsApart(manifest)
  BY CleanFacts DEF FInv
<1>2. /\ r \in Rocks /\ pc[c] = "deploy" /\ op[c].m = manifest
      /\ file'[t] = IF WinsSpot(manifest, t[2], r) THEN Preserved(manifest, t, r) ELSE file[t]
  BY <1>1, ResolveFacts
<1>3. /\ t \in Ships(r) /\ ~ Moved(c, t) /\ ~ Copied(c, t)
      /\ Takes(r, t) => Moved(c, t)'
  BY <1>1, Unresolved
<1>4. t[2] \in Modules /\ t[2] \in Items
  BY <1>2, <1>3, ShipsFacts
<1>5. CurrentProvider(manifest, t[2]) = a /\ a \in Rocks \cup {NoRock}
  BY <1>1, <1>4, SeesActive, ActiveType
<1>6. kept \in Slot /\ kept # "plain"
  BY <1>5, CatalogAssumption DEF Slot
<1>7. CASE ~ WinsSpot(manifest, t[2], r)
  BY <1>2, <1>7
<1>8. CASE WinsSpot(manifest, t[2], r) /\ (file[t]["plain"] = NoRock \/ a = r)
  <2>1. file'[t] = file[t]
    BY <1>2, <1>5, <1>8 DEF Preserved
  <2>2. a = r => file[t]["plain"] \in {r, NoRock}
    <3>1. Tidy(c, r, t) /\ View(c) = manifest
      BY <1>1, <1>2, <1>3 DEF TreeTidy, View
    <3> QED
      BY <1>3, <3>1 DEF Tidy
  <2>3. r # "user" /\ NoRock # "user"
    BY <1>2, CatalogAssumption DEF NoRock
  <2> QED
    BY <1>8, <2>1, <2>2, <2>3
<1>9. CASE WinsSpot(manifest, t[2], r) /\ file[t]["plain"] # NoRock /\ a # r
  <2>1. file'[t] = [file[t] EXCEPT ![kept] = file[t]["plain"], !["plain"] = NoRock]
    BY <1>2, <1>5, <1>9 DEF Preserved
  <2>2. Moved(c, t)'
    BY <1>3, <1>9 DEF Takes
  <2>3. file[t][kept] # "user"
    <3>1. CASE a = NoRock
      BY <1>3, <3>1 DEF UserSafe
    <3>2. CASE a # NoRock /\ t \in Ships(a)
      <4>1. Tidy(c, a, t) /\ a \in Rocks
        BY <1>1, <1>5, <3>2 DEF TreeTidy
      <4> QED
        BY <3>2, <4>1, CatalogAssumption DEF Tidy, NoRock
    <3>3. CASE a # NoRock /\ t \notin Ships(a)
      <4>1. a \in Rocks /\ ~ Beats(a, a)
        BY <1>5, <3>3, BeatsOrder
      <4> QED
        BY <1>3, <3>3, <4>1 DEF UserSafe
    <3> QED
      BY <3>1, <3>2, <3>3
  <2> QED
    BY <1>6, <2>1, <2>2, <2>3
<1> QED
  BY <1>7, <1>8, <1>9

(* A step that changes no file and nothing of what an install has moved.   *)
LEMMA UserSame ==
    ASSUME NEW c, UserSafe(c), UNCHANGED <<file, manifest>>, pc'[c] # "copy",
           \A t : Moved(c, t) => Moved(c, t)'
    PROVE  UserSafe(c)'
BY DEF UserSafe

LEMMA ResolveSpotUser ==
    ASSUME PlainCatalog, NEW c, Clients = {c}, FInv(c), CleanInv(c), UserSafe(c),
           NEW w \in op[c].todo, ResolveSpot(c, w)
    PROVE  UserSafe(c)' /\ \A t \in Target : KeepsUser(t)
<1> DEFINE r == op[c].rock
           u == w[2]
           a == Active(manifest, u[2])
           kept == IF a = NoRock THEN "backup" ELSE a
<1>1. c \in Clients /\ SInv /\ file \in [Target -> [Slot -> Content]]
  BY CleanFacts
<1>2. /\ pc[c] = "deploy" /\ pc'[c] = "copy" /\ op'[c].rock = r /\ op'[c].todo = op[c].todo
      /\ op'[c].now = w /\ manifest' = manifest /\ u \in Target
      /\ \A t \in Target : t # u => file'[t] = file[t]
      /\ file'[u] = IF WinsSpot(manifest, u[2], r) THEN Preserved(manifest, u, r) ELSE file[u]
  BY <1>1, ResolveFacts
<1>3. \A t : t # u => (Moved(c, t) => Moved(c, t)')
  BY <1>2 DEF Moved, Takes, r
<1>4. ModTarget \subseteq Target /\ "plain" \in Slot /\ "backup" \in Slot
      /\ Rocks \subseteq Slot /\ "user" # NoRock
      /\ \A q \in Rocks : q # "plain" /\ q # "backup" /\ q # NoRock
  BY CatalogAssumption DEF ModTarget, Target, Sections, Slot, NoRock
<1>5. ASSUME u \notin ModTarget
      PROVE  \A s \in Slot : file'[u][s] # "user"
  <2>1. \A s \in Slot : file[u][s] # "user"
    BY <1>2, <1>5 DEF UserSafe
  <2>2. \/ file'[u] = file[u]
        \/ \E k : file'[u] = [file[u] EXCEPT ![k] = file[u]["plain"], !["plain"] = NoRock]
    BY <1>2 DEF Preserved
  <2>3. file[u] \in [Slot -> Content]
    BY <1>1, <1>2
  <2> QED
    BY <1>4, <2>1, <2>2, <2>3
<1>6. CASE u \notin ModTarget
  <2>1. \A t \in Target : KeepsUser(t)
    <3>1. \A s \in Slot : file[u][s] # "user"
      BY <1>2, <1>6 DEF UserSafe
    <3> QED
      BY <1>2, <3>1 DEF KeepsUser
  <2>2. \A t \in ModTarget : file'[t] = file[t] /\ (Moved(c, t) => Moved(c, t)')
    BY <1>2, <1>3, <1>4, <1>6
  <2>3. \A t \in Target \ ModTarget : \A s \in Slot : file'[t][s] # "user"
    BY <1>2, <1>5, <1>6 DEF UserSafe
  <2>4. file'[op'[c].now[2]]["plain"] # "user"
    BY <1>2, <1>4, <1>5, <1>6
  <2> HIDE DEF u
  <2> QED
    BY <1>2, <2>1, <2>2, <2>3, <2>4 DEF UserSafe
<1>7. CASE u \in ModTarget
  <2>1. \/ /\ file'[u] = file[u]
           /\ WinsSpot(manifest, u[2], r) => file[u]["plain"] # "user"
        \/ /\ kept \in Slot /\ kept # "plain" /\ file[u][kept] # "user" /\ Moved(c, u)'
           /\ file'[u] = [file[u] EXCEPT ![kept] = file[u]["plain"], !["plain"] = NoRock]
    BY <1>7, ResolveUser
  <2>2. ~ Moved(c, u) /\ file[u] \in [Slot -> Content]
    BY <1>1, <1>2, <1>7, Unresolved
  <2>3. op'[c].slot = "plain" => WinsSpot(manifest, u[2], r)
    <3>1. op'[c].slot = IF WinsSpot(op[c].m, u[2], r) THEN "plain" ELSE r
      BY <1>1 DEF ResolveSpot, SInv, IInv, TypeOK, Op
    <3>2. op[c].m = manifest /\ r \in Rocks
      BY <1>1, ResolveFacts
    <3> QED
      BY <1>4, <3>1, <3>2
  <2> HIDE DEF u, r, kept
  <2>4. \A t \in Target \ ModTarget : \A s \in Slot : file'[t][s] # "user"
    BY <1>2, <1>7 DEF UserSafe
  <2>5. CASE file'[u] = file[u] /\ (WinsSpot(manifest, u[2], r) => file[u]["plain"] # "user")
    <3>1. \A t \in Target : file'[t] = file[t] /\ (Moved(c, t) => Moved(c, t)')
      BY <1>2, <1>3, <2>2, <2>5
    <3>2. op'[c].slot = "plain" => file'[op'[c].now[2]]["plain"] # "user"
      BY <1>2, <2>3, <2>5 DEF u
    <3>3. \A t \in Target : KeepsUser(t)
      BY <3>1 DEF KeepsUser
    <3>4. \A t \in ModTarget : file'[t] = file[t] /\ (Moved(c, t) => Moved(c, t)')
      BY <1>4, <3>1
    <3> QED
      BY <1>2, <2>4, <3>2, <3>3, <3>4 DEF UserSafe
  <2>6. CASE /\ kept \in Slot /\ kept # "plain" /\ file[u][kept] # "user" /\ Moved(c, u)'
             /\ file'[u] = [file[u] EXCEPT ![kept] = file[u]["plain"], !["plain"] = NoRock]
    <3>1. /\ file'[u]["plain"] = NoRock /\ file'[u][kept] = file[u]["plain"]
          /\ \A s \in Slot : s # "plain" /\ s # kept => file'[u][s] = file[u][s]
      BY <1>4, <2>2, <2>6
    <3>2. \A t \in Target : KeepsUser(t)
      <4>1. KeepsUser(u)
        BY <1>4, <2>6, <3>1 DEF KeepsUser
      <4> QED
        BY <1>2, <4>1 DEF KeepsUser
    <3>3. file'[op'[c].now[2]]["plain"] # "user"
      BY <1>2, <1>4, <3>1 DEF u
    <3>4. ASSUME NEW t \in ModTarget, file'[t]["backup"] = "user"
          PROVE  Active(manifest, t[2]) # NoRock \/ Moved(c, t)'
      <4>1. CASE t = u
        BY <2>6, <4>1
      <4>2. CASE t # u
        BY <1>2, <1>3, <1>4, <3>4, <4>2 DEF UserSafe
      <4> QED
        BY <4>1, <4>2
    <3>5. ASSUME NEW q \in Rocks, NEW t \in ModTarget \ Ships(q), file'[t][q] = "user"
          PROVE  LET b == Active(manifest, t[2])
                 IN b # NoRock /\ (Beats(b, q) \/ (b = q /\ Moved(c, t)'))
      <4>1. CASE t # u
        BY <1>2, <1>3, <1>4, <3>5, <4>1 DEF UserSafe
      <4>2. CASE t = u /\ q # kept
        <5>1. file[t][q] = "user"
          BY <1>4, <3>1, <3>5, <4>2
        <5> QED
          BY <2>6, <3>5, <4>2, <5>1 DEF UserSafe
      <4>3. CASE t = u /\ q = kept
        <5>1. q = a /\ a # NoRock
          BY <1>4, <4>3 DEF kept
        <5> QED
          BY <2>6, <4>3, <5>1
      <4> QED
        BY <4>1, <4>2, <4>3
    <3> QED
      BY <1>2, <2>4, <3>2, <3>3, <3>4, <3>5 DEF UserSafe
  <2> QED
    BY <2>1, <2>5, <2>6
<1> QED
  BY <1>6, <1>7

LEMMA CopyFileUser ==
    ASSUME PlainCatalog, NEW c, Clients = {c}, FInv(c), CleanInv(c), UserSafe(c), CopyFile(c)
    PROVE  UserSafe(c)' /\ \A t \in Target : KeepsUser(t)
<1> DEFINE r == op[c].rock
           w == op[c].now
           u == w[2]
           x == op[c].slot
<1>1. c \in Clients /\ SInv /\ TreeTidy(c) /\ failures = 0 /\ op[c].rock \in Rocks
  BY CleanFacts DEF FInv
<1>2. /\ pc[c] = "copy" /\ pc'[c] = "deploy" /\ op'[c].rock = r
      /\ op'[c].todo = op[c].todo \ {w} /\ manifest' = manifest
      /\ \A t \in Target : t # u => file'[t] = file[t]
      /\ file'[u][x] = r
      /\ \A s \in Slot : s # x => file'[u][s] = file[u][s]
  BY <1>1, CopyFileFacts
<1>3. /\ r \in Rocks /\ w \in WorkOf(r) /\ op[c].todo \subseteq WorkOf(r) /\ u \in Target
      /\ x \in Slot /\ x = IF WinsSpot(manifest, u[2], r) THEN "plain" ELSE r
  BY <1>1, <1>2, CopyFacts DEF SInv, SnapshotFresh, DeployInProgress
<1>4. ModTarget \subseteq Target /\ "backup" \in Slot /\ Rocks \subseteq Slot
      /\ r # "user" /\ NoRock # "user"
  BY <1>3, CatalogAssumption DEF ModTarget, Target, Sections, Slot, NoRock
<1>5. u \in ModTarget => u \in Ships(r) /\ \A v \in op[c].todo : v[2] = u => v = w
  BY <1>3, OneArtifact
<1>6. \A t \in ModTarget : Moved(c, t) => Moved(c, t)'
  <2> SUFFICES ASSUME NEW t \in ModTarget, Moved(c, t) PROVE Moved(c, t)'
    OBVIOUS
  <2>1. \A v \in op'[c].todo : v[2] # t
    <3>1. \A v \in op[c].todo : v[2] = t => v = w
      BY DEF Moved
    <3> QED
      BY <1>2, <3>1
  <2>2. Takes(op[c].rock, t)'
    BY <1>2 DEF Moved, Takes
  <2> QED
    BY <1>2, <2>1, <2>2 DEF Moved
<1>7. file[u][x] # "user"
  <2>1. CASE u \notin ModTarget
    BY <1>3, <2>1 DEF UserSafe
  <2>2. CASE u \in ModTarget /\ x = "plain"
    BY <1>2, <2>2 DEF UserSafe
  <2>3. CASE u \in ModTarget /\ x # "plain"
    <3>1. x = r /\ Tidy(c, r, u)
      BY <1>1, <1>3, <1>5, <2>3 DEF TreeTidy
    <3> QED
      BY <1>4, <3>1 DEF Tidy
  <2> QED
    BY <2>1, <2>2, <2>3
<1> HIDE DEF r, w, u, x
<1>8. \A t \in Target : \A s \in Slot : file'[t][s] = "user" <=> file[t][s] = "user"
  BY <1>2, <1>3, <1>4, <1>7
<1>9. \A t \in Target : KeepsUser(t)
  BY <1>8 DEF KeepsUser
<1>10. \A t \in Target \ ModTarget : \A s \in Slot : file'[t][s] # "user"
  BY <1>8 DEF UserSafe
<1>11. \A t \in ModTarget : file'[t]["backup"] = "user" =>
          Active(manifest, t[2]) # NoRock \/ Moved(c, t)'
  BY <1>4, <1>6, <1>8 DEF UserSafe
<1>12. \A q \in Rocks : \A t \in ModTarget \ Ships(q) : file'[t][q] = "user" =>
          LET a == Active(manifest, t[2])
          IN a # NoRock /\ (Beats(a, q) \/ (a = q /\ Moved(c, t)'))
  BY <1>4, <1>6, <1>8 DEF UserSafe
<1> QED
  BY <1>2, <1>9, <1>10, <1>11, <1>12 DEF UserSafe

(* Publishing an install makes each rock it outranked an outranked one.    *)
LEMMA WriteTreeUser ==
    ASSUME PlainCatalog, NEW c, Clients = {c}, FInv(c), UserSafe(c), WriteTree(c)
    PROVE  UserSafe(c)'
<1> DEFINE r == op[c].rock
           keys == op[c].keys
           a(i) == Active(manifest, i)
           b(i) == Active(manifest', i)
<1>1. /\ manifest \in Manifest /\ SoundManifest(manifest) /\ r \in Rocks
      /\ DeployInProgress(c) /\ CommandsApart(manifest) /\ op[c].todo = {} /\ pc[c] = "record"
  BY FFacts DEF WriteTree, FInv, DeployInProgress
<1>2. /\ manifest' = Recorded(manifest, r, keys) /\ file' = file /\ pc'[c] = "idle"
  BY <1>1 DEF WriteTree, Finish, DeployInProgress, FInv, SInv, IInv, TypeOK
<1>3. \A i \in Items : b(i) = IF i \in ModuleIndex(keys) THEN r ELSE a(i)
  BY <1>1, <1>2, RecordedActive
<1>4. \A i \in ModuleIndex(keys) :
         i \in Modules /\ (a(i) = NoRock \/ r = a(i) \/ Beats(r, a(i)))
  <2>1. \A i \in ModuleIndex(keys) : ShipsModule(r, i) /\ WinsSpot(manifest, i, r) /\ i \in Items
    BY <1>1 DEF ModuleIndex, DeployInProgress, ShipsModule, ModTarget
  <2>2. \A i \in ModuleIndex(keys) : i \in Modules
    BY <1>1, <2>1 DEF Modules
  <2> QED
    BY <1>1, <2>1, <2>2, WinsRule
<1>5. \A t \in ModTarget : Moved(c, t) => t[2] \in ModuleIndex(keys) /\ r # a(t[2])
  <2> SUFFICES ASSUME NEW t \in ModTarget, Moved(c, t)
               PROVE  t[2] \in ModuleIndex(keys) /\ r # a(t[2])
    OBVIOUS
  <2>1. t \in Ships(r) /\ WinsSpot(manifest, t[2], r) /\ r # a(t[2])
    BY DEF Moved, Takes
  <2>2. <<t, "plain">> \in keys
    BY <1>1, <2>1 DEF DeployInProgress
  <2>3. t = <<t[1], t[2]>> /\ t[1] \in {"lua", "lib"} /\ t[2] \in Items
    BY DEF ModTarget
  <2> QED
    BY <2>1, <2>2, <2>3 DEF ModuleIndex
<1>6. /\ \A t \in ModTarget : t[2] \in Items
      /\ \A i \in Items : a(i) \in Rocks \cup {NoRock}
      /\ NoRock \notin Rocks
  BY <1>1, ActiveType, CatalogAssumption DEF ModTarget
<1> HIDE DEF r, keys, a, b
<1>7. \A t \in ModTarget : file[t]["backup"] = "user" => b(t[2]) # NoRock
  <2>1. \A t \in ModTarget : file[t]["backup"] = "user" => a(t[2]) # NoRock \/ Moved(c, t)
    BY DEF UserSafe, a
  <2> QED
    BY <1>1, <1>3, <1>5, <1>6, <2>1 DEF r
<1>8. ASSUME NEW q \in Rocks, NEW t \in ModTarget \ Ships(q), file[t][q] = "user"
      PROVE  b(t[2]) # NoRock /\ Beats(b(t[2]), q)
  <2>1. a(t[2]) # NoRock /\ (Beats(a(t[2]), q) \/ (a(t[2]) = q /\ Moved(c, t)))
    BY <1>8 DEF UserSafe, a
  <2>2. a(t[2]) \in Rocks /\ t[2] \in Items /\ r \in Rocks
    BY <1>1, <1>6, <2>1 DEF r
  <2>3. CASE t[2] \in ModuleIndex(keys)
    BY <1>3, <1>4, <1>5, <1>6, <2>1, <2>2, <2>3, BeatsOrder
  <2>4. CASE t[2] \notin ModuleIndex(keys)
    BY <1>3, <1>5, <2>1, <2>2, <2>4
  <2> QED
    BY <2>3, <2>4
<1> QED
  BY <1>2, <1>7, <1>8 DEF UserSafe, b

(* Every step of an install keeps a user's file and what is known of it.   *)
LEMMA InstallUser ==
    ASSUME PlainCatalog, MaxFailures = 0, NEW c, Clients = {c},
           FInv(c), CleanInv(c), UserSafe(c), Installing
    PROVE  UserSafe(c)' /\ \A t \in Target : KeepsUser(t)
<1>1. Deploying(c) /\ c \in Clients /\ TypeOK /\ SInv
  BY CleanFacts DEF Installing
<1>2. ASSUME file' = file PROVE \A t \in Target : KeepsUser(t)
  BY <1>2 DEF KeepsUser
<1>3. ASSUME NEW r \in Rocks, StartDeploy(c, r)
      PROVE  UserSafe(c)' /\ \A t \in Target : KeepsUser(t)
  <2>1. pc[c] = "idle" /\ pc'[c] = "deploy" /\ UNCHANGED <<file, manifest>>
    BY <1>1, <1>3, StartDeployFacts
  <2> QED
    BY <1>2, <2>1, UserSame DEF Moved
<1>4. ASSUME NEW w \in op[c].todo, ResolveSpot(c, w)
      PROVE  UserSafe(c)' /\ \A t \in Target : KeepsUser(t)
  BY <1>4, ResolveSpotUser
<1>5. CASE CopyFile(c)
  BY <1>5, CopyFileUser
<1>6. CASE CopyTorn(c)
  BY <1>6 DEF CopyTorn, FInv
<1>7. CASE WriteRock(c)
  <2>1. /\ UNCHANGED <<file, manifest, op>> /\ pc[c] = "deploy" /\ pc'[c] = "record"
    BY <1>1, <1>7 DEF WriteRock, TypeOK
  <2>2. \A t : Moved(c, t) => Moved(c, t)'
    BY <2>1 DEF Moved, Takes
  <2> QED
    BY <1>2, <2>1, <2>2, UserSame
<1>8. CASE WriteTree(c)
  <2>1. file' = file
    BY <1>8 DEF WriteTree
  <2> QED
    BY <1>2, <1>8, <2>1, WriteTreeUser
<1> QED
  BY <1>1, <1>3, <1>4, <1>5, <1>6, <1>7, <1>8 DEF Deploying

(* UserFileKept: no order of installs loses a module file that no rock      *)
(* deployed; the file keeps its name or gets the "~" name or the versioned  *)
(* name of a rock that has no such file.                                    *)
THEOREM InstallsKeepUserFiles ==
    ASSUME PlainCatalog, UserFiles \subseteq ModTarget, MaxFailures = 0, NEW c, Clients = {c}
    PROVE  InstallsOnly => UserFileKept
<1>1. Init => UserSafe(c)
  <2> SUFFICES ASSUME Init PROVE UserSafe(c)
    OBVIOUS
  <2>1. pc[c] = "idle" /\ "user" # NoRock /\ "plain" # "backup"
    BY DEF Init, NoRock
  <2>2. \A t \in Target : \A s \in Slot : file[t][s] = "user" => t \in ModTarget /\ s = "plain"
    BY <2>1, Targets DEF Init, EmptyTarget
  <2>3. ModTarget \subseteq Target /\ "backup" \in Slot /\ Rocks \subseteq Slot
        /\ "plain" \notin Rocks
    BY CatalogAssumption DEF ModTarget, Target, Sections, Slot
  <2> QED
    BY <2>1, <2>2, <2>3 DEF UserSafe
<1>2. InstallsOnly => []FInv(c)
  BY InstallsInv
<1>3. InstallsOnly => []CleanInv(c)
  <2>1. Init => CleanInv(c)
    BY InitClean
  <2>2. CleanInv(c) /\ [Installing]_vars => CleanInv(c)'
    BY NextClean DEF Installing, Next
  <2> QED
    BY <2>1, <2>2, PTL DEF InstallsOnly
<1>4. FInv(c) /\ CleanInv(c) /\ UserSafe(c) /\ [Installing]_vars => UserSafe(c)'
  <2>1. UserSafe(c) /\ UNCHANGED vars => UserSafe(c)'
    BY DEF vars, UserSafe, Moved, Takes
  <2> QED
    BY <2>1, InstallUser
<1>5. FInv(c) /\ CleanInv(c) /\ UserSafe(c) /\ [Installing]_vars =>
         [\A t \in Target : KeepsUser(t)]_vars
  BY InstallUser
<1> QED
  BY <1>1, <1>2, <1>3, <1>4, <1>5, PTL DEF InstallsOnly, UserFileKept
=============================================================================
