------------------------- MODULE SourceBuildProofs --------------------------
(***************************************************************************)
(* SourceBuild for every catalog of rocks, every plan and any number of    *)
(* calls: nothing temporary is left, a rock is built at its own root from  *)
(* verified sources, and what is deployed is what the call itself staged,  *)
(* unless a build into the install directory ended before its deploy.      *)
(***************************************************************************)
EXTENDS SourceBuild, TLAPS

-----------------------------------------------------------------------------
(* Temporary directories.                                                  *)

(* Every temporary directory belongs to a call that may leave it, or to the *)
(* call in progress.                                                        *)
TempsOwned == \A t \in temps : t[2] \in left \/ (pc # "idle" /\ t[2] = calls)

(* Whichever of its steps a call ends at, and however, no temporary         *)
(* directory of a call is left that was neither killed nor told to keep it: *)
(* the deferred RemoveAll of Install and Build.                             *)
THEOREM NothingTemporaryLeft == Spec => []NoTempLeft
<1>1. Init => TempsOwned
  BY DEF Init, TempsOwned
<1>2. TempsOwned /\ [Next]_vars => TempsOwned'
  <2> SUFFICES ASSUME TempsOwned, [Next]_vars
               PROVE  TempsOwned'
    OBVIOUS
  <2> USE DEF TempsOwned
  <2>1. CASE Start
    BY <2>1 DEF Start, StartInstall, StartBuild, StartMake, Begin
  <2>2. ASSUME Return
        PROVE  TempsOwned'
    BY <2>2 DEF Return, Own
  <2>3. CASE Fail \/ BackendFails \/ DeployLast
    BY <2>2, <2>3 DEF Fail, BackendFails, DeployLast
  <2>4. CASE Killed
    BY <2>4 DEF Killed
  <2>5. CASE FetchAndEval \/ InstallBinary \/ InstallBundle \/ InstallFromSource
    BY <2>5 DEF FetchAndEval, InstallBinary, InstallBundle, InstallFromSource, Goto
  <2>6. CASE FetchHTTP \/ FetchPath \/ CheckMD5 \/ Unpack \/ Clone \/ CopyTree
    BY <2>6 DEF FetchHTTP, FetchPath, CheckMD5, Unpack, Clone, CopyTree, Goto
  <2>7. CASE DeployRock \/ RunBuiltin \/ RunCMake \/ RunMake \/ RunCommand \/ Built
    BY <2>7 DEF DeployRock, RunBuiltin, RunCMake, RunMake, RunCommand, RunPasses, Built, Goto
  <2>8. CASE DeployNext
    BY <2>8 DEF DeployNext, Deploy
  <2>9. CASE UNCHANGED vars
    BY <2>9 DEF vars
  <2> QED
    BY <2>1, <2>3, <2>4, <2>5, <2>6, <2>7, <2>8, <2>9 DEF Next
<1>3. TempsOwned => NoTempLeft
  BY DEF TempsOwned, NoTempLeft
<1> QED
  BY <1>1, <1>2, <1>3, PTL DEF Spec

-----------------------------------------------------------------------------
(* What a call knows.                                                      *)

Labels == {"idle", "eval", "install", "fetch", "check", "unpack", "deployRock", "build",
           "deploy"}

CallType ==
    /\ pc \in Labels
    /\ op = [what |-> op.what, plan |-> op.plan, k |-> op.k, keep |-> op.keep]
    /\ op.plan \in Seq(Rocks) /\ op.k \in Nat
    /\ calls \in Nat
    /\ pc # "idle" => op.k \in 1..Len(op.plan) /\ calls # Nobody
    /\ pc = "build" => ~ Prebuilt
    /\ staged \in [Names -> [Places -> [Modules -> Nat]]]

(* The rock at hand is one of the catalog.                                 *)
LEMMA CurrentRock == CallType /\ pc # "idle" => R \in Rocks /\ R \in Rock
  BY BuildAssumption DEF CallType, R

LEMMA RockFacts ==
    ASSUME CallType, pc # "idle"
    PROVE  R.name \in Names /\ Place(R) \in Places /\ R.mods \subseteq Modules
<1>1. R \in Rock
  BY CurrentRock
<1> QED
  BY <1>1 DEF Rock, Place, Places

(* Staging changes only the backend's place of the rock at hand.           *)
LEMMA StageType ==
    ASSUME CallType, pc # "idle", NEW S, NEW by \in Nat, Stage(S, by)
    PROVE  /\ staged' \in [Names -> [Places -> [Modules -> Nat]]]
           /\ \A m \in R.mods : m \in S => staged'[R.name][Place(R)][m] = by
           /\ \A n \in Names : \A p \in Places :
                 n # R.name \/ p # Place(R) => staged'[n][p] = staged[n][p]
BY RockFacts DEF Stage, CallType

(* Moving files empties the install directory of the rock at hand of them. *)
LEMMA MoveType ==
    ASSUME CallType, pc # "idle", NEW S, Move(S)
    PROVE  /\ staged' \in [Names -> [Places -> [Modules -> Nat]]]
           /\ \A n \in Names : n # R.name => staged'[n] = staged[n]
           /\ \A m \in Modules :
                 staged'[R.name]["installDir"][m] =
                     IF m \in S THEN Nobody ELSE staged[R.name]["installDir"][m]
BY RockFacts DEF Move, CallType, Places, Nobody

LEMMA TypeStep == CallType /\ [Next]_vars => CallType'
<1> SUFFICES ASSUME CallType, [Next]_vars
             PROVE  CallType'
  OBVIOUS
<1>1. CASE Start
  <2>1. \A plan \in Plans : plan \in Seq(Rocks) /\ 1 \in 1..Len(plan)
    BY BuildAssumption
  <2>2. \A r \in Rocks : <<r>> \in Seq(Rocks) /\ Len(<<r>>) = 1
    OBVIOUS
  <2>3. ASSUME NEW plan \in Plans, StartInstall(plan)
        PROVE  CallType'
    BY <2>1, <2>3 DEF StartInstall, Begin, CallType, Labels, Nobody
  <2>4. ASSUME NEW r \in Rocks, NEW keep \in BOOLEAN, StartBuild(r, keep)
        PROVE  CallType'
    BY <2>2, <2>4 DEF StartBuild, Begin, CallType, Labels, Nobody
  <2>5. ASSUME NEW r \in Rocks, StartMake(r)
        PROVE  CallType'
    BY <2>2, <2>5 DEF StartMake, Begin, CallType, Labels, Nobody
  <2> QED
    BY <1>1, <2>3, <2>4, <2>5 DEF Start
<1>2. ASSUME Return, pc # "idle", staged' \in [Names -> [Places -> [Modules -> Nat]]]
      PROVE  CallType'
  BY <1>2 DEF Return, CallType, Labels
<1>3. CASE Fail
  BY <1>2, <1>3, MoveType DEF Fail, DeployStops, CallType
<1>4. ASSUME pc # "idle", Tear
      PROVE  staged' \in [Names -> [Places -> [Modules -> Nat]]]
  BY <1>4, StageType, BuildAssumption DEF Tear, Torn
<1>5. CASE BackendFails
  BY <1>2, <1>4, <1>5 DEF BackendFails
<1>6. CASE Killed
  <2>1. staged' \in [Names -> [Places -> [Modules -> Nat]]]
    BY <1>4, <1>6, MoveType DEF Killed, DeployStops, CallType
  <2> QED
    BY <1>6, <2>1 DEF Killed, CallType, Labels
<1>7. CASE FetchAndEval
  BY <1>7 DEF FetchAndEval, Goto, CallType, Labels
<1>8. CASE InstallBinary \/ InstallBundle \/ InstallFromSource
  BY <1>8 DEF InstallBinary, InstallBundle, InstallFromSource, Goto, CallType, Labels
<1>9. CASE FetchHTTP \/ FetchPath \/ CheckMD5 \/ Unpack \/ Clone \/ CopyTree
  BY <1>9 DEF FetchHTTP, FetchPath, CheckMD5, Unpack, Clone, CopyTree, Goto, CallType, Labels
<1>10. CASE DeployRock \/ Built
  BY <1>10 DEF DeployRock, Built, Goto, CallType, Labels, Prebuilt, R
<1>11. CASE RunBuiltin
  BY <1>11, StageType DEF RunBuiltin, CallType, Prebuilt, R
<1>12. CASE RunCMake \/ RunMake \/ RunCommand
  BY <1>12, StageType DEF RunCMake, RunMake, RunCommand, RunPasses, CallType, Labels
<1>13. CASE DeployNext \/ DeployLast
  <2>1. pc = "deploy" /\ Deploy
    BY <1>13 DEF DeployNext, DeployLast, Deploy
  <2>2. staged' \in [Names -> [Places -> [Modules -> Nat]]]
    BY <2>1, MoveType DEF Deploy
  <2>3. CASE DeployNext
    <3>1. op.k + 1 \in 1..Len(op.plan) /\ op.k + 1 \in Nat
      BY <2>1, <2>3 DEF DeployNext, CallType
    <3>2. op' = [what |-> op.what, plan |-> op.plan, k |-> op.k + 1, keep |-> op.keep]
      BY <2>3 DEF DeployNext, CallType
    <3>3. calls' = calls /\ calls \in Nat /\ calls # Nobody /\ pc' = "install"
      BY <2>1, <2>3 DEF DeployNext, CallType
    <3> QED
      BY <2>2, <3>1, <3>2, <3>3 DEF CallType, Labels
  <2>4. CASE DeployLast
    BY <1>2, <2>1, <2>2, <2>4 DEF DeployLast
  <2> QED
    BY <1>13, <2>3, <2>4
<1>14. CASE UNCHANGED vars
  BY <1>14 DEF vars, CallType, Prebuilt, R
<1> QED
  BY <1>1, <1>3, <1>5, <1>6, <1>7, <1>8, <1>9, <1>10, <1>11, <1>12, <1>13, <1>14 DEF Next

LEMMA TypeInit == Init => CallType
<1>1. <<>> \in Seq(Rocks)
  OBVIOUS
<1> QED
  BY <1>1 DEF Init, CallType, Labels, Nobody

-----------------------------------------------------------------------------
(* What is staged.                                                         *)

(* What the backend of the rock at hand should have staged, it has.        *)
BackendDone ==
    pc = "deploy" /\ Ships /\ ~ Prebuilt =>
        \A m \in R.mods : staged[R.name][Place(R)][m] = calls

(* A rock whose backend stages its modules reaches the deploy only after    *)
(* this very call staged every one of them.                                 *)
LEMMA StepDone == CallType /\ BackendDone /\ [Next]_vars => BackendDone'
<1> SUFFICES ASSUME CallType, BackendDone, [Next]_vars
             PROVE  BackendDone'
  OBVIOUS
<1>1. CASE pc' # "deploy"
  BY <1>1 DEF BackendDone
<1>2. CASE DeployRock
  BY <1>2 DEF DeployRock, Goto, BackendDone, Prebuilt, R
<1>3. CASE RunCMake \/ RunMake \/ RunCommand
  <2>1. PICK backend \in {"cmake", "make", "command"} : RunPasses(backend)
    BY <1>3 DEF RunCMake, RunMake, RunCommand
  <2>2. R \in Rock /\ R' = R /\ calls' = calls /\ calls \in Nat
    BY <2>1, CurrentRock DEF RunPasses, R, CallType
  <2>3. Installs(R) => \A m \in R.mods : staged'[R.name][Place(R)][m] = calls
    BY <2>1, <2>2, StageType DEF RunPasses
  <2>4. "install" \in R.passes => Installs(R)
    BY <2>1, <2>2 DEF RunPasses, Installs, CMakeInstalls
  <2>5. Ships' /\ ~ Prebuilt' => "install" \in R.passes
    BY <2>1, <2>2 DEF RunPasses, Ships, Prebuilt
  <2> QED
    BY <2>2, <2>3, <2>4, <2>5 DEF BackendDone
<1>4. CASE Built
  BY <1>4 DEF Built, Goto, Unstaged, BackendDone, Ships, Prebuilt, R
<1>5. CASE UNCHANGED vars
  BY <1>5 DEF vars, BackendDone, Ships, Prebuilt, R
<1>6. CASE pc' = "deploy"
  <2>1. ~ (Start \/ Fail \/ Killed \/ BackendFails)
    BY <1>6 DEF Start, StartInstall, StartBuild, StartMake, Fail, Return, Killed, BackendFails
  <2>2. ~ (FetchAndEval \/ InstallBinary \/ InstallBundle \/ InstallFromSource)
    BY <1>6 DEF FetchAndEval, InstallBinary, InstallBundle, InstallFromSource, Goto
  <2>3. ~ (FetchHTTP \/ FetchPath \/ CheckMD5 \/ Unpack \/ Clone \/ CopyTree)
    BY <1>6 DEF FetchHTTP, FetchPath, CheckMD5, Unpack, Clone, CopyTree, Goto
  <2>4. ~ (RunBuiltin \/ DeployNext \/ DeployLast)
    BY <1>6 DEF RunBuiltin, DeployNext, DeployLast, Return
  <2> QED
    BY <1>2, <1>3, <1>4, <1>5, <2>1, <2>2, <2>3, <2>4 DEF Next
<1> QED
  BY <1>1, <1>6

Clean(n) == \A m \in Modules : staged[n]["installDir"][m] = Nobody

(* The call at hand is building n into the install directory.              *)
Filling(n) ==
    pc \in {"build", "deploy"} /\ n = R.name /\ ~ Prebuilt /\ Place(R) = "installDir"

(* The install directory of a name is empty but for what the call at hand   *)
(* builds into it and what a build that ended early left there.             *)
LeftInv == \A n \in Names : n \in undone \/ Filling(n) \/ Clean(n)

LEMMA StepLeft == CallType /\ LeftInv /\ [Next]_vars => LeftInv'
<1> SUFFICES ASSUME CallType, LeftInv, [Next]_vars, NEW n \in Names,
                    n \notin undone', ~ Filling(n)'
             PROVE  Clean(n)'
  BY DEF LeftInv
<1>1. n \in undone \/ Filling(n) \/ Clean(n)
  BY DEF LeftInv
<1>2. ASSUME staged' = staged, Clean(n)
      PROVE  Clean(n)'
  BY <1>2 DEF Clean
<1>3. CASE Start
  <2>1. pc = "idle" /\ staged' = staged /\ undone' = undone
    BY <1>3 DEF Start, StartInstall, StartBuild, StartMake, Begin
  <2>2. ~ Filling(n)
    BY <2>1 DEF Filling
  <2> QED
    BY <1>1, <1>2, <2>1, <2>2
<1>4. ASSUME pc # "idle", Interrupt
      PROVE  Clean(n)
  BY <1>1, <1>4 DEF Interrupt, Filling
<1>5. ASSUME pc # "idle", Clean(n), NEW S, Move(S)
      PROVE  Clean(n)'
  BY <1>5, MoveType DEF Clean
<1>6. ASSUME pc = "build", NEW S, NEW by \in Nat, Stage(S, by), Clean(n),
             n # R.name \/ Place(R) # "installDir"
      PROVE  Clean(n)'
  BY <1>6, StageType DEF Clean, Places
<1>7. ASSUME Interrupt, pc = "build" /\ Tear
      PROVE  Clean(n)'
  <2>1. n # R.name \/ Place(R) # "installDir"
    BY <1>7 DEF Interrupt, CallType
  <2>2. PICK S : Stage(S, Torn)
    BY <1>7 DEF Tear
  <2>3. Torn \in Nat
    BY BuildAssumption DEF Torn
  <2> QED
    BY <1>4, <1>6, <1>7, <2>1, <2>2, <2>3
<1>8. ASSUME Interrupt, pc # "idle", DeployStops \/ UNCHANGED staged
      PROVE  Clean(n)'
  BY <1>2, <1>4, <1>5, <1>8 DEF DeployStops
<1>9. CASE Fail \/ BackendFails \/ Killed
  BY <1>7, <1>8, <1>9 DEF Fail, BackendFails, Killed
<1>10. ASSUME pc \notin {"build", "deploy"}, UNCHANGED <<staged, undone>>
       PROVE  Clean(n)'
  BY <1>1, <1>2, <1>10 DEF Filling
<1>11. CASE FetchAndEval \/ InstallBinary \/ InstallBundle \/ InstallFromSource
  BY <1>10, <1>11 DEF FetchAndEval, InstallBinary, InstallBundle, InstallFromSource, Goto
<1>12. CASE FetchHTTP \/ FetchPath \/ CheckMD5 \/ Unpack \/ Clone \/ CopyTree \/ DeployRock
  BY <1>10, <1>12 DEF FetchHTTP, FetchPath, CheckMD5, Unpack, Clone, CopyTree, DeployRock, Goto
<1>13. ASSUME pc = "build", pc' \in {"build", "deploy"}, UNCHANGED <<op, undone>>
       PROVE  Clean(n) /\ (n # R.name \/ Place(R) # "installDir")
  BY <1>1, <1>13 DEF Filling, Prebuilt, R, CallType
<1>14. CASE RunBuiltin
  BY <1>6, <1>13, <1>14 DEF RunBuiltin, CallType
<1>15. CASE RunCMake \/ RunMake \/ RunCommand
  BY <1>6, <1>13, <1>15 DEF RunCMake, RunMake, RunCommand, RunPasses, CallType
<1>16. CASE Built
  BY <1>2, <1>13, <1>16 DEF Built, Goto
<1>17. CASE DeployNext \/ DeployLast
  <2>1. pc = "deploy" /\ Move(Modules) /\ undone' = undone \ {R.name}
    BY <1>17 DEF DeployNext, DeployLast, Deploy
  <2>2. CASE n = R.name
    BY <2>1, <2>2, MoveType DEF Clean
  <2>3. CASE n # R.name
    <3>1. Clean(n)
      BY <1>1, <2>1, <2>3 DEF Filling
    <3> QED
      BY <1>5, <2>1, <3>1
  <2> QED
    BY <2>2, <2>3
<1>18. CASE UNCHANGED vars
  BY <1>1, <1>2, <1>18 DEF vars, Filling, Prebuilt, R
<1> QED
  BY <1>3, <1>9, <1>11, <1>12, <1>14, <1>15, <1>16, <1>17, <1>18 DEF Next

(* What is deployed of the build and of the install directory is what this  *)
(* very call put there, for every catalog and whatever earlier calls left   *)
(* in them, unless a build into the install directory ended early and this  *)
(* call builds elsewhere.                                                   *)
THEOREM DeploysOwnBuild == Spec => []StagedIsOwn
<1> DEFINE Inv == CallType /\ BackendDone /\ LeftInv
<1>1. Init => Inv
  BY TypeInit DEF Init, BackendDone, LeftInv, Clean, Places
<1>2. Inv /\ [Next]_vars => Inv'
  BY TypeStep, StepDone, StepLeft
<1>3. Inv => StagedIsOwn
  <2> SUFFICES ASSUME Inv, pc = "deploy", Ships, NEW m \in R.mods,
                      ~ (R.name \in undone /\ (Prebuilt \/ Place(R) = "build"))
               PROVE  Shipped(m) = calls
    BY DEF StagedIsOwn
  <2>1. R.name \in Names /\ Place(R) \in Places /\ m \in Modules /\ calls # Nobody
    BY RockFacts DEF CallType
  <2>2. CASE ~ Prebuilt /\ Place(R) = "installDir"
    BY <2>1, <2>2 DEF BackendDone, Shipped
  <2>3. CASE Prebuilt \/ Place(R) = "build"
    <3>1. Clean(R.name)
      BY <2>1, <2>3 DEF LeftInv, Filling
    <3> QED
      BY <2>1, <2>3, <3>1 DEF BackendDone, Shipped, Clean
  <2> QED
    BY <2>1, <2>2, <2>3 DEF Places
<1> QED
  BY <1>1, <1>2, <1>3, PTL DEF Spec

-----------------------------------------------------------------------------
(* Where a rock is built.                                                  *)

(* However an archive is packed, findSourceBaseDir finds the rock's files.  *)
LEMMA FindsRoot ==
    ASSUME NEW r \in Rocks, IsArchive(r)
    PROVE  FindBaseDir(r.layout, r) = r.root
<1> DEFINE lone == {e \in r.layout : e.isDir /\ r.layout = {e}}
           named(n) == Dir(n) \in r.layout
<1>1. FindBaseDir(r.layout, r) =
         IF named(r.dir) THEN r.dir
         ELSE IF named(r.deduced) THEN r.deduced
         ELSE IF lone # {} THEN (CHOOSE e \in lone : TRUE).name ELSE "."
  BY DEF FindBaseDir
<1>2. CASE named(r.dir) \/ named(r.deduced)
  BY <1>1, <1>2, PackingAssumption
<1>3. CASE ~ named(r.dir) /\ ~ named(r.deduced) /\ r.layout = {Dir(r.root)}
  <2>1. lone = {Dir(r.root)}
    <3>1. Dir(r.root).isDir
      BY DEF Dir
    <3> QED
      BY <1>3, <3>1
  <2>2. (CHOOSE e \in lone : TRUE) = Dir(r.root)
    BY <2>1
  <2> QED
    BY <1>1, <1>3, <2>1, <2>2 DEF Dir
<1>4. CASE ~ named(r.dir) /\ ~ named(r.deduced) /\ r.layout # {Dir(r.root)}
  <2>1. r.root = "." /\ lone = {}
    BY <1>4, PackingAssumption
  <2> QED
    BY <1>1, <1>4, <2>1
<1> QED
  BY <1>2, <1>3, <1>4

(* In a bundled checkout it finds the checkout.                            *)
LEMMA FindsCheckout ==
    ASSUME NEW r \in Rocks, ~ IsArchive(r)
    PROVE  FindBaseDir(Bundle(r), r) = r.deduced
<1>1. Bundle(r) = {File("rockspec"), Dir(r.deduced)}
  BY DEF Bundle
<1>2. Dir(r.dir) \in Bundle(r) => r.dir = r.deduced
  BY <1>1 DEF Dir, File
<1> QED
  BY <1>1, <1>2 DEF FindBaseDir

(* What holds of the rock at hand once its sources are there.              *)
Ready ==
    /\ root = TrueRoot(R, base)
    /\ Holder(base) \subseteq temps
    /\ base \in {"source", "sources"} /\ IsArchive(R) => R.md5 # "mismatch"

(* The way to it: only Install has a plan of several rocks, the directory   *)
(* of its artifacts stays to the end, a fetch has a directory to fetch      *)
(* into, and only an archive is checked and unpacked, in this order.        *)
SourceInv ==
    /\ pc \in {"eval", "install"} => op.what = "install"
    /\ pc # "idle" /\ op.what # "install" => Len(op.plan) = 1
    /\ pc # "idle" /\ op.what = "install" => <<"artifacts", calls>> \in temps
    /\ pc = "fetch" => base = "source" /\ <<"source", calls>> \in temps
    /\ pc \in {"check", "unpack"} =>
          IsArchive(R) /\ base \in {"source", "sources"} /\ Holder(base) \subseteq temps
    /\ pc = "unpack" => R.md5 # "mismatch"
    /\ pc \in {"deployRock", "build", "deploy"} => Ready

(* A rock is built and deployed at the root of its own files, in a          *)
(* directory that is still there, and never from an archive whose md5       *)
(* differs from the rockspec's, for every way to fetch and to pack it.      *)
THEOREM BuildsAtItsRoot == Spec => []BuiltAtRoot
<1> DEFINE Inv == CallType /\ SourceInv
<1>1. Init => Inv
  BY TypeInit DEF Init, SourceInv
<1>2. Inv /\ [Next]_vars => Inv'
  <2> SUFFICES ASSUME CallType, SourceInv, [Next]_vars
               PROVE  SourceInv'
    BY TypeStep
  <2>1. CASE pc' = "idle"
    BY <2>1 DEF SourceInv
  <2>2. ASSUME NEW plan \in Plans, StartInstall(plan)
        PROVE  SourceInv'
    BY <2>2 DEF StartInstall, Begin, SourceInv
  <2>3. ASSUME NEW r \in Rocks, NEW keep \in BOOLEAN, StartBuild(r, keep)
        PROVE  SourceInv'
    BY <2>3 DEF StartBuild, Begin, SourceInv
  <2>4. ASSUME NEW r \in Rocks, StartMake(r)
        PROVE  SourceInv'
    BY <2>4 DEF StartMake, Begin, SourceInv, Ready, TrueRoot, Holder
  <2>5. CASE FetchAndEval
    BY <2>5 DEF FetchAndEval, Goto, SourceInv, CallType
  <2>6. CASE InstallBinary
    BY <2>6 DEF InstallBinary, Goto, SourceInv, Ready, TrueRoot, Holder, R
  <2>7. CASE InstallBundle
    <3>1. R \in Rocks /\ R' = R /\ calls' = calls /\ temps' = temps
      BY <2>7, CurrentRock DEF InstallBundle, Goto, R
    <3>2. File("archive") \in Bundle(R) <=> IsArchive(R)
      BY DEF Bundle, File, Dir
    <3>3. CASE IsArchive(R)
      BY <2>7, <3>1, <3>2, <3>3 DEF InstallBundle, Goto, SourceInv, Holder, IsArchive
    <3>4. CASE ~ IsArchive(R)
      BY <2>7, <3>1, <3>2, <3>4, FindsCheckout
         DEF InstallBundle, Goto, SourceInv, Ready, TrueRoot, Holder
    <3> QED
      BY <3>3, <3>4
  <2>8. CASE InstallFromSource
    BY <2>8 DEF InstallFromSource, Goto, SourceInv
  <2>9. CASE FetchHTTP \/ FetchPath
    BY <2>9 DEF FetchHTTP, FetchPath, Goto, SourceInv, IsArchive, Holder, R
  <2>10. CASE CheckMD5
    BY <2>10 DEF CheckMD5, Goto, SourceInv, IsArchive, Holder, R
  <2>11. CASE Unpack
    <3>1. R \in Rocks /\ R' = R /\ IsArchive(R)
      BY <2>11, CurrentRock DEF Unpack, Goto, R, SourceInv
    <3>2. root' = R.root
      BY <2>11, <3>1, FindsRoot DEF Unpack
    <3> QED
      BY <2>11, <3>1, <3>2 DEF Unpack, Goto, SourceInv, Ready, TrueRoot, Holder
  <2>12. CASE Clone \/ CopyTree
    BY <2>12 DEF Clone, CopyTree, Goto, SourceInv, Ready, TrueRoot, Holder, IsArchive, R
  <2>13. CASE DeployRock \/ RunBuiltin \/ RunCMake \/ RunMake \/ RunCommand \/ Built
    BY <2>13 DEF DeployRock, RunBuiltin, RunCMake, RunMake, RunCommand, RunPasses, Built, Goto,
                 SourceInv, Ready, TrueRoot, Holder, IsArchive, R
  <2>14. CASE DeployNext
    <3>1. op'.what = op.what
      <4>1. op' = [what |-> op.what, plan |-> op.plan, k |-> op.k + 1, keep |-> op.keep]
        BY <2>14 DEF DeployNext, CallType
      <4> QED
        BY <4>1
    <3>2. <<"artifacts", calls>> # <<"source", calls>>
      OBVIOUS
    <3>3. op.what = "install"
      <4>1. pc = "deploy" /\ op.k < Len(op.plan)
        BY <2>14 DEF DeployNext, Deploy
      <4>2. op.k \in Nat /\ op.k >= 1 /\ Len(op.plan) \in Nat
        BY <4>1 DEF CallType
      <4>3. Len(op.plan) # 1
        <5>1. \A k, n \in Nat : k >= 1 /\ k < n => n # 1
          OBVIOUS
        <5> QED
          BY <4>1, <4>2, <5>1, Zenon
      <4> QED
        BY <4>1, <4>3 DEF SourceInv
    <3> QED
      BY <2>14, <3>1, <3>2, <3>3 DEF DeployNext, Deploy, SourceInv
  <2>15. CASE Fail \/ Killed \/ BackendFails \/ DeployLast
    BY <2>1, <2>15 DEF Fail, Killed, BackendFails, DeployLast, Return
  <2>16. CASE UNCHANGED vars
    BY <2>16 DEF vars, SourceInv, Ready, TrueRoot, Holder, R
  <2> QED
    BY <2>2, <2>3, <2>4, <2>5, <2>6, <2>7, <2>8, <2>9, <2>10, <2>11, <2>12, <2>13, <2>14,
       <2>15, <2>16 DEF Next, Start
<1>3. Inv => BuiltAtRoot
  BY DEF SourceInv, Ready, BuiltAtRoot
<1> QED
  BY <1>1, <1>2, <1>3, PTL DEF Spec
=============================================================================
