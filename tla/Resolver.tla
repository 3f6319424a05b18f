------------------------------ MODULE Resolver ------------------------------
(***************************************************************************)
(* Install: pick the requested rock, plan its dependencies with the greedy *)
(* depth-first walk of deps.Resolve, then deploy the plan and the rock.    *)
(* The recursion of walk is an explicit stack with one frame per call; one *)
(* action is one iteration of its loop.  A version is a number in version  *)
(* order, and a constraint is the set of versions it matches.              *)
(***************************************************************************)
EXTENDS Naturals, Sequences

CONSTANTS
    Names,       \* rock names
    Versions,    \* versions, in the order of deps.Compare
    Root,        \* the rock the user asks for
    Worlds,      \* what the servers hold and the tree holds at the start
    MaxInstalls  \* bound: how often Install is called

Dep == [name : Names, allow : SUBSET Versions]

World == [index    : [Names -> SUBSET Versions],
          deps     : [Names -> [Versions -> Seq(Dep)]],
          provided : [Names -> SUBSET Versions],
          tree     : [Names -> SUBSET Versions]]

NoVersion == 0

ASSUME ResolverAssumption ==
    /\ Versions \subseteq Nat \ {NoVersion}
    /\ Versions # {} => \E top \in Versions : \A v \in Versions : v <= top
    /\ Root \in Names
    /\ Worlds \subseteq World
    /\ MaxInstalls \in Nat

VARIABLES
    world,     \* the servers' rocks, and the VM-provided ones
    installed, \* the tree: name -> its installed versions
    phase,     \* "idle", "walk", "deploy", or "alone" (an Install with DepsNone)
    lookup,    \* the installed versions as read when Resolve began
    target,    \* the version picked of Root
    stack,     \* the active calls of walk
    chosen,    \* name -> the version resolved for it, or NoVersion
    inFlight,  \* the names whose walk is not over
    order,     \* the plan, deepest dependency first
    result,    \* how the last Install ended
    installs   \* calls of Install so far

plan == <<lookup, target, stack, chosen, inFlight, order>>
vars == <<world, installed, phase, plan, result, installs>>

-----------------------------------------------------------------------------
Frame == [name : Names, ver : Versions, next : Nat \ {0}]

(* pickNewest.                                                             *)
Newest(S) == CHOOSE v \in S : \A u \in S : u <= v

Top       == stack[Len(stack)]
TopDeps   == world.deps[Top.name][Top.ver]
AtDep     == phase = "walk" /\ Top.next <= Len(TopDeps)
AtEnd     == phase = "walk" /\ Top.next > Len(TopDeps)
D         == TopDeps[Top.next]

Provided(d)  == world.provided[d.name] # {}
ProvidedOK(d) == Provided(d) /\ world.provided[d.name] \subseteq d.allow
InstalledSatisfies(d) == lookup[d.name] \cap d.allow # {}
Matching(d)  == world.index[d.name] \cap d.allow

(* The dependencies walk has to resolve itself.                            *)
ToResolve(d) == ~ Provided(d) /\ ~ InstalledSatisfies(d)

Call(n, v) == [name |-> n, ver |-> v, next |-> 1]

Advanced == [stack EXCEPT ![Len(stack)].next = @ + 1]

-----------------------------------------------------------------------------
Nowhere == [n \in Names |-> {}]

(* Install picks the root and reads its rockspec.                          *)
Begin(what, calls) ==
    /\ phase = "idle"
    /\ installs < MaxInstalls
    /\ world.index[Root] # {}
    /\ installs' = installs + 1
    /\ phase' = what
    /\ target' = Newest(world.index[Root])
    /\ stack' = calls
    /\ chosen' = [n \in Names |-> NoVersion]
    /\ inFlight' = {}
    /\ order' = <<>>
    /\ result' = "none"
    /\ UNCHANGED <<world, installed>>

(* resolvePlan starts the walk.  A tree that cannot be read is not an      *)
(* error: the walk goes on as if nothing were installed.                   *)
Start ==
    /\ Begin("walk", <<Call(Root, Newest(world.index[Root]))>>)
    /\ lookup' \in {installed, Nowhere}

(* With DepsNone nothing is resolved: the plan is empty.                   *)
StartAlone ==
    /\ Begin("alone", <<>>)
    /\ UNCHANGED lookup

(* The dependency is met by the VM, by the tree or by an earlier choice.   *)
Continue ==
    /\ stack' = Advanced
    /\ UNCHANGED <<world, installed, phase, lookup, target, chosen, inFlight, order,
                   result, installs>>

SkipProvided == AtDep /\ ProvidedOK(D) /\ Continue

SkipInstalled == AtDep /\ ~ Provided(D) /\ InstalledSatisfies(D) /\ Continue

SkipChosen ==
    /\ AtDep
    /\ ToResolve(D)
    /\ D.name \notin inFlight
    /\ chosen[D.name] # NoVersion
    /\ chosen[D.name] \in D.allow
    /\ Continue

\* Mutant: the tree is not asked first.
PickInstalled ==
    /\ AtDep
    /\ ~ Provided(D)
    /\ D.name \notin inFlight
    /\ chosen[D.name] = NoVersion
    /\ Matching(D) # {}
    /\ inFlight' = inFlight \cup {D.name}
    /\ chosen' = [chosen EXCEPT ![D.name] = Newest(Matching(D))]
    /\ stack' = Append(stack, Call(D.name, Newest(Matching(D))))
    /\ UNCHANGED <<world, installed, phase, lookup, target, order, result, installs>>

(* Query, pickNewest and the fetch of the picked rockspec, then the         *)
(* recursive call.                                                          *)
Pick ==
    /\ AtDep
    /\ ToResolve(D)
    /\ D.name \notin inFlight
    /\ chosen[D.name] = NoVersion
    /\ Matching(D) # {}
    /\ inFlight' = inFlight \cup {D.name}
    /\ chosen' = [chosen EXCEPT ![D.name] = Newest(Matching(D))]
    /\ stack' = Append(stack, Call(D.name, Newest(Matching(D))))
    /\ UNCHANGED <<world, installed, phase, lookup, target, order, result, installs>>

Popped == [SubSeq(stack, 1, Len(stack) - 1) EXCEPT ![Len(stack) - 1].next = @ + 1]

\* Mutant: what the call resolved is forgotten.
ReturnForgets ==
    /\ AtEnd
    /\ Len(stack) > 1
    /\ stack' = SubSeq(stack, 1, Len(stack) - 1)
    /\ inFlight' = inFlight \ {Top.name}
    /\ chosen' = [chosen EXCEPT ![Top.name] = NoVersion]
    /\ UNCHANGED <<world, installed, phase, lookup, target, order, result, installs>>

(* A recursive call returns: the rock goes into the plan.                  *)
Return ==
    /\ AtEnd
    /\ Len(stack) > 1
    /\ stack' = Popped
    /\ inFlight' = inFlight \ {Top.name}
    /\ order' = Append(order, Top.name)
    /\ UNCHANGED <<world, installed, phase, lookup, target, chosen, result, installs>>

Planned ==
    /\ AtEnd
    /\ Len(stack) = 1
    /\ phase' = "deploy"
    /\ UNCHANGED <<world, installed, plan, result, installs>>

(* The error returns of walk: nothing was deployed yet.                    *)
Fail(why) ==
    /\ phase' = "idle"
    /\ result' = why
    /\ UNCHANGED <<world, installed, plan, installs>>

ProvidedUnmet == AtDep /\ Provided(D) /\ ~ ProvidedOK(D) /\ Fail("unmet")

\* Mutant: a name met twice is taken for a cycle.
CycleShared == AtDep /\ ToResolve(D) /\ chosen[D.name] # NoVersion /\ Fail("cycle")

Cycle == AtDep /\ ToResolve(D) /\ D.name \in inFlight /\ Fail("cycle")
Conflict ==
    /\ AtDep
    /\ ToResolve(D)
    /\ D.name \notin inFlight
    /\ chosen[D.name] \notin D.allow \cup {NoVersion}
    /\ Fail("conflict")
NoCandidate ==
    /\ AtDep
    /\ ToResolve(D)
    /\ D.name \notin inFlight
    /\ chosen[D.name] = NoVersion
    /\ Matching(D) = {}
    /\ Fail("missing")

(* The context is cancelled, or a query or a fetch fails.                  *)
Interrupted == AtDep /\ Fail("error")

-----------------------------------------------------------------------------
(* The install steps of the plan, then the root.                           *)

Deployed(n, v) == installed' = [installed EXCEPT ![n] = @ \cup {v}]

\* Mutant: the plan is deployed from its end.
DeployLast ==
    /\ phase = "deploy"
    /\ order # <<>>
    /\ Deployed(order[Len(order)], chosen[order[Len(order)]])
    /\ order' = SubSeq(order, 1, Len(order) - 1)
    /\ UNCHANGED <<world, phase, lookup, target, stack, chosen, inFlight, result, installs>>

DeployStep ==
    /\ phase = "deploy"
    /\ order # <<>>
    /\ Deployed(Head(order), chosen[Head(order)])
    /\ order' = Tail(order)
    /\ UNCHANGED <<world, phase, lookup, target, stack, chosen, inFlight, result, installs>>

DeployRoot ==
    /\ phase = "deploy"
    /\ order = <<>>
    /\ Deployed(Root, target)
    /\ phase' = "idle"
    /\ result' = "ok"
    /\ UNCHANGED <<world, plan, installs>>

(* The root of an Install with DepsNone.                                   *)
DeployAlone ==
    /\ phase = "alone"
    /\ Deployed(Root, target)
    /\ phase' = "idle"
    /\ result' = "ok"
    /\ UNCHANGED <<world, plan, installs>>

(* A fetch, a build or a deploy fails: the rocks deployed so far stay.     *)
DeployFails ==
    /\ phase \in {"deploy", "alone"}
    /\ Fail("error")

Init ==
    /\ world \in Worlds
    /\ installed = world.tree
    /\ phase = "idle"
    /\ lookup = world.tree
    /\ target = NoVersion
    /\ stack = <<>>
    /\ chosen = [n \in Names |-> NoVersion]
    /\ inFlight = {}
    /\ order = <<>>
    /\ result = "none"
    /\ installs = 0

Walk ==
    \/ SkipProvided \/ SkipInstalled \/ SkipChosen \/ Pick \/ Return \/ Planned
    \/ ProvidedUnmet \/ Cycle \/ Conflict \/ NoCandidate \/ Interrupted

Deploy == DeployStep \/ DeployRoot \/ DeployAlone \/ DeployFails

Next == Start \/ StartAlone \/ Walk \/ Deploy

(* Install is a sequential function: it takes its next step.               *)
Spec == Init /\ [][Next]_vars /\ WF_vars(Walk) /\ WF_vars(Deploy)

-----------------------------------------------------------------------------
(* Properties.                                                             *)

DepsOf(n, v) == {world.deps[n][v][k] : k \in DOMAIN world.deps[n][v]}

Satisfied(d, tree) == ProvidedOK(d) \/ tree[d.name] \cap d.allow # {}

(* No rock is deployed before every dependency it declares is met by the VM *)
(* or by a rock in the tree, whatever failed installs, and installs that    *)
(* could not read the tree or resolved nothing, left there before.  The     *)
(* rock an Install with DepsNone was asked for is the one exception.        *)
DepsBeforeRock ==
    [][phase # "alone" =>
          \A n \in Names : \A v \in installed'[n] \ installed[n] :
             \A d \in DepsOf(n, v) : Satisfied(d, installed)]_vars

Resolved == {n \in Names : chosen[n] # NoVersion}

(* The plan is exact.  While the walk is on, a resolved name is either in   *)
(* flight or in the plan once, and when it is over the plan is what was     *)
(* resolved.  And no rock is resolved unless the root, or a resolved rock,  *)
(* declares a dependency on it that neither the VM nor the tree, as far as  *)
(* it could be read, meets.                                                 *)
PlanIsExact ==
    /\ phase = "walk" =>
          /\ Resolved = inFlight \cup {order[k] : k \in DOMAIN order}
          /\ \A k \in DOMAIN order : order[k] \notin inFlight
          /\ \A j, k \in DOMAIN order : order[j] = order[k] => j = k
          /\ inFlight = {stack[k].name : k \in 2..Len(stack)}
    /\ phase # "idle" => \A n \in Resolved :
          \/ \E d \in DepsOf(Root, target) : d.name = n /\ ToResolve(d)
          \/ \E m \in Resolved : \E d \in DepsOf(m, chosen[m]) : d.name = n /\ ToResolve(d)

(* A cycle is reported only if chosen rocks really depend on each other in  *)
(* a circle, that is if a (finite) set of them has no member without a      *)
(* dependency in the set: a dependency two rocks share is no cycle.         *)
CycleIsReal ==
    result = "cycle" =>
        \E S \in (SUBSET Resolved) \ {{}} :
            \A m \in S : \E d \in DepsOf(m, chosen[m]) : d.name \in S

(* Every Install ends.                                                     *)
InstallEnds == (phase # "idle") ~> (phase = "idle")

=============================================================================
