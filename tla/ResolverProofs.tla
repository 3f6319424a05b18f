--------------------------- MODULE ResolverProofs ---------------------------
(***************************************************************************)
(* PlanIsExact, DepsBeforeRock and CycleIsReal of Resolver, for any rocks, *)
(* versions, dependencies and trees, and any number of installs.           *)
(***************************************************************************)
EXTENDS Resolver, WellFoundedInduction, TLAPS

TreeType == [Names -> SUBSET Versions]

ResolverTypeOK ==
    /\ world \in World
    /\ installed \in TreeType
    /\ phase \in {"idle", "walk", "deploy", "alone"}
    /\ lookup \in TreeType
    /\ target \in Versions \cup {NoVersion}
    /\ stack \in Seq(Frame)
    /\ chosen \in [Names -> Versions \cup {NoVersion}]
    /\ inFlight \subseteq Names
    /\ order \in Seq(Names)

FrameDeps(f) == world.deps[f.name][f.ver]
Waiting(f)   == FrameDeps(f)[f.next]

(* The calls of walk: the first is for the root, each other one for the     *)
(* rock chosen for the dependency its caller is at, and no rock has two.    *)
Calls ==
    /\ Len(stack) >= 1
    /\ stack[1].name = Root /\ stack[1].ver = target
    /\ \A k \in 2..Len(stack) : chosen[stack[k].name] = stack[k].ver
    /\ \A j, k \in 2..Len(stack) : stack[j].name = stack[k].name => j = k
    /\ \A k \in 1..(Len(stack) - 1) :
          /\ stack[k].next <= Len(FrameDeps(stack[k]))
          /\ Waiting(stack[k]).name = stack[k + 1].name
          /\ stack[k + 1].ver \in Waiting(stack[k]).allow

(* The dependency d is met by the VM or the tree, or will be once the plan  *)
(* is carried out up to its k-th step.                                      *)
MetBefore(d, k) ==
    \/ ProvidedOK(d)
    \/ InstalledSatisfies(d)
    \/ /\ chosen[d.name] \in d.allow
       /\ \/ chosen[d.name] \in installed[d.name]
          \/ \E j \in DOMAIN order : j < k /\ order[j] = d.name

(* Every dependency a call is past is met by the plan so far.              *)
PastMet ==
    \A k \in DOMAIN stack :
        /\ stack[k].next <= Len(FrameDeps(stack[k])) + 1
        /\ \A i \in 1..(stack[k].next - 1) :
              MetBefore(FrameDeps(stack[k])[i], Len(order) + 1)

(* Every step of the plan comes after the dependencies of its rock.        *)
StepsMet ==
    \A k \in DOMAIN order :
        /\ chosen[order[k]] # NoVersion
        /\ \A d \in DepsOf(order[k], chosen[order[k]]) : MetBefore(d, k)

RootMet == \A d \in DepsOf(Root, target) : MetBefore(d, Len(order) + 1)

Planning ==
    /\ Resolved = inFlight \cup {order[k] : k \in DOMAIN order}
    /\ \A k \in DOMAIN order : order[k] \notin inFlight
    /\ \A j, k \in DOMAIN order : order[j] = order[k] => j = k
    /\ inFlight = {stack[k].name : k \in 2..Len(stack)}

Demanded(n) ==
    \/ \E d \in DepsOf(Root, target) : d.name = n /\ ToResolve(d)
    \/ \E m \in Resolved : \E d \in DepsOf(m, chosen[m]) : d.name = n /\ ToResolve(d)

ResolverInv ==
    /\ ResolverTypeOK
    /\ phase = "walk" => Calls /\ PastMet /\ Planning
    /\ phase = "deploy" => RootMet
    /\ phase \in {"walk", "deploy"} => \A n \in Names : lookup[n] \subseteq installed[n]
    /\ phase # "idle" =>
          /\ target \in Versions
          /\ result = "none"
          /\ StepsMet
          /\ \A n \in Resolved : Demanded(n)
    /\ CycleIsReal

-----------------------------------------------------------------------------
(* The operators of the model.                                             *)

(* pickNewest of a non-empty list returns one of its versions.             *)
LEMMA NewestIsOne ==
    ASSUME NEW S \in SUBSET Versions, S # {}
    PROVE  Newest(S) \in S
<1> DEFINE Bounds == {n \in Nat : \A u \in S : u <= n}
<1>1. Versions \subseteq Nat /\ \E top \in Versions : \A v \in Versions : v <= top
  BY ResolverAssumption
<1>2. Bounds # {} /\ Bounds \in SUBSET Nat
  BY <1>1
<1>3. PICK m \in Bounds : \A n \in Bounds : m <= n
  <2> HIDE DEF Bounds
  <2>1. PICK m \in Bounds : \A n \in Bounds : ~ (<<n, m>> \in OpToRel(<, Nat))
    BY <1>2, NatLessThanWellFounded, WFMin
  <2>2. \A n \in Bounds : ~ (n < m)
    BY <1>2, <2>1 DEF OpToRel
  <2> QED
    BY <1>2, <2>2
<1>4. m \in S
  <2> SUFFICES ASSUME m \notin S PROVE FALSE
    OBVIOUS
  <2>1. \A u \in S : u \in Nat /\ u < m
    BY <1>1, <1>3
  <2>2. m - 1 \in Bounds
    BY <2>1
  <2> QED
    BY <1>3, <2>2
<1> QED
  BY <1>3, <1>4 DEF Newest

-----------------------------------------------------------------------------
(* Facts of a state of the walk.                                           *)

LEMMA FrameFacts ==
    ASSUME ResolverTypeOK, NEW f \in Frame
    PROVE  /\ f.name \in Names /\ f.ver \in Versions /\ f.next \in Nat \ {0}
           /\ FrameDeps(f) \in Seq(Dep)
           /\ Len(FrameDeps(f)) \in Nat /\ DOMAIN FrameDeps(f) = 1..Len(FrameDeps(f))
           /\ f.next <= Len(FrameDeps(f)) =>
                 Waiting(f) \in Dep /\ Waiting(f) \in DepsOf(f.name, f.ver)
<1>1. f.name \in Names /\ f.ver \in Versions /\ f.next \in Nat \ {0}
  BY DEF Frame
<1>2. world.deps \in [Names -> [Versions -> Seq(Dep)]]
  BY DEF ResolverTypeOK, World
<1>3. world.deps[f.name] \in [Versions -> Seq(Dep)]
  BY <1>1, <1>2
<1>4. FrameDeps(f) \in Seq(Dep)
  BY <1>1, <1>3 DEF FrameDeps
<1>5. Len(FrameDeps(f)) \in Nat /\ DOMAIN FrameDeps(f) = 1..Len(FrameDeps(f))
  BY <1>4
<1>6. ASSUME f.next <= Len(FrameDeps(f))
      PROVE  Waiting(f) \in Dep /\ Waiting(f) \in DepsOf(f.name, f.ver)
  <2>1. f.next \in DOMAIN FrameDeps(f)
    BY <1>1, <1>5, <1>6
  <2>2. Waiting(f) \in Dep
    BY <1>4, <2>1 DEF Waiting
  <2> QED
    BY <2>1, <2>2 DEF Waiting, DepsOf, FrameDeps
<1> QED
  BY <1>1, <1>4, <1>5, <1>6

LEMMA TopFacts ==
    ASSUME ResolverInv, phase = "walk"
    PROVE  /\ Len(stack) \in Nat \ {0} /\ DOMAIN stack = 1..Len(stack)
           /\ Len(stack) \in DOMAIN stack
           /\ \A k \in DOMAIN stack : stack[k] \in Frame
           /\ Top \in Frame /\ TopDeps = FrameDeps(Top) /\ D = Waiting(Top)
           /\ Top = stack[Len(stack)]
<1>1. stack \in Seq(Frame) /\ Len(stack) >= 1
  BY DEF ResolverInv, ResolverTypeOK, Calls
<1> QED
  BY <1>1 DEF Top, TopDeps, FrameDeps, D, Waiting

LEMMA DepFacts ==
    ASSUME ResolverInv, AtDep
    PROVE  /\ D \in Dep /\ D.name \in Names /\ D.allow \subseteq Versions
           /\ D \in DepsOf(Top.name, Top.ver)
           /\ Top.next \in 1..Len(TopDeps)
<1>1. phase = "walk" /\ Top.next <= Len(TopDeps)
  BY DEF AtDep
<1>2. ResolverTypeOK /\ Top \in Frame /\ TopDeps = FrameDeps(Top) /\ D = Waiting(Top)
  BY <1>1, TopFacts DEF ResolverInv
<1>3. D \in Dep /\ D \in DepsOf(Top.name, Top.ver) /\ Top.next \in Nat \ {0}
  BY <1>1, <1>2, FrameFacts
<1> QED
  BY <1>1, <1>2, <1>3, FrameFacts DEF Dep

(* What the plan promises depends on the plan, the tree and the world only. *)
LEMMA SameMet ==
    ASSUME UNCHANGED <<world, lookup, chosen, installed, order>>
    PROVE  \A d, k : MetBefore(d, k)' <=> MetBefore(d, k)
BY DEF MetBefore, ProvidedOK, Provided, InstalledSatisfies

LEMMA SameDemand ==
    ASSUME UNCHANGED <<world, lookup, chosen, target>>
    PROVE  Resolved' = Resolved /\ \A n : Demanded(n)' <=> Demanded(n)
<1>1. Resolved' = Resolved
  BY DEF Resolved
<1>2. \A n, v : DepsOf(n, v)' = DepsOf(n, v)
  BY DEF DepsOf
<1>3. \A d : ToResolve(d)' <=> ToResolve(d)
  BY DEF ToResolve, Provided, InstalledSatisfies
<1> QED
  BY <1>1, <1>2, <1>3 DEF Demanded

LEMMA SameCycle ==
    ASSUME CycleIsReal, result' = "none" \/ UNCHANGED <<world, chosen, result>>
    PROVE  CycleIsReal'
<1>1. CASE result' = "none"
  BY <1>1 DEF CycleIsReal
<1>2. CASE UNCHANGED <<world, chosen, result>>
  <2>1. Resolved' = Resolved
    BY <1>2 DEF Resolved
  <2>2. \A m : DepsOf(m, chosen[m])' = DepsOf(m, chosen[m])
    BY <1>2 DEF DepsOf
  <2>3. SUFFICES ASSUME result = "cycle" PROVE CycleIsReal'
    BY <1>2 DEF CycleIsReal
  <2>4. PICK S \in (SUBSET Resolved) \ {{}} :
           \A m \in S : \E d \in DepsOf(m, chosen[m]) : d.name \in S
    BY <2>3 DEF CycleIsReal
  <2>5. S \in (SUBSET Resolved') \ {{}}
    BY <2>1, <2>4
  <2>6. \A m \in S : \E d \in DepsOf(m, chosen[m])' : d.name \in S
    BY <2>2, <2>4
  <2> QED
    BY <2>5, <2>6, Zenon DEF CycleIsReal
<1> QED
  BY <1>1, <1>2

-----------------------------------------------------------------------------
(* The stack of walk with its top advanced, and popped.                    *)

LEMMA AdvancedIs ==
    ASSUME NEW s \in Seq(Frame), s # <<>>
    PROVE  LET t == [s EXCEPT ![Len(s)].next = @ + 1]
           IN /\ t \in Seq(Frame) /\ Len(t) = Len(s)
              /\ \A k \in 1..Len(s) :
                    /\ t[k].name = s[k].name /\ t[k].ver = s[k].ver
                    /\ t[k].next = IF k = Len(s) THEN s[k].next + 1 ELSE s[k].next
                    /\ k # Len(s) => t[k] = s[k]
<1> DEFINE n == Len(s)
           f == [s[n] EXCEPT !.next = s[n].next + 1]
           t == [s EXCEPT ![n] = f]
<1>1. n \in Nat \ {0} /\ n \in DOMAIN s /\ DOMAIN s = 1..n /\ s[n] \in Frame
  OBVIOUS
<1>2. f \in Frame /\ f.name = s[n].name /\ f.ver = s[n].ver /\ f.next = s[n].next + 1
  BY <1>1 DEF Frame
<1>3. t = [s EXCEPT ![Len(s)].next = @ + 1]
  OBVIOUS
<1> HIDE DEF f
<1>4. t \in Seq(Frame) /\ Len(t) = n
  BY <1>1, <1>2
<1>5. \A k \in 1..n : t[k] = IF k = n THEN f ELSE s[k]
  BY <1>1
<1> HIDE DEF n, t
<1> QED
  BY <1>2, <1>3, <1>4, <1>5 DEF n

LEMMA PoppedIs ==
    ASSUME NEW s \in Seq(Frame), Len(s) > 1
    PROVE  LET n == Len(s)
               t == [SubSeq(s, 1, n - 1) EXCEPT ![n - 1].next = @ + 1]
           IN /\ t \in Seq(Frame) /\ Len(t) = n - 1
              /\ \A k \in 1..(n - 1) :
                    /\ t[k].name = s[k].name /\ t[k].ver = s[k].ver
                    /\ t[k].next = IF k = n - 1 THEN s[k].next + 1 ELSE s[k].next
                    /\ k # n - 1 => t[k] = s[k]
<1> DEFINE n == Len(s)
           u == SubSeq(s, 1, n - 1)
<1>1. n \in Nat /\ n - 1 \in 1..n
  OBVIOUS
<1>2. u \in Seq(Frame) /\ Len(u) = n - 1 /\ \A k \in 1..(n - 1) : u[k] = s[k]
  BY <1>1
<1> HIDE DEF u
<1>3. u # <<>>
  BY <1>1, <1>2
<1> DEFINE t == [u EXCEPT ![Len(u)].next = @ + 1]
<1>4. /\ t \in Seq(Frame) /\ Len(t) = Len(u)
      /\ \A k \in 1..Len(u) :
            /\ t[k].name = u[k].name /\ t[k].ver = u[k].ver
            /\ t[k].next = IF k = Len(u) THEN u[k].next + 1 ELSE u[k].next
            /\ k # Len(u) => t[k] = u[k]
  BY <1>2, <1>3, AdvancedIs
<1>5. t = [u EXCEPT ![n - 1].next = @ + 1]
  BY <1>2
<1> HIDE DEF t, n
<1> QED
  BY <1>2, <1>4, <1>5 DEF u, n

-----------------------------------------------------------------------------
(* What is met stays met while the walk resolves more names and the plan    *)
(* grows.                                                                   *)

Grown ==
    /\ UNCHANGED <<world, lookup>>
    /\ \A n \in Names : chosen[n] # NoVersion => chosen'[n] = chosen[n]
    /\ \A n \in Names : installed[n] \subseteq installed'[n]
    /\ \A j \in DOMAIN order : j \in DOMAIN order' /\ order'[j] = order[j]

LEMMA MetGrows ==
    ASSUME order \in Seq(Names), Grown, NEW d \in Dep,
           NEW k \in Nat, NEW l \in Nat, k <= l, MetBefore(d, k)
    PROVE  MetBefore(d, l)'
<1>1. d.name \in Names /\ d.allow \subseteq Versions /\ NoVersion \notin d.allow
  BY ResolverAssumption DEF Dep
<1>2. CASE ProvidedOK(d) \/ InstalledSatisfies(d)
  <2>1. (ProvidedOK(d) \/ InstalledSatisfies(d))'
    BY <1>2 DEF Grown, ProvidedOK, Provided, InstalledSatisfies
  <2> QED
    BY <2>1 DEF MetBefore
<1>3. CASE /\ chosen[d.name] \in d.allow
           /\ \/ chosen[d.name] \in installed[d.name]
              \/ \E j \in DOMAIN order : j < k /\ order[j] = d.name
  <2>1. chosen'[d.name] = chosen[d.name] /\ chosen'[d.name] \in d.allow
    BY <1>1, <1>3 DEF Grown
  <2>2. CASE chosen[d.name] \in installed[d.name]
    BY <1>1, <2>1, <2>2 DEF Grown, MetBefore
  <2>3. ASSUME NEW j \in DOMAIN order, j < k, order[j] = d.name
        PROVE  MetBefore(d, l)'
    <3>1. j \in DOMAIN order' /\ order'[j] = d.name
      BY <2>3 DEF Grown
    <3>2. CASE j < l
      BY <2>1, <3>1, <3>2 DEF MetBefore
    <3>3. j < l
      BY <2>3
    <3> QED
      BY <3>2, <3>3
  <2> QED
    BY <1>3, <2>2, <2>3
<1> QED
  BY <1>2, <1>3 DEF MetBefore

(* The parts of the invariant that a step of the walk leaves alone when it  *)
(* changes neither what is chosen nor what is planned.                      *)
LEMMA RestKept ==
    ASSUME ResolverInv,
           UNCHANGED <<world, installed, lookup, target, chosen, inFlight, order, result>>
    PROVE  /\ CycleIsReal' /\ Resolved' = Resolved
           /\ phase \in {"walk", "deploy"} =>
                 (\A n \in Names : lookup[n] \subseteq installed[n])'
           /\ phase # "idle" =>
                 /\ (target \in Versions)' /\ (result = "none")'
                 /\ StepsMet'
                 /\ (\A n \in Resolved : Demanded(n))'
<1>1. CycleIsReal'
  BY SameCycle DEF ResolverInv
<1>2. Resolved' = Resolved /\ \A n : Demanded(n)' <=> Demanded(n)
  BY SameDemand
<1>3. \A d, k : MetBefore(d, k)' <=> MetBefore(d, k)
  BY SameMet
<1>4. \A n, v : DepsOf(n, v)' = DepsOf(n, v)
  BY DEF DepsOf
<1>5. phase # "idle" => StepsMet'
  BY <1>3, <1>4 DEF ResolverInv, StepsMet
<1> QED
  BY <1>1, <1>2, <1>5 DEF ResolverInv

(* The loop of walk passes a dependency that is met.                       *)
LEMMA ContinueInv ==
    ASSUME ResolverInv, AtDep, Continue, MetBefore(D, Len(order) + 1)
    PROVE  ResolverInv'
<1>1. phase = "walk" /\ ResolverTypeOK /\ Calls /\ PastMet /\ Planning
  BY DEF ResolverInv, AtDep
<1> DEFINE n == Len(stack)
<1>2. /\ n \in Nat \ {0} /\ DOMAIN stack = 1..n /\ stack \in Seq(Frame) /\ stack # <<>>
      /\ \A k \in 1..n : stack[k] \in Frame
      /\ Top = stack[n] /\ TopDeps = FrameDeps(Top) /\ D = Waiting(Top)
  BY <1>1, TopFacts DEF ResolverTypeOK
<1>3. /\ stack' \in Seq(Frame) /\ Len(stack') = n
      /\ \A k \in 1..n :
            /\ stack'[k].name = stack[k].name /\ stack'[k].ver = stack[k].ver
            /\ stack'[k].next = IF k = n THEN stack[k].next + 1 ELSE stack[k].next
            /\ k # n => stack'[k] = stack[k]
  BY <1>2, AdvancedIs DEF Continue, Advanced
<1>4. DOMAIN stack' = 1..n /\ \A k \in 1..n : FrameDeps(stack[k])' = FrameDeps(stack[k])
  BY <1>3 DEF Continue, FrameDeps
<1>5. UNCHANGED <<world, installed, phase, lookup, target, chosen, inFlight, order, result>>
  BY DEF Continue
<1>6. ResolverTypeOK'
  BY <1>1, <1>3, <1>5 DEF ResolverTypeOK
<1>7. Calls'
  <2>1. ASSUME NEW k \in 1..(n - 1)
        PROVE  /\ stack'[k] = stack[k] /\ stack'[k + 1].name = stack[k + 1].name
               /\ stack'[k + 1].ver = stack[k + 1].ver
               /\ Waiting(stack[k])' = Waiting(stack[k])
    <3>1. k \in 1..n /\ k # n /\ k + 1 \in 1..n
      <4>1. n \in Nat
        BY <1>2
      <4> QED
        BY <4>1
    <3>2. /\ stack'[k] = stack[k] /\ stack'[k + 1].name = stack[k + 1].name
          /\ stack'[k + 1].ver = stack[k + 1].ver
      BY <1>3, <3>1
    <3>3. Waiting(stack[k])' = Waiting(stack[k])
      BY <1>5, <3>2 DEF Waiting, FrameDeps
    <3> QED
      BY <3>2, <3>3
  <2>2. \A k \in 1..(n - 1) : k \in 1..n
    BY <1>2
  <2>3. 2..n \subseteq 1..n /\ 1 \in 1..n
    BY <1>2
  <2>4. Len(stack') >= 1 /\ stack'[1].name = Root /\ stack'[1].ver = target
    BY <1>1, <1>3, <2>3 DEF Calls
  <2>5. /\ \A k \in 2..n : chosen[stack'[k].name] = stack'[k].ver
        /\ \A j, k \in 2..n : stack'[j].name = stack'[k].name => j = k
    <3> HIDE DEF n
    <3> QED
      BY <1>1, <1>3, <2>3 DEF Calls, n
  <2>6. ASSUME NEW k \in 1..(n - 1)
        PROVE  /\ stack'[k].next <= Len(FrameDeps(stack[k])')
               /\ Waiting(stack[k])'.name = stack'[k + 1].name
               /\ stack'[k + 1].ver \in Waiting(stack[k])'.allow
    BY <1>1, <1>4, <2>1, <2>2 DEF Calls
  <2> QED
    BY <1>3, <1>5, <2>4, <2>5, <2>6 DEF Calls
<1>8. PastMet'
  <2>1. \A d, k : MetBefore(d, k)' <=> MetBefore(d, k)
    BY <1>5, SameMet
  <2>2. ASSUME NEW k \in 1..n
        PROVE  /\ stack'[k].next <= Len(FrameDeps(stack[k])) + 1
               /\ \A i \in 1..(stack'[k].next - 1) :
                     MetBefore(FrameDeps(stack[k])[i], Len(order) + 1)
    <3>1. /\ stack[k].next \in Nat \ {0} /\ stack[k].next <= Len(FrameDeps(stack[k])) + 1
          /\ \A i \in 1..(stack[k].next - 1) :
                MetBefore(FrameDeps(stack[k])[i], Len(order) + 1)
      BY <1>1, <1>2, FrameFacts DEF PastMet
    <3>2. CASE k # n
      BY <1>3, <3>1, <3>2
    <3>3. CASE k = n
      <4>1. Top.next <= Len(TopDeps) /\ Len(TopDeps) \in Nat
        BY <1>1, <1>2, FrameFacts DEF AtDep
      <4>2. stack'[k].next = stack[k].next + 1
        BY <1>3, <3>3
      <4>3. stack'[k].next - 1 = stack[k].next
        BY <3>1, <4>2
      <4>4. stack'[k].next <= Len(FrameDeps(stack[k])) + 1
        BY <1>2, <3>1, <3>3, <4>1, <4>2
      <4>5. FrameDeps(stack[k])[stack[k].next] = D
        BY <1>2, <3>3 DEF Waiting
      <4>6. \A i \in 1..stack[k].next : i = stack[k].next \/ i \in 1..(stack[k].next - 1)
        BY <3>1
      <4> QED
        BY <3>1, <4>3, <4>4, <4>5, <4>6
    <3> QED
      BY <3>2, <3>3
  <2> QED
    BY <1>4, <1>5, <2>1, <2>2 DEF PastMet
<1>9. Planning'
  <2>1. 2..n \subseteq 1..n
    BY <1>2
  <2>2. {stack'[k].name : k \in 2..n} = {stack[k].name : k \in 2..n}
    BY <1>3, <2>1
  <2>3. Resolved' = Resolved
    BY <1>5 DEF Resolved
  <2> QED
    BY <1>1, <1>3, <1>5, <2>2, <2>3 DEF Planning
<1> QED
  BY <1>1, <1>5, <1>6, <1>7, <1>8, <1>9, RestKept DEF ResolverInv

(* The walk picks a version and calls itself for it.                       *)
LEMMA PickInv ==
    ASSUME ResolverInv, Pick
    PROVE  ResolverInv'
<1>1. /\ AtDep /\ phase = "walk" /\ ResolverTypeOK /\ Calls /\ PastMet /\ Planning
      /\ target \in Versions /\ result = "none" /\ StepsMet
      /\ \A m \in Resolved : Demanded(m)
  BY DEF ResolverInv, AtDep, Pick
<1> DEFINE n == Len(stack)
           v == Newest(Matching(D))
           f == Call(D.name, v)
<1>2. /\ n \in Nat \ {0} /\ DOMAIN stack = 1..n /\ stack \in Seq(Frame)
      /\ \A k \in 1..n : stack[k] \in Frame
      /\ Top = stack[n] /\ TopDeps = FrameDeps(Top) /\ D = Waiting(Top)
  BY <1>1, TopFacts DEF ResolverTypeOK
<1>3. /\ D \in Dep /\ D.name \in Names /\ D.allow \subseteq Versions
      /\ D \in DepsOf(Top.name, Top.ver)
  BY <1>1, DepFacts
<1>4. v \in D.allow /\ v \in Versions /\ v # NoVersion
  <2>1. Matching(D) \in SUBSET Versions /\ Matching(D) # {} /\ Matching(D) \subseteq D.allow
    BY <1>3 DEF Pick, Matching
  <2>2. v \in Matching(D)
    BY <2>1, NewestIsOne
  <2> QED
    BY <2>1, <2>2, ResolverAssumption
<1> HIDE DEF v
<1>5. f \in Frame /\ f.name = D.name /\ f.ver = v /\ f.next = 1
  BY <1>3, <1>4 DEF Call, Frame
<1>6. /\ UNCHANGED <<world, installed, phase, lookup, target, order, result>>
      /\ stack' = Append(stack, f) /\ inFlight' = inFlight \cup {D.name}
      /\ chosen' = [chosen EXCEPT ![D.name] = v]
      /\ ToResolve(D) /\ D.name \notin inFlight /\ chosen[D.name] = NoVersion
  BY DEF Pick, v
<1> HIDE DEF f
<1>7. /\ stack' \in Seq(Frame) /\ Len(stack') = n + 1 /\ DOMAIN stack' = 1..(n + 1)
      /\ stack'[n + 1] = f /\ \A k \in 1..n : stack'[k] = stack[k]
  BY <1>2, <1>5, <1>6
<1>8. /\ chosen' \in [Names -> Versions \cup {NoVersion}] /\ chosen'[D.name] = v
      /\ \A m \in Names : m # D.name => chosen'[m] = chosen[m]
      /\ \A m \in Names : chosen[m] # NoVersion => chosen'[m] = chosen[m] /\ m # D.name
  BY <1>1, <1>3, <1>4, <1>6 DEF ResolverTypeOK
<1>9. Resolved' = Resolved \cup {D.name} /\ D.name \notin Resolved
  BY <1>3, <1>4, <1>6, <1>8 DEF Resolved
<1>10. Grown /\ order \in Seq(Names) /\ Len(order) \in Nat
  BY <1>1, <1>6, <1>8 DEF Grown, ResolverTypeOK
<1>11. ResolverTypeOK'
  BY <1>1, <1>3, <1>6, <1>7, <1>8 DEF ResolverTypeOK
<1>12. \A k \in 1..n : /\ FrameDeps(stack[k])' = FrameDeps(stack[k])
                       /\ Waiting(stack[k])' = Waiting(stack[k])
  BY <1>6, <1>7 DEF FrameDeps, Waiting
<1>13. \A k \in 2..n : chosen[stack[k].name] # NoVersion /\ stack[k].name \in inFlight
  <2>1. 2..n \subseteq 1..n
    BY <1>2
  <2> QED
    BY <1>1, <1>2, <2>1, ResolverAssumption DEF Calls, Planning, Frame
<1>14. Calls'
  <2>1. 2..n \subseteq 1..n /\ 1 \in 1..n /\ n + 1 >= 1 /\ \A k \in 2..(n + 1) : k = n + 1 \/ k \in 2..n
    BY <1>2
  <2>2. stack'[1].name = Root /\ stack'[1].ver = target
    BY <1>1, <1>7, <2>1 DEF Calls
  <2>3. \A k \in 2..(n + 1) : chosen'[stack'[k].name] = stack'[k].ver
    <3>1. \A k \in 2..n : stack[k].name \in Names
      BY <1>2, <2>1 DEF Frame
    <3>2. \A k \in 2..n : chosen'[stack[k].name] = stack[k].ver
      BY <1>1, <1>8, <1>13, <3>1 DEF Calls
    <3> QED
      BY <1>5, <1>7, <1>8, <2>1, <3>2
  <2>4. \A j, k \in 2..(n + 1) : stack'[j].name = stack'[k].name => j = k
    <3>1. \A k \in 2..n : stack'[k].name # D.name
      BY <1>6, <1>7, <1>13, <2>1
    <3>2. \A j, k \in 2..n : stack'[j].name = stack'[k].name => j = k
      BY <1>1, <1>7, <2>1 DEF Calls
    <3> QED
      BY <1>5, <1>7, <2>1, <3>1, <3>2
  <2>5. ASSUME NEW k \in 1..n
        PROVE  /\ stack'[k].next <= Len(FrameDeps(stack[k])')
               /\ Waiting(stack[k])'.name = stack'[k + 1].name
               /\ stack'[k + 1].ver \in Waiting(stack[k])'.allow
    <3>1. stack'[k] = stack[k] /\ FrameDeps(stack[k])' = FrameDeps(stack[k])
          /\ Waiting(stack[k])' = Waiting(stack[k])
      BY <1>7, <1>12
    <3>2. CASE k = n
      BY <1>1, <1>2, <1>4, <1>5, <1>7, <3>1, <3>2 DEF AtDep
    <3>3. CASE k # n
      <4>1. k \in 1..(n - 1) /\ k + 1 \in 1..n
        <5>1. n \in Nat
          BY <1>2
        <5> QED
          BY <3>3, <5>1
      <4> QED
        BY <1>1, <1>7, <3>1, <4>1 DEF Calls
    <3> QED
      BY <3>2, <3>3
  <2>6. Len(stack') = n + 1 /\ (n + 1) - 1 = n /\ n + 1 >= 1
    BY <1>2, <1>7
  <2> QED
    BY <1>6, <2>2, <2>3, <2>4, <2>5, <2>6 DEF Calls
<1>15. PastMet'
  <2>1. ASSUME NEW k \in 1..n
        PROVE  /\ stack[k].next <= Len(FrameDeps(stack[k])) + 1
               /\ \A i \in 1..(stack[k].next - 1) :
                     MetBefore(FrameDeps(stack[k])[i], Len(order) + 1)'
    <3>1. /\ FrameDeps(stack[k]) \in Seq(Dep) /\ stack[k].next \in Nat \ {0}
          /\ stack[k].next <= Len(FrameDeps(stack[k])) + 1
          /\ \A i \in 1..(stack[k].next - 1) :
                MetBefore(FrameDeps(stack[k])[i], Len(order) + 1)
      BY <1>1, <1>2, FrameFacts DEF PastMet
    <3>2. ASSUME NEW i \in 1..(stack[k].next - 1)
          PROVE  MetBefore(FrameDeps(stack[k])[i], Len(order) + 1)'
      <4>1. FrameDeps(stack[k])[i] \in Dep
        BY <3>1
      <4>2. MetBefore(FrameDeps(stack[k])[i], Len(order) + 1)
        BY <3>1
      <4>3. FrameDeps(stack[k])' = FrameDeps(stack[k]) /\ order' = order
        BY <1>6, <1>12
      <4> QED
        BY <1>10, <4>1, <4>2, <4>3, MetGrows
    <3> QED
      BY <3>1, <3>2
  <2>2. f.next <= Len(FrameDeps(f)) + 1 /\ 1..(f.next - 1) = {}
    BY <1>1, <1>5, FrameFacts
  <2>3. ASSUME NEW k, k = n + 1
        PROVE  stack'[k] = f /\ FrameDeps(stack[k])' = FrameDeps(f)
    BY <1>6, <1>7, <2>3 DEF FrameDeps
  <2>4. \A k \in 1..(n + 1) : k = n + 1 \/ k \in 1..n
    BY <1>2
  <2>5. ASSUME NEW k \in 1..(n + 1)
        PROVE  /\ stack'[k].next <= Len(FrameDeps(stack[k])') + 1
               /\ \A i \in 1..(stack'[k].next - 1) :
                     MetBefore(FrameDeps(stack[k])[i], Len(order) + 1)'
    <3>1. CASE k \in 1..n
      BY <1>7, <1>12, <2>1, <3>1
    <3>2. CASE k = n + 1
      BY <2>2, <2>3, <3>2
    <3> QED
      BY <2>4, <3>1, <3>2
  <2> QED
    BY <1>7, <2>5 DEF PastMet
<1>16. Planning'
  <2>1. \A k \in DOMAIN order : order[k] \in Resolved
    BY <1>1 DEF Planning
  <2>2. inFlight' = {stack'[k].name : k \in 2..(n + 1)}
    <3>1. 2..(n + 1) = (2..n) \cup {n + 1} /\ 2..n \subseteq 1..n
      BY <1>2
    <3> QED
      BY <1>1, <1>5, <1>6, <1>7, <3>1 DEF Planning
  <2>3. \A k \in DOMAIN order : order[k] \notin inFlight'
    BY <1>1, <1>6, <1>9, <2>1 DEF Planning
  <2>4. Resolved' = inFlight' \cup {order[k] : k \in DOMAIN order}
    BY <1>1, <1>6, <1>9 DEF Planning
  <2>5. \A j, k \in DOMAIN order : order[j] = order[k] => j = k
    BY <1>1 DEF Planning
  <2>6. order' = order /\ Len(stack') = n + 1
    BY <1>6, <1>7
  <2> QED
    BY <2>2, <2>3, <2>4, <2>5, <2>6 DEF Planning
<1>17. StepsMet'
  <2>1. ASSUME NEW k \in DOMAIN order, NEW d \in DepsOf(order[k], chosen[order[k]])
        PROVE  MetBefore(d, k)'
    <3>1. order[k] \in Names /\ k \in Nat /\ chosen[order[k]] \in Versions
      BY <1>1, <1>10 DEF StepsMet, ResolverTypeOK
    <3>2. d \in Dep
      BY <1>1, <3>1 DEF ResolverTypeOK, World, DepsOf
    <3> QED
      BY <1>1, <1>10, <3>1, <3>2, MetGrows DEF StepsMet
  <2>2. \A m, u : DepsOf(m, u)' = DepsOf(m, u)
    BY <1>6 DEF DepsOf
  <2>3. \A k \in DOMAIN order : order[k] \in Names /\ chosen'[order[k]] = chosen[order[k]]
    BY <1>1, <1>8, <1>10 DEF StepsMet
  <2> QED
    BY <1>1, <1>6, <2>1, <2>2, <2>3 DEF StepsMet
<1>18. (\A m \in Resolved : Demanded(m))'
  <2>1. \A m, u : DepsOf(m, u)' = DepsOf(m, u)
    BY <1>6 DEF DepsOf
  <2>2. \A d : ToResolve(d)' <=> ToResolve(d)
    BY <1>6 DEF ToResolve, Provided, InstalledSatisfies
  <2>3. \A m \in Resolved : m \in Resolved' /\ chosen'[m] = chosen[m]
    BY <1>8, <1>9 DEF Resolved
  <2>4. \A m \in Resolved : Demanded(m)'
    BY <1>1, <1>6, <2>1, <2>2, <2>3 DEF Demanded
  <2>5. ASSUME NEW m, m = D.name
        PROVE  Demanded(m)'
    <3>1. CASE n = 1
      BY <1>1, <1>2, <1>3, <1>6, <2>1, <2>2, <2>5, <3>1 DEF Demanded, Calls
    <3>2. CASE n # 1
      <4>1. n \in 2..n
        BY <1>2, <3>2
      <4>2. Top.name \in Resolved /\ chosen[Top.name] = Top.ver
        BY <1>1, <1>2, <4>1 DEF Planning, Calls
      <4> QED
        BY <1>3, <1>6, <2>1, <2>2, <2>3, <2>5, <4>2 DEF Demanded
    <3> QED
      BY <3>1, <3>2
  <2> QED
    BY <1>3, <1>6, <1>9, <2>4, <2>5
<1>19. CycleIsReal'
  BY <1>1, <1>6, SameCycle DEF ResolverInv
<1> QED
  BY <1>1, <1>6, <1>11, <1>14, <1>15, <1>16, <1>17, <1>18, <1>19 DEF ResolverInv

(* A call is over: every dependency of its rock is met by the plan so far. *)
LEMMA AllPast ==
    ASSUME ResolverInv, AtEnd
    PROVE  \A d \in DepsOf(Top.name, Top.ver) : d \in Dep /\ MetBefore(d, Len(order) + 1)
<1>1. phase = "walk" /\ ResolverTypeOK /\ PastMet /\ Top.next > Len(TopDeps)
  BY DEF ResolverInv, AtEnd
<1>2. /\ Top \in Frame /\ Top = stack[Len(stack)] /\ Len(stack) \in DOMAIN stack
      /\ TopDeps = FrameDeps(Top)
  BY <1>1, TopFacts
<1>3. /\ Top.next \in Nat /\ Len(TopDeps) \in Nat /\ DOMAIN TopDeps = 1..Len(TopDeps)
      /\ TopDeps \in Seq(Dep)
  BY <1>1, <1>2, FrameFacts
<1>4. DOMAIN TopDeps \subseteq 1..(Top.next - 1)
  BY <1>1, <1>3
<1>5. \A i \in 1..(Top.next - 1) : MetBefore(TopDeps[i], Len(order) + 1)
  BY <1>1, <1>2 DEF PastMet
<1>6. \A i \in DOMAIN TopDeps : TopDeps[i] \in Dep
  BY <1>3
<1> QED
  BY <1>4, <1>5, <1>6 DEF DepsOf, TopDeps

(* A call returns: its rock is the next step of the plan.                  *)
LEMMA ReturnInv ==
    ASSUME ResolverInv, Return
    PROVE  ResolverInv'
<1>1. /\ AtEnd /\ phase = "walk" /\ ResolverTypeOK /\ Calls /\ PastMet /\ Planning
      /\ target \in Versions /\ result = "none" /\ StepsMet
      /\ \A m \in Resolved : Demanded(m)
  BY DEF ResolverInv, AtEnd, Return
<1> DEFINE n == Len(stack)
           p == Len(order)
<1>2. /\ n \in Nat \ {0} /\ DOMAIN stack = 1..n /\ stack \in Seq(Frame)
      /\ \A k \in 1..n : stack[k] \in Frame
      /\ Top = stack[n] /\ Top \in Frame
  BY <1>1, TopFacts DEF ResolverTypeOK
<1>3. n \in Nat /\ n > 1 /\ n \in 2..n /\ n - 1 \in 1..n
  <2>1. n \in Nat /\ n > 1
    BY <1>2 DEF Return
  <2> QED
    BY <2>1
<1>4. /\ UNCHANGED <<world, installed, phase, lookup, target, chosen, result>>
      /\ inFlight' = inFlight \ {Top.name} /\ order' = Append(order, Top.name)
  BY DEF Return
<1>5. /\ stack' \in Seq(Frame) /\ Len(stack') = n - 1
      /\ \A k \in 1..(n - 1) :
            /\ stack'[k].name = stack[k].name /\ stack'[k].ver = stack[k].ver
            /\ stack'[k].next = IF k = n - 1 THEN stack[k].next + 1 ELSE stack[k].next
            /\ k # n - 1 => stack'[k] = stack[k]
  BY <1>2, <1>3, PoppedIs DEF Return, Popped
<1>6. DOMAIN stack' = 1..(n - 1)
  BY <1>5
<1>7. order \in Seq(Names) /\ p \in Nat /\ DOMAIN order = 1..p /\ Top.name \in Names
  BY <1>1, <1>2 DEF ResolverTypeOK, Frame
<1>8. /\ order' \in Seq(Names) /\ Len(order') = p + 1 /\ DOMAIN order' = 1..(p + 1)
      /\ order'[p + 1] = Top.name /\ \A k \in 1..p : order'[k] = order[k]
  BY <1>4, <1>7
<1>9. 1..(p + 1) = (1..p) \cup {p + 1} /\ p + 1 \notin 1..p
  BY <1>7
<1>10. Grown
  BY <1>4, <1>7, <1>8, <1>9 DEF Grown
<1>11. /\ chosen[Top.name] = Top.ver /\ Top.ver # NoVersion /\ Top.name \in inFlight
       /\ Waiting(stack[n - 1]).name = Top.name /\ Top.ver \in Waiting(stack[n - 1]).allow
       /\ stack[n - 1].next <= Len(FrameDeps(stack[n - 1]))
  <2>1. chosen[Top.name] = Top.ver /\ Top.name \in inFlight
    BY <1>1, <1>2, <1>3 DEF Calls, Planning
  <2>2. Top.ver # NoVersion
    BY <1>2, ResolverAssumption DEF Frame
  <2>3. n - 1 \in 1..(n - 1) /\ (n - 1) + 1 = n
    BY <1>3
  <2> QED
    BY <1>1, <1>2, <2>1, <2>2, <2>3 DEF Calls
<1>12. ResolverTypeOK'
  BY <1>1, <1>4, <1>5, <1>8 DEF ResolverTypeOK
<1>13. 2..(n - 1) \subseteq 2..n /\ 2..(n - 1) \subseteq 1..(n - 1) /\ 1 \in 1..(n - 1)
       /\ 1..(n - 1) \subseteq 1..n /\ n - 1 >= 1 /\ 2..n = (2..(n - 1)) \cup {n} /\ n \notin 2..(n - 1)
  BY <1>3
<1>14. \A k \in 1..(n - 1) : FrameDeps(stack[k])' = FrameDeps(stack[k])
  BY <1>4, <1>5 DEF FrameDeps
<1>15. Calls'
  <2>1. stack'[1].name = Root /\ stack'[1].ver = target
    BY <1>1, <1>5, <1>13 DEF Calls
  <2>2. \A k \in 2..(n - 1) : chosen[stack'[k].name] = stack'[k].ver
    BY <1>1, <1>5, <1>13 DEF Calls
  <2>3. \A j, k \in 2..(n - 1) : stack'[j].name = stack'[k].name => j = k
    BY <1>1, <1>5, <1>13 DEF Calls
  <2>4. ASSUME NEW k \in 1..((n - 1) - 1)
        PROVE  /\ stack'[k].next <= Len(FrameDeps(stack[k])')
               /\ Waiting(stack[k])'.name = stack'[k + 1].name
               /\ stack'[k + 1].ver \in Waiting(stack[k])'.allow
    <3>1. k \in 1..(n - 1) /\ k # n - 1 /\ k + 1 \in 1..(n - 1)
      BY <1>3
    <3>2. /\ stack'[k] = stack[k] /\ stack'[k + 1].name = stack[k + 1].name
          /\ stack'[k + 1].ver = stack[k + 1].ver
      BY <1>5, <3>1
    <3>3. Waiting(stack[k])' = Waiting(stack[k]) /\ FrameDeps(stack[k])' = FrameDeps(stack[k])
      BY <1>4, <3>2 DEF Waiting, FrameDeps
    <3> QED
      BY <1>1, <3>1, <3>2, <3>3 DEF Calls
  <2> QED
    BY <1>4, <1>5, <1>13, <2>1, <2>2, <2>3, <2>4 DEF Calls
<1>16. PastMet'
  <2> SUFFICES ASSUME NEW k \in 1..(n - 1)
               PROVE  /\ stack'[k].next <= Len(FrameDeps(stack[k])') + 1
                      /\ \A i \in 1..(stack'[k].next - 1) :
                            MetBefore(FrameDeps(stack[k])[i], Len(order) + 1)'
    BY <1>6 DEF PastMet
  <2>1. k \in 1..n /\ FrameDeps(stack[k])' = FrameDeps(stack[k])
    BY <1>13, <1>14
  <2>2. /\ stack[k].next \in Nat \ {0} /\ stack[k].next <= Len(FrameDeps(stack[k])) + 1
        /\ Len(FrameDeps(stack[k])) \in Nat /\ FrameDeps(stack[k]) \in Seq(Dep)
        /\ \A i \in 1..(stack[k].next - 1) : MetBefore(FrameDeps(stack[k])[i], p + 1)
    BY <1>1, <1>2, <2>1, FrameFacts DEF PastMet
  <2>3. ASSUME NEW i \in 1..(stack[k].next - 1)
        PROVE  MetBefore(FrameDeps(stack[k])[i], Len(order) + 1)'
    <3>1. FrameDeps(stack[k])[i] \in Dep
      BY <2>2
    <3>2. p + 1 \in Nat /\ Len(order') + 1 \in Nat /\ p + 1 <= Len(order') + 1
      BY <1>7, <1>8
    <3>3. PICK d \in Dep : d = FrameDeps(stack[k])[i]
      BY <3>1
    <3>4. MetBefore(d, Len(order) + 1)'
      BY <1>7, <1>10, <2>2, <3>2, <3>3, MetGrows
    <3> QED
      BY <2>1, <3>3, <3>4
  <2>4. CASE k # n - 1
    BY <1>5, <2>1, <2>2, <2>3, <2>4
  <2>5. CASE k = n - 1
    <3>1. stack'[k].next = stack[k].next + 1 /\ stack'[k].next - 1 = stack[k].next
      <4>1. stack'[k].next = stack[k].next + 1
        BY <1>5, <2>5
      <4> QED
        BY <2>2, <4>1
    <3>2. stack[k].next <= Len(FrameDeps(stack[k]))
      BY <1>11, <2>5
    <3>3. ASSUME NEW j, j = stack[k].next
          PROVE  MetBefore(FrameDeps(stack[k])[j], Len(order) + 1)'
      <4>1. p + 1 \in DOMAIN order' /\ p + 1 < Len(order') + 1
        BY <1>7, <1>8
      <4>2. PICK d : d = FrameDeps(stack[k])[j]
        OBVIOUS
      <4>3. d.name = Top.name /\ chosen'[d.name] \in d.allow
        BY <1>4, <1>11, <2>5, <3>3, <4>2 DEF Waiting
      <4>4. MetBefore(d, Len(order) + 1)'
        BY <1>8, <4>1, <4>3 DEF MetBefore
      <4> QED
        BY <2>1, <4>2, <4>4
    <3>4. \A i \in 1..stack[k].next : i = stack[k].next \/ i \in 1..(stack[k].next - 1)
      BY <2>2
    <3> QED
      BY <2>1, <2>2, <2>3, <3>1, <3>2, <3>3, <3>4
  <2> QED
    BY <2>4, <2>5
<1>17. Resolved' = Resolved /\ \A m : Demanded(m)' <=> Demanded(m)
  BY <1>4, SameDemand
<1>18. Planning'
  <2>1. {order'[k] : k \in DOMAIN order'} = {order[k] : k \in DOMAIN order} \cup {Top.name}
    BY <1>7, <1>8, <1>9
  <2>2. Resolved' = inFlight' \cup {order'[k] : k \in DOMAIN order'}
    BY <1>1, <1>4, <1>11, <1>17, <2>1 DEF Planning
  <2>3. \A k \in 1..p : order[k] # Top.name /\ order[k] \notin inFlight
    BY <1>1, <1>7, <1>11 DEF Planning
  <2>4. \A k \in DOMAIN order' : order'[k] \notin inFlight'
    BY <1>4, <1>8, <1>9, <2>3
  <2>5. \A j, k \in 1..p : order[j] = order[k] => j = k
    BY <1>1, <1>7 DEF Planning
  <2>6. \A j, k \in DOMAIN order' : order'[j] = order'[k] => j = k
    BY <1>8, <1>9, <2>3, <2>5
  <2>7. inFlight' = {stack'[k].name : k \in 2..(n - 1)}
    <3>1. {stack'[k].name : k \in 2..(n - 1)} = {stack[k].name : k \in 2..(n - 1)}
      BY SMTT(60), <1>5, <1>13
    <3>2. \A k \in 2..(n - 1) : stack[k].name # Top.name
      BY <1>1, <1>2, <1>3, <1>13 DEF Calls
    <3>3. inFlight = {stack[k].name : k \in 2..(n - 1)} \cup {Top.name}
      BY <1>1, <1>2, <1>13 DEF Planning
    <3> QED
      BY <1>4, <3>1, <3>2, <3>3
  <2> QED
    BY <1>5, <2>2, <2>4, <2>6, <2>7 DEF Planning
<1>19. StepsMet'
  <2>1. \A m, u : DepsOf(m, u)' = DepsOf(m, u)
    BY <1>4 DEF DepsOf
  <2>2. ASSUME NEW k \in 1..p
        PROVE  chosen[order[k]] # NoVersion /\ \A d \in DepsOf(order[k], chosen[order[k]]) : MetBefore(d, k)'
    <3>1. order[k] \in Names /\ k \in Nat /\ chosen[order[k]] \in Versions
      BY <1>1, <1>7 DEF StepsMet, ResolverTypeOK
    <3>2. \A d \in DepsOf(order[k], chosen[order[k]]) : d \in Dep
      BY <1>1, <3>1 DEF ResolverTypeOK, World, DepsOf
    <3>3. \A d \in Dep : MetBefore(d, k) => MetBefore(d, k)'
      BY <1>7, <1>10, <3>1, MetGrows
    <3> QED
      BY <1>1, <1>7, <3>2, <3>3 DEF StepsMet
  <2>3. ASSUME NEW k, k = p + 1
        PROVE  \A d \in DepsOf(Top.name, Top.ver) : MetBefore(d, k)'
    <3>1. \A d \in DepsOf(Top.name, Top.ver) : d \in Dep /\ MetBefore(d, p + 1)
      BY <1>1, AllPast
    <3>2. k \in Nat /\ k <= k
      BY <1>7, <2>3
    <3>3. \A d \in Dep : MetBefore(d, k) => MetBefore(d, k)'
      BY <1>7, <1>10, <3>2, MetGrows
    <3> QED
      BY <2>3, <3>1, <3>3
  <2>4. ASSUME NEW k \in DOMAIN order'
        PROVE  /\ chosen'[order'[k]] # NoVersion
               /\ \A d \in DepsOf(order[k], chosen[order[k]])' : MetBefore(d, k)'
    <3>1. CASE k \in 1..p
      BY <1>4, <1>8, <2>1, <2>2, <3>1
    <3>2. CASE k = p + 1
      BY <1>4, <1>8, <1>11, <2>1, <2>3, <3>2
    <3> QED
      BY <1>8, <1>9, <3>1, <3>2
  <2> QED
    BY <2>4 DEF StepsMet
<1>20. CycleIsReal'
  BY <1>1, <1>4, SameCycle DEF ResolverInv
<1> QED
  BY <1>1, <1>4, <1>12, <1>15, <1>16, <1>17, <1>18, <1>19, <1>20 DEF ResolverInv

(* The walk of the root is over: the plan meets every dependency.          *)
LEMMA PlannedInv ==
    ASSUME ResolverInv, Planned
    PROVE  ResolverInv'
<1>1. /\ AtEnd /\ phase = "walk" /\ ResolverTypeOK /\ Calls /\ phase' = "deploy"
      /\ UNCHANGED <<world, installed, lookup, target, stack, chosen, inFlight, order, result>>
  BY DEF ResolverInv, AtEnd, Planned, plan
<1>2. Top.name = Root /\ Top.ver = target
  BY <1>1 DEF Calls, Top, Planned
<1>3. RootMet
  BY <1>1, <1>2, AllPast DEF RootMet
<1>4. RootMet'
  <2>1. DepsOf(Root, target)' = DepsOf(Root, target)
    BY <1>1 DEF DepsOf
  <2>2. \A d, k : MetBefore(d, k)' <=> MetBefore(d, k)
    BY <1>1, SameMet
  <2> QED
    BY <1>1, <1>3, <2>1, <2>2 DEF RootMet
<1>5. ResolverTypeOK'
  BY <1>1 DEF ResolverTypeOK
<1> QED
  BY <1>1, <1>4, <1>5, RestKept DEF ResolverInv

(* Install returns.                                                        *)
LEMMA IdleInv ==
    ASSUME ResolverInv, phase' = "idle", CycleIsReal',
           UNCHANGED <<world, lookup, target, stack, chosen, inFlight, order>>,
           installed' \in TreeType
    PROVE  ResolverInv'
BY DEF ResolverInv, ResolverTypeOK

LEMMA FailInv ==
    ASSUME ResolverInv, NEW why, why # "cycle", Fail(why)
    PROVE  ResolverInv'
<1>1. /\ phase' = "idle" /\ result' = why
      /\ UNCHANGED <<world, installed, lookup, target, stack, chosen, inFlight, order>>
  BY DEF Fail, plan
<1>2. CycleIsReal' /\ installed' \in TreeType
  BY <1>1 DEF CycleIsReal, ResolverInv, ResolverTypeOK
<1> QED
  BY <1>1, <1>2, IdleInv

(* A name in flight is demanded again: the calls from its own to the top    *)
(* one are for rocks each of which depends on the next, and the last on     *)
(* the first.                                                               *)
LEMMA CycleInv ==
    ASSUME ResolverInv, Cycle
    PROVE  ResolverInv'
<1>1. /\ AtDep /\ phase = "walk" /\ ResolverTypeOK /\ Calls /\ Planning
      /\ D.name \in inFlight /\ phase' = "idle" /\ result' = "cycle"
      /\ UNCHANGED <<world, installed, lookup, target, stack, chosen, inFlight, order>>
  BY DEF ResolverInv, AtDep, Cycle, Fail, plan
<1> DEFINE n == Len(stack)
<1>2. /\ n \in Nat \ {0} /\ \A k \in 1..n : stack[k] \in Frame
      /\ Top = stack[n]
  BY <1>1, TopFacts
<1>3. PICK j \in 2..n : stack[j].name = D.name
  BY <1>1 DEF Planning
<1> DEFINE S == {stack[k].name : k \in j..n}
<1>4. n \in Nat /\ j \in j..n /\ j..n \subseteq 2..n /\ 2..n \subseteq 1..n
  <2>1. n \in Nat
    BY <1>2
  <2> QED
    BY <2>1
<1>5. S \in (SUBSET Resolved) \ {{}}
  <2>1. S \subseteq inFlight /\ S # {}
    <3>1. inFlight = {stack[k].name : k \in 2..n}
      BY <1>1 DEF Planning
    <3>2. stack[j].name \in S
      BY <1>4
    <3>3. S \subseteq inFlight
      BY <1>4, <3>1
    <3> QED
      BY <3>2, <3>3
  <2>2. inFlight \subseteq Resolved
    BY <1>1 DEF Planning
  <2> HIDE DEF S
  <2> QED
    BY <2>1, <2>2
<1>6. ASSUME NEW k \in j..n
      PROVE  \E d \in DepsOf(stack[k].name, chosen[stack[k].name]) : d.name \in S
  <2>1. chosen[stack[k].name] = stack[k].ver
    BY <1>1, <1>4 DEF Calls
  <2>2. CASE k = n
    <3>1. D \in DepsOf(Top.name, Top.ver)
      BY <1>1, DepFacts
    <3> QED
      BY <1>2, <1>3, <1>4, <2>1, <2>2, <3>1
  <2>3. CASE k # n
    <3>1. k \in 1..(n - 1) /\ k + 1 \in j..n /\ k \in 1..n
      BY <1>4, <2>3
    <3>2. stack[k] \in Frame /\ stack[k].next <= Len(FrameDeps(stack[k]))
          /\ Waiting(stack[k]).name = stack[k + 1].name
      BY <1>1, <1>2, <3>1 DEF Calls
    <3>3. Waiting(stack[k]) \in DepsOf(stack[k].name, stack[k].ver)
      BY <1>1, <3>2, FrameFacts
    <3> QED
      BY <2>1, <3>1, <3>2, <3>3
  <2> QED
    BY <2>2, <2>3
<1>7. \A m \in S : \E d \in DepsOf(m, chosen[m]) : d.name \in S
  BY <1>6
<1> HIDE DEF S
<1>8. CycleIsReal'
  <2>1. Resolved' = Resolved /\ \A m : DepsOf(m, chosen[m])' = DepsOf(m, chosen[m])
    BY <1>1 DEF Resolved, DepsOf
  <2>2. S \in (SUBSET Resolved') \ {{}}
    BY <1>5, <2>1
  <2>3. \A m \in S : \E d \in DepsOf(m, chosen[m])' : d.name \in S
    BY <1>7, <2>1
  <2> QED
    BY <2>2, <2>3, Zenon DEF CycleIsReal
<1> QED
  BY <1>1, <1>8, IdleInv DEF ResolverTypeOK

-----------------------------------------------------------------------------
(* Carrying the plan out.                                                  *)

(* A dependency met before a step of the plan is met before the same step   *)
(* once the first step is carried out.                                      *)
LEMMA MetAfterFirst ==
    ASSUME order \in Seq(Names), order # <<>>, installed \in TreeType,
           UNCHANGED <<world, lookup, chosen>>, order' = Tail(order),
           Deployed(Head(order), chosen[Head(order)]),
           NEW d \in Dep, NEW k \in Nat, NEW l \in Nat, k = l + 1, MetBefore(d, k)
    PROVE  MetBefore(d, l)'
<1>1. d.name \in Names
  BY DEF Dep
<1>2. /\ Head(order) = order[1] /\ order[1] \in Names /\ DOMAIN order \subseteq Nat \ {0}
      /\ \A j \in DOMAIN order : j # 1 => j - 1 \in DOMAIN Tail(order) /\ Tail(order)[j - 1] = order[j]
  OBVIOUS
<1>3. /\ \A n \in Names : installed[n] \subseteq installed'[n]
      /\ chosen[order[1]] \in installed'[order[1]]
  BY <1>2 DEF Deployed, TreeType
<1>4. CASE ProvidedOK(d) \/ InstalledSatisfies(d)
  <2>1. (ProvidedOK(d) \/ InstalledSatisfies(d))'
    BY <1>4 DEF ProvidedOK, Provided, InstalledSatisfies
  <2> QED
    BY <2>1 DEF MetBefore
<1>5. CASE chosen[d.name] \in d.allow /\ chosen[d.name] \in installed[d.name]
  BY <1>1, <1>3, <1>5 DEF MetBefore
<1>6. ASSUME chosen[d.name] \in d.allow,
             NEW j \in DOMAIN order, j < k, order[j] = d.name
      PROVE  MetBefore(d, l)'
  <2>1. CASE j = 1
    BY <1>3, <1>6, <2>1 DEF MetBefore
  <2>2. CASE j # 1
    <3>1. PICK i \in DOMAIN order' : i = j - 1 /\ order'[i] = d.name
      BY <1>2, <1>6, <2>2
    <3>2. i < l
      BY <1>2, <1>6, <3>1
    <3> QED
      BY <1>6, <3>1, <3>2 DEF MetBefore
  <2> QED
    BY <2>1, <2>2
<1> QED
  BY <1>4, <1>5, <1>6 DEF MetBefore

LEMMA DeployStepInv ==
    ASSUME ResolverInv, DeployStep
    PROVE  ResolverInv'
<1>1. /\ phase = "deploy" /\ ResolverTypeOK /\ RootMet /\ StepsMet /\ target \in Versions
      /\ result = "none" /\ \A n \in Names : lookup[n] \subseteq installed[n]
      /\ \A n \in Resolved : Demanded(n)
  BY DEF ResolverInv, DeployStep
<1>2. /\ UNCHANGED <<world, phase, lookup, target, stack, chosen, inFlight, result>>
      /\ order # <<>> /\ order' = Tail(order)
      /\ Deployed(Head(order), chosen[Head(order)])
  BY DEF DeployStep
<1>3. order \in Seq(Names) /\ installed \in TreeType
  BY <1>1 DEF ResolverTypeOK
<1>4. /\ Head(order) = order[1] /\ order[1] \in Names /\ 1 \in DOMAIN order
      /\ order' \in Seq(Names) /\ Len(order') \in Nat /\ Len(order) = Len(order') + 1
      /\ DOMAIN order' = 1..Len(order') /\ DOMAIN order = 1..Len(order)
      /\ \A k \in DOMAIN order' : k \in Nat /\ k + 1 \in DOMAIN order /\ order'[k] = order[k + 1]
  BY <1>2, <1>3
<1>5. chosen[order[1]] \in Versions
  BY <1>1, <1>4 DEF StepsMet, ResolverTypeOK
<1>6. installed' \in TreeType /\ \A n \in Names : installed[n] \subseteq installed'[n]
  BY <1>2, <1>3, <1>4, <1>5 DEF Deployed, TreeType
<1>7. ResolverTypeOK'
  BY <1>1, <1>2, <1>4, <1>6 DEF ResolverTypeOK
<1>8. \A n, v : DepsOf(n, v)' = DepsOf(n, v)
  BY <1>2 DEF DepsOf
<1>9. \A n \in Names : \A v \in Versions : \A d \in DepsOf(n, v) : d \in Dep
  BY <1>1 DEF ResolverTypeOK, World, DepsOf
<1>10. ASSUME NEW d \in Dep, NEW l \in Nat, MetBefore(d, l + 1)
       PROVE  MetBefore(d, l)'
  <2>1. l + 1 \in Nat
    OBVIOUS
  <2> QED
    BY <1>2, <1>3, <1>10, <2>1, MetAfterFirst
<1>11. RootMet'
  <2>1. \A d \in DepsOf(Root, target) : d \in Dep
    BY <1>1, <1>9, ResolverAssumption
  <2>2. PICK l \in Nat : l = Len(order') + 1
    BY <1>4
  <2>3. \A d \in DepsOf(Root, target) : MetBefore(d, l + 1)
    BY <1>1, <1>4, <2>2 DEF RootMet
  <2> QED
    BY <1>2, <1>8, <1>10, <2>1, <2>2, <2>3 DEF RootMet
<1>12. StepsMet'
  <2>1. ASSUME NEW k \in DOMAIN order'
        PROVE  /\ chosen'[order'[k]] # NoVersion
               /\ \A d \in DepsOf(order[k], chosen[order[k]])' : MetBefore(d, k)'
    <3>1. k \in Nat /\ order'[k] = order[k + 1] /\ k + 1 \in DOMAIN order
      BY <1>4
    <3>2. /\ chosen[order[k + 1]] # NoVersion
          /\ \A d \in DepsOf(order[k + 1], chosen[order[k + 1]]) : MetBefore(d, k + 1)
      BY <1>1, <3>1 DEF StepsMet
    <3>3. order[k + 1] \in Names /\ chosen[order[k + 1]] \in Versions
      BY <1>1, <1>3, <3>1, <3>2 DEF ResolverTypeOK
    <3>4. DepsOf(order[k], chosen[order[k]])' = DepsOf(order[k + 1], chosen[order[k + 1]])
      BY <1>2, <1>8, <3>1
    <3> QED
      BY <1>2, <1>9, <1>10, <3>1, <3>2, <3>3, <3>4
  <2> QED
    BY <2>1 DEF StepsMet
<1>13. Resolved' = Resolved /\ \A n : Demanded(n)' <=> Demanded(n)
  BY <1>2, SameDemand
<1>14. CycleIsReal'
  BY <1>1, <1>2, SameCycle DEF ResolverInv
<1> QED
  BY <1>1, <1>2, <1>6, <1>7, <1>11, <1>12, <1>13, <1>14 DEF ResolverInv

LEMMA DeployRootInv ==
    ASSUME ResolverInv, DeployRoot \/ DeployAlone
    PROVE  ResolverInv'
<1>1. /\ phase' = "idle" /\ result' = "ok" /\ Deployed(Root, target)
      /\ UNCHANGED <<world, lookup, target, stack, chosen, inFlight, order>>
      /\ target \in Versions /\ installed \in TreeType
  BY DEF DeployRoot, DeployAlone, plan, ResolverInv, ResolverTypeOK
<1>2. CycleIsReal' /\ installed' \in TreeType
  BY <1>1, ResolverAssumption DEF CycleIsReal, Deployed, TreeType
<1> QED
  BY <1>1, <1>2, IdleInv

-----------------------------------------------------------------------------
(* The inductive invariant.                                                *)

LEMMA StartInv ==
    ASSUME ResolverInv, Start
    PROVE  ResolverInv'
<1> DEFINE v == Newest(world.index[Root])
           f == Call(Root, v)
<1>1. /\ ResolverTypeOK /\ phase' = "walk" /\ lookup' \in {installed, Nowhere} /\ target' = v
      /\ stack' = <<f>> /\ chosen' = [m \in Names |-> NoVersion] /\ inFlight' = {}
      /\ order' = <<>> /\ result' = "none" /\ UNCHANGED <<world, installed>>
      /\ world.index[Root] # {}
  BY DEF ResolverInv, Start, Begin
<1>2. v \in Versions
  <2>1. world.index[Root] \in SUBSET Versions /\ world.index[Root] # {}
    BY <1>1, ResolverAssumption DEF ResolverTypeOK, World
  <2> QED
    BY <2>1, NewestIsOne
<1> HIDE DEF v
<1>3. f \in Frame /\ f.name = Root /\ f.ver = v /\ f.next = 1
  BY <1>2, ResolverAssumption DEF Call, Frame
<1>4. Len(FrameDeps(f)) \in Nat
  BY <1>1, <1>3, FrameFacts
<1> HIDE DEF f
<1>5. /\ stack' \in Seq(Frame) /\ Len(stack') = 1 /\ DOMAIN stack' = {1} /\ stack'[1] = f
      /\ 2..Len(stack') = {} /\ 1..(Len(stack') - 1) = {}
  BY <1>1, <1>3
<1>6. Resolved' = {} /\ DOMAIN order' = {}
  BY <1>1 DEF Resolved
<1>7. ResolverTypeOK' /\ \A n \in Names : lookup'[n] \subseteq installed'[n]
  BY <1>1, <1>2, <1>5 DEF ResolverTypeOK, TreeType, Nowhere
<1>8. Calls'
  BY <1>1, <1>3, <1>5 DEF Calls
<1>9. PastMet'
  <2>1. FrameDeps(stack[1])' = FrameDeps(f)
    BY <1>1, <1>5 DEF FrameDeps
  <2>2. stack'[1].next <= Len(FrameDeps(stack[1])') + 1 /\ 1..(stack'[1].next - 1) = {}
    BY <1>3, <1>4, <1>5, <2>1
  <2> QED
    BY <1>5, <2>2 DEF PastMet
<1>10. Planning'
  BY <1>1, <1>5, <1>6 DEF Planning
<1>11. StepsMet' /\ CycleIsReal'
  BY <1>1, <1>6 DEF StepsMet, CycleIsReal
<1> QED
  BY <1>1, <1>2, <1>6, <1>7, <1>8, <1>9, <1>10, <1>11 DEF ResolverInv

LEMMA StartAloneInv ==
    ASSUME ResolverInv, StartAlone
    PROVE  ResolverInv'
<1> DEFINE v == Newest(world.index[Root])
<1>1. /\ ResolverTypeOK /\ phase' = "alone" /\ target' = v /\ stack' = <<>>
      /\ chosen' = [m \in Names |-> NoVersion] /\ inFlight' = {} /\ order' = <<>>
      /\ result' = "none" /\ UNCHANGED <<world, installed, lookup>>
      /\ world.index[Root] # {} /\ phase = "idle"
  BY DEF ResolverInv, StartAlone, Begin
<1>2. v \in Versions
  <2>1. world.index[Root] \in SUBSET Versions /\ world.index[Root] # {}
    BY <1>1, ResolverAssumption DEF ResolverTypeOK, World
  <2> QED
    BY <2>1, NewestIsOne
<1> HIDE DEF v
<1>3. Resolved' = {} /\ DOMAIN order' = {}
  BY <1>1 DEF Resolved
<1>4. ResolverTypeOK'
  BY <1>1, <1>2 DEF ResolverTypeOK
<1>5. StepsMet' /\ CycleIsReal'
  BY <1>1, <1>3 DEF StepsMet, CycleIsReal
<1> QED
  BY <1>1, <1>2, <1>3, <1>4, <1>5 DEF ResolverInv

LEMMA WalkInv ==
    ASSUME ResolverInv, Walk
    PROVE  ResolverInv'
<1>1. CASE SkipProvided
  <2>1. MetBefore(D, Len(order) + 1)
    BY <1>1 DEF SkipProvided, MetBefore
  <2> QED
    BY <1>1, <2>1, ContinueInv DEF SkipProvided
<1>2. CASE SkipInstalled
  <2>1. MetBefore(D, Len(order) + 1)
    BY <1>2 DEF SkipInstalled, MetBefore
  <2> QED
    BY <1>2, <2>1, ContinueInv DEF SkipInstalled
<1>3. CASE SkipChosen
  <2>1. /\ AtDep /\ chosen[D.name] # NoVersion /\ chosen[D.name] \in D.allow
        /\ D.name \notin inFlight /\ phase = "walk"
    BY <1>3 DEF SkipChosen, AtDep
  <2>2. D.name \in Names /\ Planning /\ order \in Seq(Names)
    BY <2>1, DepFacts DEF ResolverInv, ResolverTypeOK
  <2>3. PICK j \in DOMAIN order : order[j] = D.name
    BY <2>1, <2>2 DEF Planning, Resolved
  <2>4. j < Len(order) + 1
    BY <2>2
  <2>5. MetBefore(D, Len(order) + 1)
    BY <2>1, <2>3, <2>4 DEF MetBefore
  <2> QED
    BY <1>3, <2>5, ContinueInv DEF SkipChosen
<1>4. CASE Pick
  BY <1>4, PickInv
<1>5. CASE Return
  BY <1>5, ReturnInv
<1>6. CASE Planned
  BY <1>6, PlannedInv
<1>7. CASE ProvidedUnmet \/ Conflict \/ NoCandidate \/ Interrupted
  BY <1>7, FailInv DEF ProvidedUnmet, Conflict, NoCandidate, Interrupted
<1>8. CASE Cycle
  BY <1>8, CycleInv
<1> QED
  BY <1>1, <1>2, <1>3, <1>4, <1>5, <1>6, <1>7, <1>8 DEF Walk

LEMMA StutterInv ==
    ASSUME ResolverInv, UNCHANGED vars
    PROVE  ResolverInv'
<1>1. UNCHANGED <<world, installed, phase, lookup, target, stack, chosen, inFlight, order, result>>
  BY DEF vars, plan
<1>2. \A d, k : MetBefore(d, k)' <=> MetBefore(d, k)
  BY <1>1, SameMet
<1>3. /\ \A f : FrameDeps(f)' = FrameDeps(f) /\ Waiting(f)' = Waiting(f)
      /\ \A n, v : DepsOf(n, v)' = DepsOf(n, v)
  BY <1>1 DEF FrameDeps, Waiting, DepsOf
<1>4. ResolverTypeOK' /\ Resolved' = Resolved
  BY <1>1 DEF ResolverInv, ResolverTypeOK, Resolved
<1>5. Calls => Calls'
  BY <1>1, <1>3 DEF Calls
<1>6. PastMet => PastMet'
  BY <1>1, <1>2, <1>3 DEF PastMet
<1>7. Planning => Planning'
  BY <1>1, <1>4 DEF Planning
<1>8. RootMet => RootMet'
  BY <1>1, <1>2, <1>3 DEF RootMet
<1> QED
  BY <1>1, <1>4, <1>5, <1>6, <1>7, <1>8, RestKept DEF ResolverInv

LEMMA ResolverInductive == Spec => []ResolverInv
<1>1. Init => ResolverInv
  <2> SUFFICES ASSUME Init PROVE ResolverInv
    OBVIOUS
  <2>1. world \in World /\ world.tree \in TreeType
    BY ResolverAssumption DEF Init, World, TreeType
  <2>2. ResolverTypeOK
    BY <2>1 DEF Init, ResolverTypeOK
  <2> QED
    BY <2>2 DEF Init, ResolverInv, CycleIsReal
<1>2. ResolverInv /\ [Next]_vars => ResolverInv'
  <2> SUFFICES ASSUME ResolverInv, [Next]_vars PROVE ResolverInv'
    OBVIOUS
  <2>1. CASE Start
    BY <2>1, StartInv
  <2>2. CASE Walk
    BY <2>2, WalkInv
  <2>3. CASE DeployStep
    BY <2>3, DeployStepInv
  <2>4. CASE DeployRoot \/ DeployAlone
    BY <2>4, DeployRootInv
  <2>5. CASE DeployFails
    BY <2>5, FailInv DEF DeployFails
  <2>6. CASE UNCHANGED vars
    BY <2>6, StutterInv
  <2>7. CASE StartAlone
    BY <2>7, StartAloneInv
  <2> QED
    BY <2>1, <2>2, <2>3, <2>4, <2>5, <2>6, <2>7 DEF Next, Deploy
<1> QED
  BY <1>1, <1>2, PTL DEF Spec

-----------------------------------------------------------------------------
(* PlanIsExact: the plan holds each resolved name once, none that nobody    *)
(* demands, and none that is still in flight.                               *)
THEOREM PlansExactly == Spec => []PlanIsExact
<1>1. ResolverInv => PlanIsExact
  BY DEF ResolverInv, PlanIsExact, Planning, Demanded
<1> QED
  BY <1>1, ResolverInductive, PTL

(* CycleIsReal: walk reports a cycle only if the chosen rocks have one.    *)
THEOREM CyclesAreReal == Spec => []CycleIsReal
<1>1. ResolverInv => CycleIsReal
  BY DEF ResolverInv
<1> QED
  BY <1>1, ResolverInductive, PTL

(* A dependency met before the first step that is left is met by the tree. *)
LEMMA MetNow ==
    ASSUME NEW d \in Dep, MetBefore(d, 1), order \in Seq(Names),
           \A n \in Names : lookup[n] \subseteq installed[n]
    PROVE  Satisfied(d, installed)
<1>1. d.name \in Names /\ ~ \E j \in DOMAIN order : j < 1
  BY DEF Dep
<1>2. CASE ProvidedOK(d)
  BY <1>2 DEF Satisfied
<1>3. CASE InstalledSatisfies(d)
  BY <1>1, <1>3 DEF Satisfied, InstalledSatisfies
<1>4. CASE chosen[d.name] \in d.allow /\ chosen[d.name] \in installed[d.name]
  BY <1>4 DEF Satisfied
<1> QED
  BY <1>1, <1>2, <1>3, <1>4 DEF MetBefore

(* DepsBeforeRock: no rock is deployed before its dependencies are met, the *)
(* rock an Install with DepsNone was asked for excepted.                    *)
THEOREM DeploysDepsFirst == Spec => DepsBeforeRock
<1> DEFINE Met == phase # "alone" =>
                     \A n \in Names : \A v \in installed'[n] \ installed[n] :
                        \A d \in DepsOf(n, v) : Satisfied(d, installed)
<1>1. ResolverInv /\ [Next]_vars => [Met]_vars
  <2> SUFFICES ASSUME ResolverInv, Next PROVE Met
    OBVIOUS
  <2>1. CASE UNCHANGED installed
    BY <2>1
  <2>2. ResolverTypeOK /\ installed \in TreeType /\ order \in Seq(Names)
    BY DEF ResolverInv, ResolverTypeOK
  <2>3. \A n \in Names : \A v \in Versions : \A d \in DepsOf(n, v) : d \in Dep
    BY <2>2 DEF ResolverTypeOK, World, DepsOf
  <2>4. ASSUME NEW m \in Names, NEW u \in Versions, Deployed(m, u), phase = "deploy",
               \A d \in DepsOf(m, u) : MetBefore(d, 1)
        PROVE  Met
    <3>1. \A n \in Names : \A v \in installed'[n] \ installed[n] : n = m /\ v = u
      BY <2>2, <2>4 DEF Deployed, TreeType
    <3>2. \A n \in Names : lookup[n] \subseteq installed[n]
      BY <2>4 DEF ResolverInv
    <3>3. \A d \in DepsOf(m, u) : Satisfied(d, installed)
      BY <2>2, <2>3, <2>4, <3>2, MetNow
    <3> QED
      BY <3>1, <3>3
  <2>5. CASE DeployStep
    <3>1. phase = "deploy" /\ StepsMet /\ order # <<>> /\ Deployed(Head(order), chosen[Head(order)])
      BY <2>5 DEF DeployStep, ResolverInv
    <3>2. Head(order) = order[1] /\ order[1] \in Names /\ 1 \in DOMAIN order
      BY <2>2, <3>1
    <3>3. chosen[order[1]] \in Versions
      BY <2>2, <3>1, <3>2 DEF StepsMet, ResolverTypeOK
    <3> QED
      BY <2>4, <3>1, <3>2, <3>3 DEF StepsMet
  <2>6. CASE DeployRoot
    <3>1. /\ phase = "deploy" /\ RootMet /\ order = <<>> /\ Deployed(Root, target)
          /\ target \in Versions
      BY <2>6 DEF DeployRoot, ResolverInv
    <3>2. Len(order) + 1 = 1
      BY <3>1
    <3> QED
      BY <2>4, <3>1, <3>2, ResolverAssumption DEF RootMet
  <2>7. CASE DeployAlone
    BY <2>7 DEF DeployAlone
  <2> QED
    BY <2>1, <2>5, <2>6, <2>7
       DEF Next, Start, StartAlone, Begin, Walk, Deploy, SkipProvided, SkipInstalled, SkipChosen, Continue, Pick,
           Return, Planned, ProvidedUnmet, Cycle, Conflict, NoCandidate, Interrupted,
           DeployFails, Fail
<1> QED
  BY <1>1, ResolverInductive, PTL DEF Spec, DepsBeforeRock
=============================================================================
