------------------------- MODULE RemoteIndexProofs --------------------------
(***************************************************************************)
(* CacheHonest, FirstFoundWins and NoRockHidden of RemoteIndex, for any    *)
(* servers, groups, manifests and callers, and any changes of the servers. *)
(***************************************************************************)
EXTENDS RemoteIndex, WellFoundedInduction, TLAPS

-----------------------------------------------------------------------------
(* The operators of the model.                                             *)

(* A set of indices of a list has a least and a greatest one.              *)
LEMMA LeastIndex ==
    ASSUME NEW T \in SUBSET Nat, T # {}
    PROVE  \E x \in T : \A y \in T : x <= y
<1>1. PICK x \in T : \A y \in T : ~ (<<y, x>> \in OpToRel(<, Nat))
  BY NatLessThanWellFounded, WFMin
<1>2. \A y \in T : ~ (y < x)
  BY <1>1 DEF OpToRel
<1> QED
  BY <1>2

LEMMA GreatestIndex ==
    ASSUME NEW n \in Nat, NEW T \in SUBSET (1..n), T # {}
    PROVE  \E x \in T : \A y \in T : y <= x
<1> DEFINE Bounds == {b \in Nat : \A y \in T : y <= b}
<1>1. n \in Bounds /\ Bounds \in SUBSET Nat
  OBVIOUS
<1>2. PICK b \in Bounds : \A c \in Bounds : b <= c
  <2> HIDE DEF Bounds
  <2> QED
    BY <1>1, LeastIndex
<1>3. b \in T
  <2> SUFFICES ASSUME b \notin T PROVE FALSE
    OBVIOUS
  <2>1. \A y \in T : y \in Nat /\ y < b
    BY <1>2
  <2>2. b - 1 \in Nat /\ \A y \in T : y <= b - 1
    <3>1. PICK y \in T : TRUE
      OBVIOUS
    <3>2. b \in Nat /\ y \in Nat /\ y < b
      BY <1>2, <2>1
    <3> QED
      BY <2>1, <3>2
  <2> QED
    BY <1>2, <2>2
<1> QED
  BY <1>2, <1>3

(* Induction up to a bound, over a set instead of a predicate.             *)
LEMMA Induction ==
    ASSUME NEW n \in Nat, NEW P, 0 \in P, \A k \in 1..n : k - 1 \in P => k \in P
    PROVE  \A k \in 0..n : k \in P
<1> DEFINE Some == {m \in 0..n : m \notin P}
<1> SUFFICES ASSUME Some # {} PROVE FALSE
  OBVIOUS
<1>1. PICK m \in Some : \A j \in Some : m <= j
  <2>1. Some \in SUBSET Nat
    OBVIOUS
  <2> HIDE DEF Some
  <2> QED
    BY <2>1, LeastIndex
<1>2. m - 1 \in 0..n /\ m \in 1..n /\ m - 1 \notin Some
  BY <1>1
<1> QED
  BY <1>1, <1>2

(* The values of a loop variable after each round: it starts as a, and      *)
(* round k makes step[<<k, x>>] of x.                                       *)
Steps(n, D) == [(1..n) \X D -> D]

Iterates(m, D, a, step) ==
    {g \in [0..m -> D] : g[0] = a /\ \A k \in 1..m : g[k] = step[<<k, g[k - 1]>>]}

(* A loop of n rounds has such values, so a recursive function that names   *)
(* them is well defined.                                                    *)
LEMMA IterationExists ==
    ASSUME NEW n \in Nat, NEW D, NEW a \in D, NEW step \in Steps(n, D)
    PROVE  Iterates(n, D, a, step) # {}
<1> USE DEF Iterates, Steps
<1> DEFINE Runs(m) == Iterates(m, D, a, step)
           P == {m \in 0..n : Runs(m) # {}}
<1>1. 0 \in P
  <2> DEFINE z == [k \in {0} |-> a]
  <2>1. z \in [0..0 -> D] /\ z[0] = a /\ 1..0 = {}
    OBVIOUS
  <2>2. z \in Runs(0)
    BY <2>1
  <2> QED
    BY <2>2
<1>2. ASSUME NEW m \in 1..n, m - 1 \in P
      PROVE  m \in P
  <2>1. PICK g \in [0..(m-1) -> D] :
           g[0] = a /\ \A k \in 1..(m - 1) : g[k] = step[<<k, g[k - 1]>>]
    BY <1>2
  <2> DEFINE h == [k \in 0..m |-> IF k = m THEN step[<<m, g[m - 1]>>] ELSE g[k]]
  <2>2. g[m - 1] \in D
    BY <2>1
  <2>3. step[<<m, g[m - 1]>>] \in D
    BY <2>2
  <2>4. \A k \in 0..m : k # m => k \in 0..(m - 1)
    OBVIOUS
  <2>5. h \in [0..m -> D]
    BY <2>1, <2>3, <2>4
  <2>6. h[0] = a
    BY <2>1
  <2>7. ASSUME NEW k \in 1..m PROVE h[k] = step[<<k, h[k - 1]>>]
    <3>1. k - 1 \in 0..m /\ k - 1 # m /\ k \in 0..m
      OBVIOUS
    <3>2. h[k - 1] = g[k - 1]
      BY <3>1
    <3>3. CASE k = m
      BY <3>1, <3>2, <3>3
    <3>4. CASE k # m
      <4>1. k \in 1..(m - 1) /\ h[k] = g[k]
        BY <3>1, <3>4
      <4> QED
        BY <2>1, <3>2, <4>1
    <3> QED
      BY <3>3, <3>4
  <2> HIDE DEF h
  <2>8. h \in Runs(m)
    BY <2>5, <2>6, <2>7
  <2> QED
    BY <2>8
<1> HIDE DEF P
<1>3. n \in P
  BY <1>1, <1>2, Induction
<1> QED
  BY <1>3 DEF P

(* acceptedArches returns a list.                                          *)
LEMMA AcceptedList ==
    ASSUME NEW S, NEW arches \in Seq(S)
    PROVE  Accepted(arches) \in Seq(S)
<1> DEFINE n == Len(arches)
           D == Seq(S)
           in(k) == arches[k] \in {"src", "all", "rockspec", "installed", Host}
           step == [ks \in (1..n) \X D |->
                       IF in(ks[1]) THEN Append(ks[2], arches[ks[1]]) ELSE ks[2]]
           keep == CHOOSE g : g = [k \in 0..n |->
                       IF k = 0 THEN <<>>
                       ELSE IF in(k) THEN Append(g[k - 1], arches[k]) ELSE g[k - 1]]
<1>1. n \in Nat /\ \A k \in 1..n : arches[k] \in S
  OBVIOUS
<1>2. Accepted(arches) = keep[n]
  BY DEF Accepted
<1> HIDE DEF in
<1>3. \A k \in 1..n : \A s \in D :
         step[<<k, s>>] = IF in(k) THEN Append(s, arches[k]) ELSE s
  OBVIOUS
<1>4. step \in Steps(n, D) /\ <<>> \in D
  <2>1. \A k \in 1..n : \A s \in D : Append(s, arches[k]) \in D
    BY <1>1
  <2>2. <<>> \in D
    OBVIOUS
  <2> HIDE DEF D, n
  <2> QED
    BY <2>1, <2>2 DEF Steps
<1> HIDE DEF n, D, step
<1>5. PICK g \in [0..n -> D] : g[0] = <<>> /\ \A k \in 1..n : g[k] = step[<<k, g[k - 1]>>]
  <2>1. Iterates(n, D, <<>>, step) # {}
    BY <1>1, <1>4, IterationExists
  <2> QED
    BY <2>1 DEF Iterates
<1>6. \A k \in 0..n : k = 0 \/ (k \in 1..n /\ k - 1 \in 0..n)
  BY <1>1
<1>7. \A k \in 1..n : k - 1 \in 0..n /\ k \in 0..n /\ k # 0
  BY <1>1
<1>8. \A k \in 1..n : g[k] = IF in(k) THEN Append(g[k - 1], arches[k]) ELSE g[k - 1]
  BY <1>3, <1>5, <1>7
<1>9. g = [k \in 0..n |-> IF k = 0 THEN <<>>
                          ELSE IF in(k) THEN Append(g[k - 1], arches[k]) ELSE g[k - 1]]
  BY <1>5, <1>6, <1>8
<1>10. keep = [k \in 0..n |-> IF k = 0 THEN <<>>
                              ELSE IF in(k) THEN Append(keep[k - 1], arches[k]) ELSE keep[k - 1]]
  BY <1>9
<1> HIDE DEF keep
<1>11. /\ keep[0] = <<>>
       /\ \A k \in 1..n : keep[k] = IF in(k) THEN Append(keep[k - 1], arches[k]) ELSE keep[k - 1]
  <2>1. 0 \in 0..n
    BY <1>1
  <2> QED
    BY <1>7, <1>10, <2>1
<1> DEFINE P == {j \in 0..n : keep[j] \in D}
<1>12. 0 \in P
  BY <1>1, <1>4, <1>11
<1>13. ASSUME NEW k \in 1..n, k - 1 \in P
       PROVE  k \in P
  <2>1. keep[k - 1] \in D /\ arches[k] \in S
    BY <1>1, <1>13
  <2>2. Append(keep[k - 1], arches[k]) \in D
    BY <2>1 DEF D
  <2> QED
    BY <1>7, <1>11, <2>1, <2>2
<1> HIDE DEF P
<1>14. n \in P
  <2>1. \A k \in 0..n : k \in P
    BY <1>1, <1>12, <1>13, Induction
  <2> QED
    BY <1>1, <2>1
<1> QED
  BY <1>2, <1>14 DEF P, D

(* pickMergedItem returns an index of its list.                            *)
LEMMA PickInRange ==
    ASSUME NEW S, NEW items \in Seq(S), items # <<>>
    PROVE  PickMergedItem(items) \in 1..Len(items)
<1> DEFINE n == Len(items)
           src == {k \in DOMAIN items : items[k].arch = "src"}
           binary == {k \in DOMAIN items : items[k].arch \notin {"src", "rockspec"}}
<1>1. n \in Nat /\ n # 0 /\ 1 \in 1..n /\ DOMAIN items = 1..n
  OBVIOUS
<1>2. src \in SUBSET (1..n) /\ binary \in SUBSET (1..n)
  BY <1>1
<1>3. PickMergedItem(items) =
         IF binary # {} THEN CHOOSE k \in binary : \A j \in binary : j <= k
         ELSE IF src # {} THEN CHOOSE k \in src : \A j \in src : k <= j
         ELSE 1
  BY DEF PickMergedItem
<1> HIDE DEF n, src, binary
<1>4. src # {} => \E k \in src : \A j \in src : k <= j
  BY <1>1, <1>2, LeastIndex
<1>5. binary # {} => \E k \in binary : \A j \in binary : j <= k
  BY <1>1, <1>2, GreatestIndex
<1> QED
  BY <1>1, <1>2, <1>3, <1>4, <1>5 DEF n

Items == [server : Servers, arch : STRING]

(* Nothing is merged only if nothing that parses was offered.              *)
LEMMA NoAnswerMeans ==
    ASSUME NEW items \in [Versions -> Seq(Items)], MergedRocks(items) = NoAnswer,
           NEW v \in Versions \ Unparsable
    PROVE  items[v] = <<>>
<1> SUFFICES ASSUME items[v] # <<>> PROVE FALSE
  OBVIOUS
<1>1. items[v] \in Seq(Items)
  OBVIOUS
<1>2. PickMergedItem(items[v]) \in 1..Len(items[v])
  BY <1>1, PickInRange
<1>3. items[v][PickMergedItem(items[v])] \in Items
  BY <1>1, <1>2
<1>4. MergedRocks(items)[v] = items[v][PickMergedItem(items[v])]
  BY DEF MergedRocks
<1>5. MergedRocks(items)[v] = NoItem
  BY DEF NoAnswer
<1> QED
  BY <1>3, <1>4, <1>5, IndexAssumption DEF Items, NoItem

-----------------------------------------------------------------------------
(* The invariant of a query x over the index's cache o.                    *)

Cache == [Place -> Manifests \cup {Nothing}]

States == {"idle", "load", "probe", "merge", "next", "found", "none", "error"}

Fields == {"pc", "ns", "group", "at", "probe", "items", "failed", "lastErr", "answer"}

QueryType(x) ==
    /\ x = [f \in Fields |-> x[f]]
    /\ x.pc \in States
    /\ x.ns \in Namespaces
    /\ x.group \in 1..Len(Groups)
    /\ x.at \in 1..Len(Groups[x.group])
    /\ x.probe \in 1..Len(Variants)
    /\ x.items \in [Versions -> Seq(Items)]
    /\ x.failed \subseteq Servers

ServerOf(x) == Groups[x.group][x.at]
KeyOf(x)    == CacheKey(ServerOf(x), x.ns)

Has(x, o, s) == o[CacheKey(s, x.ns)] # Nothing

(* The cache p has what the cache o has.                                   *)
Keeps(p, o) == \A k \in Place : o[k] # Nothing => p[k] = o[k]

(* The server s failed, or its manifest is known and lacks the rock.       *)
Lacks(x, o, s) ==
    \/ s \in x.failed
    \/ Has(x, o, s) /\ \A v \in Versions : ~ Offers(o[CacheKey(s, x.ns)], v)

(* The server s failed, or its manifest is known and what it offers of the  *)
(* rock is in the items of the group.                                       *)
Merged(x, o, s) ==
    \/ s \in x.failed
    \/ Has(x, o, s) /\ \A v \in Versions : Offers(o[CacheKey(s, x.ns)], v) => x.items[v] # <<>>

GroupsBefore(x, o) ==
    \A g \in 1..(x.group - 1) : \A k \in DOMAIN Groups[g] : Lacks(x, o, Groups[g][k])

ServersBefore(x, o) ==
    \A k \in 1..(x.at - 1) : Merged(x, o, Groups[x.group][k])

FailuresKnown(x) ==
    \A s \in x.failed : x.lastErr \/ \E k \in DOMAIN Groups[x.group] : Groups[x.group][k] = s

AtServer(x, o) ==
    /\ x.pc = "probe" => ~ Has(x, o, ServerOf(x))
    /\ x.pc = "merge" => Has(x, o, ServerOf(x))
    /\ x.pc = "next"  => Merged(x, o, ServerOf(x))

AtEnd(x, o) ==
    /\ x.pc \in {"none", "error"} =>
          /\ x.group = Len(Groups)
          /\ \A k \in DOMAIN Groups[x.group] : Lacks(x, o, Groups[x.group][k])
    /\ x.pc = "none" => x.failed = {}

QueryInv(x, o) ==
    /\ QueryType(x)
    /\ o \in Cache
    /\ x.pc # "idle" =>
          /\ GroupsBefore(x, o)
          /\ ServersBefore(x, o)
          /\ FailuresKnown(x)
          /\ AtServer(x, o)
          /\ AtEnd(x, o)

StoreInv ==
    /\ store \in [Place -> [DOMAIN Variants -> Content]]
    /\ published \in [Place -> SUBSET Content]
    /\ updates \subseteq Place \X (DOMAIN Variants) \X Content
    /\ \A p \in Place : \A k \in DOMAIN Variants : store[p][k] \in published[p]

IndexInv ==
    /\ StoreInv
    /\ shared \in Cache
    /\ DOMAIN own = Callers /\ DOMAIN q = Callers
    /\ own = [c \in Callers |-> own[c]] /\ q = [c \in Callers |-> q[c]]
    /\ \A c \in Callers : QueryInv(q[c], own[c])
    /\ CacheHonest

LEMMA KeepsSame == \A o : Keeps(o, o)
BY DEF Keeps

-----------------------------------------------------------------------------
(* Facts of the configuration.                                             *)

LEMMA GroupFacts ==
    /\ Len(Groups) \in Nat \ {0} /\ DOMAIN Groups = 1..Len(Groups)
    /\ Len(Variants) \in Nat \ {0} /\ DOMAIN Variants = 1..Len(Variants)
    /\ \A g \in 1..Len(Groups) :
          /\ Groups[g] \in Seq(Servers)
          /\ Len(Groups[g]) \in Nat \ {0}
          /\ DOMAIN Groups[g] = 1..Len(Groups[g])
          /\ \A k \in DOMAIN Groups[g] : Groups[g][k] \in Servers
BY SMTT(60), IndexAssumption

LEMMA KeyIsPlace ==
    ASSUME NEW x, QueryType(x)
    PROVE  ServerOf(x) \in Servers /\ KeyOf(x) \in Place /\ KeyOf(x) = <<ServerOf(x), x.ns>>
BY GroupFacts DEF QueryType, ServerOf, KeyOf, CacheKey, Place

LEMMA FreshType == QueryType(Fresh) /\ Fresh.pc = "idle"
<1>1. (CHOOSE n \in Namespaces : TRUE) \in Namespaces
  BY IndexAssumption
<1>2. [v \in Versions |-> <<>>] \in [Versions -> Seq(Items)]
  OBVIOUS
<1>3. Fresh = [f \in Fields |-> Fresh[f]]
  <2> DEFINE r(ns, items, err, answer) ==
                [pc |-> "idle", ns |-> ns, group |-> 1, at |-> 1, probe |-> 1,
                 items |-> items, failed |-> {}, lastErr |-> err, answer |-> answer]
  <2>1. ASSUME NEW ns, NEW items, NEW err, NEW answer
        PROVE  r(ns, items, err, answer) = [f \in Fields |-> r(ns, items, err, answer)[f]]
    BY DEF Fields
  <2>2. Fresh = r(CHOOSE n \in Namespaces : TRUE, [v \in Versions |-> <<>>], FALSE,
                  [v \in Versions |-> NoItem])
    BY Zenon DEF Fresh
  <2> HIDE DEF r
  <2>3. PICK ns, items, err, answer : Fresh = r(ns, items, err, answer)
    BY <2>2, Zenon
  <2> QED
    BY <2>1, <2>3
<1>4. /\ Fresh.pc = "idle" /\ Fresh.ns \in Namespaces /\ Fresh.group = 1 /\ Fresh.at = 1
      /\ Fresh.probe = 1 /\ Fresh.items \in [Versions -> Seq(Items)] /\ Fresh.failed = {}
  BY <1>1, <1>2 DEF Fresh
<1>5. 1 \in 1..Len(Groups) /\ 1 \in 1..Len(Groups[1]) /\ 1 \in 1..Len(Variants)
  BY GroupFacts
<1>6. {} \subseteq Servers /\ "idle" \in States
  BY DEF States
<1> QED
  BY <1>3, <1>4, <1>5, <1>6, Zenon DEF QueryType

-----------------------------------------------------------------------------
(* What IndexInv gives.                                                    *)

LEMMA InvFirstFound == IndexInv => FirstFoundWins
<1> SUFFICES ASSUME IndexInv, NEW c \in Callers, q[c].pc = "found",
                    NEW g \in 1..(q[c].group - 1), NEW k \in DOMAIN Groups[g],
                    Groups[g][k] \notin q[c].failed
             PROVE  /\ Knows(c, Groups[g][k])
                    /\ \A v \in Versions :
                          ~ Offers(own[c][CacheKey(Groups[g][k], q[c].ns)], v)
  BY DEF FirstFoundWins
<1>1. GroupsBefore(q[c], own[c])
  BY DEF IndexInv, QueryInv
<1> QED
  BY <1>1 DEF GroupsBefore, Lacks, Has, Knows

LEMMA InvNoRockHidden == IndexInv => NoRockHidden
<1> SUFFICES ASSUME IndexInv, NEW c \in Callers, q[c].pc \in {"none", "error"}
             PROVE  /\ \A s \in Servers \ q[c].failed :
                          /\ Knows(c, s)
                          /\ \A v \in Versions : ~ Offers(own[c][CacheKey(s, q[c].ns)], v)
                    /\ q[c].pc = "none" => q[c].failed = {}
  BY DEF NoRockHidden
<1>1. GroupsBefore(q[c], own[c]) /\ AtEnd(q[c], own[c])
  BY DEF IndexInv, QueryInv
<1>2. ASSUME NEW s \in Servers PROVE Lacks(q[c], own[c], s)
  <2>1. PICK g \in DOMAIN Groups : \E k \in DOMAIN Groups[g] : Groups[g][k] = s
    BY IndexAssumption
  <2>2. PICK k \in DOMAIN Groups[g] : Groups[g][k] = s
    BY <2>1
  <2>3. q[c].group = Len(Groups)
    BY <1>1 DEF AtEnd
  <2>4. g \in 1..(q[c].group - 1) \/ g = q[c].group
    BY <2>3, GroupFacts
  <2> QED
    BY <1>1, <2>2, <2>4 DEF GroupsBefore, AtEnd
<1> QED
  BY <1>1, <1>2 DEF Lacks, Has, Knows, AtEnd

-----------------------------------------------------------------------------
(* The steps of a query, on the query x and the cache o alone.             *)

(* A step at one server keeps what is known of the servers before: the      *)
(* cache of the index only gains entries while the query runs.              *)
LEMMA SamePath ==
    ASSUME NEW x, NEW o, QueryInv(x, o), x.pc # "idle",
           NEW y, QueryType(y),
           y.ns = x.ns, y.group = x.group, y.at = x.at, x.failed \subseteq y.failed,
           \A v \in Versions : x.items[v] # <<>> => y.items[v] # <<>>,
           NEW p \in Cache, Keeps(p, o)
    PROVE  /\ GroupsBefore(y, p)
           /\ ServersBefore(y, p)
<1>1. QueryType(x) /\ GroupsBefore(x, o) /\ ServersBefore(x, o)
  BY DEF QueryInv
<1>2. \A s \in Servers : CacheKey(s, x.ns) \in Place
  BY <1>1 DEF QueryType, CacheKey, Place
<1>3. ASSUME NEW s \in Servers PROVE /\ Lacks(x, o, s) => Lacks(y, p, s)
                                     /\ Merged(x, o, s) => Merged(y, p, s)
  BY <1>2 DEF Lacks, Merged, Has, Keeps
<1>4. \A g \in 1..(x.group - 1) : g \in 1..Len(Groups)
  BY <1>1, GroupFacts DEF QueryType
<1>5. \A k \in 1..(x.at - 1) : k \in DOMAIN Groups[x.group]
  BY <1>1, GroupFacts DEF QueryType
<1>6. GroupsBefore(y, p)
  BY <1>1, <1>3, <1>4, GroupFacts DEF GroupsBefore
<1>7. ServersBefore(y, p)
  BY <1>1, <1>3, <1>5, GroupFacts DEF ServersBefore, QueryType
<1> QED
  BY <1>6, <1>7

(* A query at its server that finds the manifest in a cache or loads it, or *)
(* misses it, or fails to load it.                                          *)
LEMMA AtServerStep ==
    ASSUME NEW x, NEW o, QueryInv(x, o), x.pc \in {"load", "probe"},
           NEW pc \in {"probe", "merge", "next"}, NEW probe \in 1..Len(Variants),
           NEW failed \in {x.failed, x.failed \cup {ServerOf(x)}},
           NEW p \in Cache, Keeps(p, o),
           pc = "probe" => p[KeyOf(x)] = Nothing,
           pc = "merge" => p[KeyOf(x)] # Nothing,
           pc = "next"  => ServerOf(x) \in failed
    PROVE  QueryInv([x EXCEPT !.pc = pc, !.probe = probe, !.failed = failed], p)
<1> DEFINE y == [x EXCEPT !.pc = pc, !.probe = probe, !.failed = failed]
<1>1. QueryType(x) /\ FailuresKnown(x) /\ x.pc # "idle"
  BY DEF QueryInv
<1>2. /\ y = [f \in Fields |-> y[f]]
      /\ y.pc = pc /\ y.probe = probe /\ y.failed = failed
      /\ y.at = x.at /\ y.items = x.items
      /\ y.ns = x.ns /\ y.group = x.group /\ y.lastErr = x.lastErr
  BY <1>1 DEF QueryType, Fields
<1> HIDE DEF y
<1>3. ServerOf(x) \in Servers
  BY <1>1, KeyIsPlace
<1>4. QueryType(y)
  BY <1>1, <1>2, <1>3 DEF QueryType, States
<1>5. GroupsBefore(y, p) /\ ServersBefore(y, p)
  BY <1>1, <1>2, <1>4, SamePath
<1>6. FailuresKnown(y)
  <2>1. x.at \in DOMAIN Groups[x.group] /\ ServerOf(x) = Groups[x.group][x.at]
    BY <1>1, GroupFacts DEF QueryType, ServerOf
  <2>2. \A s \in y.failed : s \in x.failed \/ s = Groups[x.group][x.at]
    BY <1>2, <2>1
  <2>3. \A s \in x.failed :
           y.lastErr \/ \E k \in DOMAIN Groups[x.group] : Groups[x.group][k] = s
    BY <1>1, <1>2 DEF FailuresKnown
  <2> QED
    BY ZenonT(40), <1>2, <2>1, <2>2, <2>3 DEF FailuresKnown
<1>7. ServerOf(y) = ServerOf(x) /\ KeyOf(x) = CacheKey(ServerOf(y), y.ns)
  BY <1>2 DEF ServerOf, KeyOf
<1>8. AtServer(y, p) /\ AtEnd(y, p)
  BY <1>2, <1>7 DEF AtServer, AtEnd, Has, Merged
<1> QED
  BY <1>4, <1>5, <1>6, <1>8 DEF QueryInv, y

LEMMA FoundStep ==
    ASSUME NEW x, NEW o, QueryInv(x, o), x.pc \in {"load", "probe"},
           NEW p \in Cache, Keeps(p, o),
           p[KeyOf(x)] # Nothing
    PROVE  QueryInv([x EXCEPT !.pc = "merge", !.probe = x.probe, !.failed = x.failed], p)
<1>1. x.probe \in 1..Len(Variants)
  BY DEF QueryInv, QueryType
<1> QED
  BY <1>1, AtServerStep

LEMMA StartStep ==
    ASSUME NEW ns \in Namespaces, NEW o \in Cache
    PROVE  QueryInv([Fresh EXCEPT !.pc = "load", !.ns = ns], o)
<1> DEFINE y == [Fresh EXCEPT !.pc = "load", !.ns = ns]
<1>1. QueryType(Fresh) /\ Fresh.group = 1 /\ Fresh.at = 1 /\ Fresh.failed = {}
  BY FreshType DEF Fresh
<1>2. /\ y = [f \in Fields |-> y[f]]
      /\ y.pc = "load" /\ y.ns = ns
      /\ y.probe = Fresh.probe /\ y.failed = {} /\ y.at = 1 /\ y.items = Fresh.items
      /\ y.group = 1
  BY <1>1 DEF QueryType, Fields
<1> HIDE DEF y
<1>3. QueryType(y)
  BY <1>1, <1>2 DEF QueryType, States
<1>4. GroupsBefore(y, o) /\ ServersBefore(y, o) /\ FailuresKnown(y)
  BY <1>2 DEF GroupsBefore, ServersBefore, FailuresKnown
<1>5. AtServer(y, o) /\ AtEnd(y, o)
  BY <1>2 DEF AtServer, AtEnd
<1> QED
  BY <1>3, <1>4, <1>5 DEF QueryInv, y

LEMMA NextServerStep ==
    ASSUME NEW x, NEW o, QueryInv(x, o), x.pc = "next", x.at < Len(Groups[x.group])
    PROVE  QueryInv([x EXCEPT !.pc = "load", !.at = x.at + 1], o)
<1> DEFINE y == [x EXCEPT !.pc = "load", !.at = x.at + 1]
<1>1. /\ QueryType(x) /\ FailuresKnown(x) /\ GroupsBefore(x, o) /\ ServersBefore(x, o)
      /\ Merged(x, o, ServerOf(x)) /\ o \in Cache
  BY DEF QueryInv, AtServer
<1>2. /\ y = [f \in Fields |-> y[f]]
      /\ y.pc = "load" /\ y.probe = x.probe /\ y.failed = x.failed
      /\ y.at = x.at + 1 /\ y.items = x.items
      /\ y.ns = x.ns /\ y.group = x.group /\ y.lastErr = x.lastErr
  BY <1>1 DEF QueryType, Fields
<1> HIDE DEF y
<1>3. x.at + 1 \in 1..Len(Groups[x.group])
  BY <1>1, GroupFacts DEF QueryType
<1>4. QueryType(y)
  BY <1>1, <1>2, <1>3 DEF QueryType, States
<1>5. \A s : /\ Lacks(x, o, s) => Lacks(y, o, s)
             /\ Merged(x, o, s) => Merged(y, o, s)
  BY <1>2 DEF Lacks, Merged, Has
<1>6. \A k \in 1..(y.at - 1) : k \in 1..(x.at - 1) \/ k = x.at
  BY <1>1, <1>2 DEF QueryType
<1>7. ServersBefore(y, o)
  BY <1>1, <1>2, <1>5, <1>6 DEF ServersBefore, ServerOf
<1>8. GroupsBefore(y, o) /\ FailuresKnown(y) /\ AtServer(y, o) /\ AtEnd(y, o)
  BY ZenonT(40), <1>1, <1>2, <1>5 DEF GroupsBefore, FailuresKnown, AtServer, AtEnd
<1> QED
  BY <1>1, <1>4, <1>7, <1>8 DEF QueryInv, y

(* The offers of the server of x in its manifest m.                        *)
OffersOf(x, m) ==
    [v \in Versions |->
        [k \in DOMAIN Accepted(Offered[m][v]) |->
            [server |-> ServerOf(x), arch |-> Accepted(Offered[m][v])[k]]]]

LEMMA MergeStep ==
    ASSUME NEW x, NEW o, QueryInv(x, o), x.pc = "merge"
    PROVE  QueryInv([x EXCEPT !.pc = "next",
                              !.items = [v \in Versions |->
                                            x.items[v] \o OffersOf(x, o[KeyOf(x)])[v]]], o)
<1> DEFINE m == o[KeyOf(x)]
           items == [v \in Versions |-> x.items[v] \o OffersOf(x, m)[v]]
           y == [x EXCEPT !.pc = "next", !.items = items]
<1>1. QueryType(x) /\ FailuresKnown(x) /\ o \in Cache /\ Has(x, o, ServerOf(x))
  BY DEF QueryInv, AtServer
<1>2. ServerOf(x) \in Servers /\ KeyOf(x) \in Place /\ KeyOf(x) = CacheKey(ServerOf(x), x.ns)
  BY <1>1, KeyIsPlace DEF KeyOf
<1>3. m \in Manifests
  BY <1>1, <1>2 DEF Has, Cache
<1> HIDE DEF m
<1>4. ASSUME NEW v \in Versions
      PROVE  /\ OffersOf(x, m)[v] \in Seq(Items)
             /\ OffersOf(x, m)[v] = <<>> => Accepted(Offered[m][v]) = <<>>
  <2> DEFINE acc == Accepted(Offered[m][v])
  <2>1. acc \in Seq(STRING)
    BY <1>3, IndexAssumption, AcceptedList
  <2> HIDE DEF acc
  <2>2. [k \in DOMAIN acc |-> [server |-> ServerOf(x), arch |-> acc[k]]] \in Seq(Items)
    <3>1. DOMAIN acc = 1..Len(acc) /\ Len(acc) \in Nat
      BY <2>1
    <3>2. \A k \in DOMAIN acc : [server |-> ServerOf(x), arch |-> acc[k]] \in Items
      BY <1>2, <2>1 DEF Items
    <3>3. [k \in DOMAIN acc |-> [server |-> ServerOf(x), arch |-> acc[k]]]
             \in [1..Len(acc) -> Items]
      BY <3>1, <3>2
    <3>4. \A n \in Nat : \A f \in [1..n -> Items] : f \in Seq(Items)
      OBVIOUS
    <3> QED
      BY <3>1, <3>3, <3>4
  <2>3. [k \in DOMAIN acc |-> [server |-> ServerOf(x), arch |-> acc[k]]] = <<>> => acc = <<>>
    BY <2>1
  <2>4. OffersOf(x, m)[v] = [k \in DOMAIN acc |-> [server |-> ServerOf(x), arch |-> acc[k]]]
    BY DEF OffersOf, acc
  <2> QED
    BY <2>2, <2>3, <2>4 DEF acc
<1>5. ASSUME NEW v \in Versions
      PROVE  /\ items[v] \in Seq(Items)
             /\ x.items[v] # <<>> => items[v] # <<>>
             /\ Accepted(Offered[m][v]) # <<>> => items[v] # <<>>
  <2>1. x.items[v] \in Seq(Items) /\ OffersOf(x, m)[v] \in Seq(Items)
    BY <1>1, <1>4 DEF QueryType
  <2>2. items[v] = x.items[v] \o OffersOf(x, m)[v]
    OBVIOUS
  <2>3. \A s, t \in Seq(Items) : /\ s \o t \in Seq(Items)
                                 /\ s # <<>> \/ t # <<>> => s \o t # <<>>
    OBVIOUS
  <2> QED
    BY <1>4, <2>1, <2>2, <2>3, Zenon
<1>6. items \in [Versions -> Seq(Items)]
  BY <1>5
<1> HIDE DEF items
<1>7. /\ y = [f \in Fields |-> y[f]]
      /\ y.pc = "next" /\ y.probe = x.probe /\ y.failed = x.failed
      /\ y.at = x.at /\ y.items = items
      /\ y.ns = x.ns /\ y.group = x.group /\ y.lastErr = x.lastErr
  BY <1>1 DEF QueryType, Fields
<1> HIDE DEF y
<1>8. QueryType(y)
  BY <1>1, <1>6, <1>7 DEF QueryType, States
<1>9. GroupsBefore(y, o) /\ ServersBefore(y, o)
  BY <1>1, <1>5, <1>7, <1>8, SamePath, KeepsSame
<1>10. FailuresKnown(y) /\ AtEnd(y, o)
  BY <1>1, <1>7 DEF FailuresKnown, AtEnd
<1>11. Merged(y, o, ServerOf(x)) /\ ServerOf(y) = ServerOf(x)
  BY <1>1, <1>2, <1>5, <1>7 DEF Merged, Has, Offers, ServerOf, m
<1> QED
  BY <1>1, <1>7, <1>8, <1>9, <1>10, <1>11 DEF QueryInv, AtServer, y, items, m

(* The group of x is over: each of its servers was merged or failed.       *)
LEMMA GroupOver ==
    ASSUME NEW x, NEW o, QueryInv(x, o), x.pc = "next", x.at = Len(Groups[x.group])
    PROVE  \A k \in DOMAIN Groups[x.group] : Merged(x, o, Groups[x.group][k])
<1>1. QueryType(x) /\ ServersBefore(x, o) /\ Merged(x, o, ServerOf(x))
  BY DEF QueryInv, AtServer
<1>2. \A k \in DOMAIN Groups[x.group] : k \in 1..(x.at - 1) \/ k = x.at
  BY <1>1, GroupFacts DEF QueryType
<1> QED
  BY <1>1, <1>2 DEF ServersBefore, ServerOf

LEMMA GroupLacks ==
    ASSUME NEW x, NEW o, QueryInv(x, o), x.pc = "next", x.at = Len(Groups[x.group]),
           MergedRocks(x.items) = NoAnswer
    PROVE  \A k \in DOMAIN Groups[x.group] : Lacks(x, o, Groups[x.group][k])
<1>1. \A v \in Versions \ Unparsable : x.items[v] = <<>>
  BY NoAnswerMeans DEF QueryInv, QueryType
<1> QED
  BY ZenonT(40), <1>1, GroupOver DEF Merged, Lacks, Offers

GroupFindsAnswer(x) == [x EXCEPT !.pc = "found", !.answer = MergedRocks(x.items)]

LEMMA GroupFindsStep ==
    ASSUME NEW x, NEW o, QueryInv(x, o), x.pc = "next"
    PROVE  QueryInv(GroupFindsAnswer(x), o)
<1> DEFINE y == GroupFindsAnswer(x)
<1>1. QueryType(x) /\ FailuresKnown(x) /\ o \in Cache
  BY DEF QueryInv
<1>2. /\ y = [f \in Fields |-> y[f]]
      /\ y.pc = "found" /\ y.probe = x.probe /\ y.failed = x.failed
      /\ y.at = x.at /\ y.items = x.items
      /\ y.ns = x.ns /\ y.group = x.group /\ y.lastErr = x.lastErr
  BY <1>1 DEF QueryType, Fields, GroupFindsAnswer
<1> HIDE DEF y
<1>3. QueryType(y)
  BY <1>1, <1>2 DEF QueryType, States
<1>4. GroupsBefore(y, o) /\ ServersBefore(y, o)
  BY <1>1, <1>2, <1>3, SamePath, KeepsSame
<1>5. FailuresKnown(y) /\ AtEnd(y, o) /\ AtServer(y, o)
  BY <1>1, <1>2 DEF FailuresKnown, AtEnd, AtServer
<1> QED
  BY <1>1, <1>3, <1>4, <1>5 DEF QueryInv, y

(* OrderedIndex goes on: err is what it remembers of errors.               *)
LEMMA NextGroupStep ==
    ASSUME NEW x, NEW o, QueryInv(x, o), x.pc = "next", x.at = Len(Groups[x.group]),
           MergedRocks(x.items) = NoAnswer, x.group < Len(Groups), NEW err,
           x.lastErr => err,
           (\E k \in DOMAIN Groups[x.group] : Groups[x.group][k] \in x.failed) => err
    PROVE  QueryInv([x EXCEPT !.pc = "load", !.group = x.group + 1, !.at = 1,
                              !.items = Fresh.items, !.lastErr = err], o)
<1> DEFINE y == [x EXCEPT !.pc = "load", !.group = x.group + 1, !.at = 1,
                          !.items = Fresh.items, !.lastErr = err]
<1>1. QueryType(x) /\ FailuresKnown(x) /\ GroupsBefore(x, o) /\ o \in Cache
  BY DEF QueryInv
<1>2. /\ y = [f \in Fields |-> y[f]]
      /\ y.pc = "load" /\ y.probe = x.probe /\ y.failed = x.failed
      /\ y.at = 1 /\ y.items = Fresh.items
      /\ y.ns = x.ns /\ y.group = x.group + 1 /\ y.lastErr = err
  BY <1>1 DEF QueryType, Fields
<1> HIDE DEF y
<1>3. y.group \in 1..Len(Groups) /\ 1 \in 1..Len(Groups[y.group])
  BY <1>1, <1>2, GroupFacts DEF QueryType
<1>4. QueryType(y)
  BY <1>1, <1>2, <1>3, FreshType DEF QueryType, States
<1>5. \A s : Lacks(x, o, s) => Lacks(y, o, s)
  BY <1>2 DEF Lacks, Has
<1>6. \A g \in 1..(y.group - 1) : g \in 1..(x.group - 1) \/ g = x.group
  BY <1>1, <1>2 DEF QueryType
<1>7. GroupsBefore(y, o)
  BY <1>1, <1>5, <1>6, GroupLacks DEF GroupsBefore
<1>8. ServersBefore(y, o) /\ AtServer(y, o) /\ AtEnd(y, o)
  BY <1>2 DEF ServersBefore, AtServer, AtEnd
<1>9. FailuresKnown(y)
  <2>1. \A s \in x.failed : err
    BY <1>1 DEF FailuresKnown
  <2> QED
    BY <1>2, <2>1 DEF FailuresKnown
<1> QED
  BY <1>1, <1>4, <1>7, <1>8, <1>9 DEF QueryInv, y

LEMMA LastGroupStep ==
    ASSUME NEW x, NEW o, QueryInv(x, o), x.pc = "next", x.at = Len(Groups[x.group]),
           MergedRocks(x.items) = NoAnswer, x.group = Len(Groups), NEW err,
           x.lastErr => err,
           (\E k \in DOMAIN Groups[x.group] : Groups[x.group][k] \in x.failed) => err,
           NEW pc \in {"none", "error"}, pc = "none" => ~ err
    PROVE  QueryInv([x EXCEPT !.pc = pc, !.lastErr = err], o)
<1> DEFINE y == [x EXCEPT !.pc = pc, !.lastErr = err]
<1>1. QueryType(x) /\ FailuresKnown(x) /\ o \in Cache
  BY DEF QueryInv
<1>2. /\ y = [f \in Fields |-> y[f]]
      /\ y.pc = pc /\ y.probe = x.probe /\ y.failed = x.failed
      /\ y.at = x.at /\ y.items = x.items
      /\ y.ns = x.ns /\ y.group = x.group /\ y.lastErr = err
  BY <1>1 DEF QueryType, Fields
<1> HIDE DEF y
<1>3. QueryType(y)
  BY <1>1, <1>2 DEF QueryType, States
<1>4. GroupsBefore(y, o) /\ ServersBefore(y, o)
  BY <1>1, <1>2, <1>3, SamePath, KeepsSame
<1>5. \A s \in x.failed : err
  BY <1>1 DEF FailuresKnown
<1>6. FailuresKnown(y)
  BY <1>2, <1>5 DEF FailuresKnown
<1>7. \A s : Lacks(x, o, s) => Lacks(y, o, s)
  BY <1>2 DEF Lacks, Has
<1>8. AtEnd(y, o)
  BY <1>2, <1>5, <1>7, GroupLacks DEF AtEnd
<1>9. AtServer(y, o)
  BY <1>2 DEF AtServer
<1> QED
  BY <1>1, <1>3, <1>4, <1>6, <1>8, <1>9 DEF QueryInv, y

-----------------------------------------------------------------------------
(* The steps of the specification.                                         *)

Honest(f) == \A p \in Place : f[p] # Nothing => f[p] \in published[p]

LEMMA HonestCaches ==
    IndexInv => Honest(shared) /\ \A c \in Callers : Honest(own[c])
BY DEF IndexInv, CacheHonest, Honest

(* A step of one caller: its query and its index's cache change, and it may *)
(* put a manifest into the client's cache.                                  *)
LEMMA CallerStep ==
    ASSUME IndexInv, NEW c \in Callers, NEW x, NEW o,
           q' = [q EXCEPT ![c] = x], own' = [own EXCEPT ![c] = o], QueryInv(x, o),
           Honest(o), shared' \in Cache,
           \A p \in Place : shared'[p] # Nothing => shared'[p] \in published[p],
           UNCHANGED <<store, published, updates>>
    PROVE  IndexInv'
<1>1. q'[c] = x /\ own'[c] = o
  BY Zenon DEF IndexInv
<1>2. \A d \in Callers : d # c => q'[d] = q[d] /\ own'[d] = own[d]
  BY DEF IndexInv
<1>3. /\ DOMAIN own' = Callers /\ DOMAIN q' = Callers
      /\ own' = [d \in Callers |-> own'[d]] /\ q' = [d \in Callers |-> q'[d]]
  BY DEF IndexInv
<1>4. \A d \in Callers : QueryInv(q'[d], own'[d])
  BY <1>1, <1>2 DEF IndexInv
<1>5. StoreInv'
  BY DEF IndexInv, StoreInv
<1>6. CacheHonest'
  BY <1>1, <1>2, HonestCaches DEF CacheHonest, Honest
<1> QED
  BY <1>3, <1>4, <1>5, <1>6 DEF IndexInv

(* The same when the caches stay as they are.                              *)
LEMMA QueryOnlyStep ==
    ASSUME IndexInv, NEW c \in Callers, NEW x, q' = [q EXCEPT ![c] = x],
           QueryInv(x, own[c]), UNCHANGED <<store, published, updates, shared, own>>
    PROVE  IndexInv'
<1>1. own' = [own EXCEPT ![c] = own[c]]
  BY DEF IndexInv
<1>2. /\ Honest(own[c]) /\ shared' \in Cache
      /\ \A p \in Place : shared'[p] # Nothing => shared'[p] \in published[p]
  BY HonestCaches DEF IndexInv, Honest
<1> QED
  BY <1>1, <1>2, CallerStep

(* The query of c, its server and the key of its manifest.                 *)
LEMMA QueryOf ==
    ASSUME IndexInv, NEW c \in Callers
    PROVE  /\ QueryInv(q[c], own[c]) /\ QueryType(q[c]) /\ own[c] \in Cache
           /\ Server(c) = ServerOf(q[c]) /\ Key(c) = KeyOf(q[c]) /\ Group(c) = Groups[q[c].group]
           /\ Server(c) \in Servers /\ Key(c) \in Place
           /\ Key(c) = <<Server(c), q[c].ns>>
<1>1. QueryInv(q[c], own[c]) /\ QueryType(q[c]) /\ own[c] \in Cache
  BY DEF IndexInv, QueryInv
<1> QED
  BY <1>1, KeyIsPlace DEF Server, Key, Group, ServerOf, KeyOf

LEMMA StartInv ==
    ASSUME IndexInv, NEW c \in Callers, NEW ns \in Namespaces, NEW fresh \in BOOLEAN,
           Start(c, ns, fresh)
    PROVE  IndexInv'
<1> DEFINE x == [Fresh EXCEPT !.pc = "load", !.ns = ns]
           none == [k \in Place |-> Nothing]
<1>1. q' = [q EXCEPT ![c] = x] /\ UNCHANGED <<store, published, updates, shared>>
  BY DEF Start
<1>2. none \in Cache /\ Honest(none)
  BY DEF Cache, Honest
<1>3. own' = [own EXCEPT ![c] = none] \/ own' = own
  BY DEF Start
<1>4. \A o \in Cache : QueryInv(x, o)
  BY StartStep
<1> HIDE DEF x, none
<1>5. CASE own' = own
  BY <1>1, <1>4, <1>5, QueryOf, QueryOnlyStep
<1>6. CASE own' = [own EXCEPT ![c] = none]
  <2>1. /\ shared' \in Cache
        /\ \A p \in Place : shared'[p] # Nothing => shared'[p] \in published[p]
    BY <1>1, HonestCaches DEF IndexInv, Honest
  <2> QED
    BY <1>1, <1>2, <1>4, <1>6, <2>1, CallerStep
<1> QED
  BY <1>3, <1>5, <1>6

LEMMA CachedInv ==
    ASSUME IndexInv, NEW c \in Callers, Cached(c)
    PROVE  IndexInv'
<1> DEFINE x == [q[c] EXCEPT !.pc = "merge", !.probe = q[c].probe, !.failed = q[c].failed]
<1>1. q[c].pc = "load" /\ own[c][KeyOf(q[c])] # Nothing
  BY QueryOf DEF Cached
<1>2. q' = [q EXCEPT ![c] = x] /\ UNCHANGED <<store, published, updates, shared, own>>
  BY QueryOf DEF Cached, QueryType, Fields
<1>3. QueryInv(x, own[c])
  BY <1>1, QueryOf, AtServerStep, KeepsSame DEF QueryType
<1> HIDE DEF x
<1> QED
  BY <1>2, <1>3, QueryOnlyStep

LEMMA MissInv ==
    ASSUME IndexInv, NEW c \in Callers, Miss(c)
    PROVE  IndexInv'
<1> DEFINE x == [q[c] EXCEPT !.pc = "probe", !.probe = 1, !.failed = q[c].failed]
<1>1. q[c].pc = "load" /\ own[c][KeyOf(q[c])] = Nothing
  BY QueryOf DEF Miss
<1>2. q' = [q EXCEPT ![c] = x] /\ UNCHANGED <<store, published, updates, shared, own>>
  BY QueryOf DEF Miss, QueryType, Fields
<1>3. QueryInv(x, own[c])
  <2>1. 1 \in 1..Len(Variants)
    BY GroupFacts
  <2> QED
    BY <1>1, <2>1, QueryOf, AtServerStep, KeepsSame
<1> HIDE DEF x
<1> QED
  BY <1>2, <1>3, QueryOnlyStep

(* A manifest m enters the cache of the index, and the client's if it comes *)
(* from the server.                                                         *)
LEMMA LoadedInv ==
    ASSUME IndexInv, NEW c \in Callers, q[c].pc \in {"load", "probe"},
           own[c][Key(c)] = Nothing,
           NEW m \in Manifests, m \in published[Key(c)],
           own' = [own EXCEPT ![c][Key(c)] = m],
           shared' = shared \/ shared' = [shared EXCEPT ![Key(c)] = m],
           q' = [q EXCEPT ![c].pc = "merge"],
           UNCHANGED <<store, published, updates>>
    PROVE  IndexInv'
<1> DEFINE x == [q[c] EXCEPT !.pc = "merge", !.probe = q[c].probe, !.failed = q[c].failed]
           o == [own[c] EXCEPT ![Key(c)] = m]
<1>1. q' = [q EXCEPT ![c] = x] /\ own' = [own EXCEPT ![c] = o]
  BY QueryOf DEF QueryType, Fields
<1>2. m # Nothing
  BY IndexAssumption
<1>3. o \in Cache /\ o[Key(c)] = m /\ Keeps(o, own[c])
  BY QueryOf DEF Cache, Keeps
<1>4. Honest(o)
  BY <1>3, QueryOf, HonestCaches DEF Honest, Cache
<1>5. QueryInv(x, o)
  <2>1. /\ Key(c) = KeyOf(q[c]) /\ QueryInv(q[c], own[c]) /\ q[c].probe \in 1..Len(Variants)
    BY QueryOf DEF QueryType
  <2>2. o[KeyOf(q[c])] # Nothing
    BY <1>2, <1>3, <2>1
  <2> HIDE DEF o
  <2> QED
    BY <1>3, <2>1, <2>2, FoundStep
<1>6. shared' \in Cache /\ \A p \in Place : shared'[p] # Nothing => shared'[p] \in published[p]
  <2>1. shared \in Cache /\ Honest(shared) /\ Key(c) \in Place
    BY QueryOf, HonestCaches DEF IndexInv
  <2>2. shared' \in Cache
    BY <2>1 DEF Cache
  <2>3. \A p \in Place : shared'[p] = shared[p] \/ (p = Key(c) /\ shared'[p] = m)
    BY <2>1 DEF Cache
  <2> QED
    BY <2>1, <2>2, <2>3 DEF Honest
<1> HIDE DEF x, o
<1> QED
  BY <1>1, <1>4, <1>5, <1>6, CallerStep

LEMMA CachedSharedInv ==
    ASSUME IndexInv, NEW c \in Callers, CachedShared(c)
    PROVE  IndexInv'
<1> DEFINE m == shared[Key(c)]
<1>1. m \in Manifests /\ m \in published[Key(c)]
  BY QueryOf, HonestCaches DEF CachedShared, IndexInv, Cache, Honest
<1>2. /\ q[c].pc = "load" /\ own[c][Key(c)] = Nothing
      /\ own' = [own EXCEPT ![c][Key(c)] = m] /\ shared' = shared
      /\ q' = [q EXCEPT ![c].pc = "merge"] /\ UNCHANGED <<store, published, updates>>
  BY DEF CachedShared
<1> HIDE DEF m
<1> QED
  BY <1>1, <1>2, LoadedInv

LEMMA ProbeLoadsInv ==
    ASSUME IndexInv, NEW c \in Callers, ProbeLoads(c)
    PROVE  IndexInv'
<1> DEFINE m == Probed(c)
<1>1. m \in Manifests /\ m \in published[Key(c)]
  <2>1. q[c].probe \in DOMAIN Variants
    BY QueryOf, GroupFacts DEF QueryType
  <2> QED
    BY <2>1, QueryOf DEF ProbeLoads, Probed, IndexInv, StoreInv
<1>2. own[c][Key(c)] = Nothing
  BY QueryOf DEF ProbeLoads, QueryInv, AtServer, Has, KeyOf
<1>3. /\ q[c].pc = "probe"
      /\ own' = [own EXCEPT ![c][Key(c)] = m] /\ shared' = [shared EXCEPT ![Key(c)] = m]
      /\ q' = [q EXCEPT ![c].pc = "merge"] /\ UNCHANGED <<store, published, updates>>
  BY DEF ProbeLoads
<1> HIDE DEF m
<1> QED
  BY <1>1, <1>2, <1>3, LoadedInv

LEMMA ProbeFailsInv ==
    ASSUME IndexInv, NEW c \in Callers, ProbeFails(c)
    PROVE  IndexInv'
<1>1. /\ q[c].pc = "probe" /\ own[c][KeyOf(q[c])] = Nothing
      /\ UNCHANGED <<store, published, updates, shared, own>>
  BY QueryOf DEF ProbeFails, QueryInv, AtServer, Has, KeyOf
<1>2. CASE q[c].probe < Len(Variants)
  <2> DEFINE x == [q[c] EXCEPT !.pc = "probe", !.probe = q[c].probe + 1,
                               !.failed = q[c].failed]
  <2>1. q' = [q EXCEPT ![c] = x]
    BY ZenonT(40), <1>1, <1>2, QueryOf DEF ProbeFails, QueryType, Fields
  <2>2. QueryInv(x, own[c])
    <3>1. q[c].probe + 1 \in 1..Len(Variants)
      <4>1. q[c].probe \in 1..Len(Variants) /\ Len(Variants) \in Nat
        BY QueryOf, GroupFacts DEF QueryType
      <4> QED
        BY <1>2, <4>1
    <3> QED
      BY <1>1, <3>1, QueryOf, AtServerStep, KeepsSame
  <2> HIDE DEF x
  <2> QED
    BY <1>1, <2>1, <2>2, QueryOnlyStep
<1>3. CASE ~ (q[c].probe < Len(Variants))
  <2> DEFINE x == [q[c] EXCEPT !.pc = "next", !.probe = q[c].probe,
                               !.failed = q[c].failed \cup {ServerOf(q[c])}]
  <2>1. q' = [q EXCEPT ![c] = x]
    BY <1>3, QueryOf DEF ProbeFails, QueryType, Fields
  <2>2. QueryInv(x, own[c])
    BY <1>1, QueryOf, AtServerStep, KeepsSame DEF QueryType
  <2> HIDE DEF x
  <2> QED
    BY <1>1, <2>1, <2>2, QueryOnlyStep
<1> QED
  BY <1>2, <1>3

LEMMA MergeInv ==
    ASSUME IndexInv, NEW c \in Callers, Merge(c)
    PROVE  IndexInv'
<1> DEFINE x == [q[c] EXCEPT !.pc = "next",
                             !.items = [v \in Versions |->
                                q[c].items[v] \o OffersOf(q[c], own[c][KeyOf(q[c])])[v]]]
<1>1. q[c].pc = "merge" /\ UNCHANGED <<store, published, updates, shared, own>>
  BY DEF Merge
<1>2. q' = [q EXCEPT ![c] = x]
  BY QueryOf DEF Merge, OffersOf
<1>3. QueryInv(x, own[c])
  BY <1>1, QueryOf, MergeStep
<1> HIDE DEF x
<1> QED
  BY <1>1, <1>2, <1>3, QueryOnlyStep

LEMMA NextServerInv ==
    ASSUME IndexInv, NEW c \in Callers, NextServer(c)
    PROVE  IndexInv'
<1> DEFINE x == [q[c] EXCEPT !.pc = "load", !.at = q[c].at + 1]
<1>1. /\ q[c].pc = "next" /\ q[c].at < Len(Groups[q[c].group])
      /\ UNCHANGED <<store, published, updates, shared, own>>
  BY DEF NextServer, Group
<1>2. q' = [q EXCEPT ![c] = x]
  BY DEF NextServer
<1>3. QueryInv(x, own[c])
  BY <1>1, QueryOf, NextServerStep
<1> HIDE DEF x
<1> QED
  BY <1>1, <1>2, <1>3, QueryOnlyStep

LEMMA GroupEmptyInv ==
    ASSUME IndexInv, NEW c \in Callers, GroupEmpty(c)
    PROVE  IndexInv'
<1> DEFINE err == q[c].lastErr \/ GroupErr(c)
<1>1. /\ q[c].pc = "next" /\ q[c].at = Len(Groups[q[c].group])
      /\ MergedRocks(q[c].items) = NoAnswer
      /\ UNCHANGED <<store, published, updates, shared, own>>
  BY DEF GroupEmpty, Group
<1>2. /\ q[c].lastErr => err
      /\ (\E k \in DOMAIN Groups[q[c].group] : Groups[q[c].group][k] \in q[c].failed) => err
  BY DEF GroupErr, Group
<1>3. CASE q[c].group < Len(Groups)
  <2> DEFINE x == [q[c] EXCEPT !.pc = "load", !.group = q[c].group + 1, !.at = 1,
                               !.items = Fresh.items, !.lastErr = err]
  <2>1. q' = [q EXCEPT ![c] = x]
    BY <1>3 DEF GroupEmpty
  <2> HIDE DEF err
  <2>2. QueryInv(x, own[c])
    BY <1>1, <1>2, <1>3, QueryOf, NextGroupStep
  <2> HIDE DEF x
  <2> QED
    BY <1>1, <2>1, <2>2, QueryOnlyStep
<1>4. CASE ~ (q[c].group < Len(Groups))
  <2> DEFINE pc == IF err THEN "error" ELSE "none"
             x  == [q[c] EXCEPT !.pc = pc, !.lastErr = err]
  <2>1. q' = [q EXCEPT ![c] = x]
    BY <1>4 DEF GroupEmpty
  <2>2. pc \in {"none", "error"} /\ (pc = "none" => ~ err)
    OBVIOUS
  <2>3. q[c].group = Len(Groups)
    <3>1. q[c].group \in 1..Len(Groups) /\ Len(Groups) \in Nat
      BY QueryOf, GroupFacts DEF QueryType
    <3> QED
      BY <1>4, <3>1
  <2> HIDE DEF err, pc
  <2>4. QueryInv(x, own[c])
    BY <1>1, <1>2, <2>2, <2>3, QueryOf, LastGroupStep
  <2> HIDE DEF x
  <2> QED
    BY <1>1, <2>1, <2>4, QueryOnlyStep
<1> QED
  BY <1>3, <1>4

LEMMA GroupFindsInv ==
    ASSUME IndexInv, NEW c \in Callers, GroupFinds(c)
    PROVE  IndexInv'
<1>1. /\ q[c].pc = "next" /\ UNCHANGED <<store, published, updates, shared, own>>
      /\ q' = [q EXCEPT ![c] = GroupFindsAnswer(q[c])]
  BY DEF GroupFinds, GroupFindsAnswer
<1> QED
  BY <1>1, QueryOf, GroupFindsStep, QueryOnlyStep

(* What a server published before stays in published: a cache may be stale  *)
(* but never wrong.                                                         *)
LEMMA ChangeInv ==
    ASSUME IndexInv, NEW u \in updates, Change(u)
    PROVE  IndexInv'
<1>1. u \in Place \X (DOMAIN Variants) \X Content
  BY DEF IndexInv, StoreInv
<1>2. u[1] \in Place /\ u[2] \in DOMAIN Variants /\ u[3] \in Content
  BY <1>1
<1>3. /\ updates' = updates \ {u}
      /\ store' = [store EXCEPT ![u[1]][u[2]] = u[3]]
      /\ published' = [published EXCEPT ![u[1]] = published[u[1]] \cup {u[3]}]
      /\ UNCHANGED <<shared, own, q>>
  BY DEF Change
<1>4. \A p \in Place : published[p] \subseteq published'[p]
  BY <1>2, <1>3 DEF IndexInv, StoreInv
<1>5. CacheHonest'
  BY <1>3, <1>4 DEF IndexInv, CacheHonest
<1>6. StoreInv'
  <2>1. store' \in [Place -> [DOMAIN Variants -> Content]]
    BY <1>2, <1>3 DEF IndexInv, StoreInv
  <2>2. published' \in [Place -> SUBSET Content] /\ u[3] \in published'[u[1]]
    BY <1>2, <1>3 DEF IndexInv, StoreInv
  <2>3. \A p \in Place : \A k \in DOMAIN Variants :
           store'[p][k] = IF p = u[1] /\ k = u[2] THEN u[3] ELSE store[p][k]
    BY <1>2, <1>3 DEF IndexInv, StoreInv
  <2>4. \A p \in Place : \A k \in DOMAIN Variants : store[p][k] \in published[p]
    BY DEF IndexInv, StoreInv
  <2> QED
    BY <1>3, <1>4, <2>1, <2>2, <2>3, <2>4 DEF IndexInv, StoreInv
<1> QED
  BY <1>3, <1>5, <1>6 DEF IndexInv

LEMMA InitIndex == Init => IndexInv
<1> SUFFICES ASSUME Init PROVE IndexInv
  OBVIOUS
<1>1. PICK s \in Sessions : store = s.store /\ updates = s.updates
  BY DEF Init
<1>2. /\ store \in [Place -> [DOMAIN Variants -> Content]]
      /\ updates \subseteq Place \X (DOMAIN Variants) \X Content
  BY <1>1, IndexAssumption
<1>3. published = [p \in Place |-> {store[p][k] : k \in DOMAIN Variants}]
  BY DEF Init
<1>4. StoreInv
  BY <1>2, <1>3 DEF StoreInv
<1>5. /\ shared = [k \in Place |-> Nothing]
      /\ own = [c \in Callers |-> [k \in Place |-> Nothing]]
      /\ q = [c \in Callers |-> Fresh]
  BY DEF Init
<1>6. [k \in Place |-> Nothing] \in Cache
  BY DEF Cache
<1>7. \A c \in Callers : QueryInv(q[c], own[c])
  BY <1>5, <1>6, FreshType DEF QueryInv
<1>8. CacheHonest
  BY <1>5 DEF CacheHonest
<1> QED
  BY <1>4, <1>5, <1>6, <1>7, <1>8 DEF IndexInv

LEMMA IndexStep ==
    ASSUME IndexInv, [Next]_vars
    PROVE  IndexInv'
<1>1. CASE UNCHANGED vars
  BY <1>1 DEF vars, IndexInv, StoreInv, CacheHonest
<1> QED
  BY <1>1, StartInv, CachedInv, CachedSharedInv, MissInv, ProbeLoadsInv, ProbeFailsInv,
     MergeInv, NextServerInv, GroupEmptyInv, GroupFindsInv, ChangeInv DEF Next, Query

LEMMA AlwaysIndexInv == Spec => []IndexInv
BY InitIndex, IndexStep, PTL DEF Spec

-----------------------------------------------------------------------------

(* However many calls share the client's cache and whatever the servers     *)
(* change or fail to answer meanwhile, a cache entry is a manifest its      *)
(* server published for its namespace: a failed probe is never cached, and  *)
(* no key is filled from another server or namespace.                       *)
THEOREM CachesHonest == Spec => []CacheHonest
<1>1. IndexInv => CacheHonest
  BY DEF IndexInv
<1> QED
  BY <1>1, AlwaysIndexInv, PTL

(* For any server list: a rock is taken from the first group that has it,   *)
(* except for servers that failed.                                          *)
THEOREM AnswerFromFirst == Spec => []FirstFoundWins
BY InvFirstFound, AlwaysIndexInv, PTL

(* For any server list: a dead or broken server never hides a rock, and "no *)
(* such rock" is said only after every server was loaded and lacks it.      *)
THEOREM DeadServersHideNothing == Spec => []NoRockHidden
BY InvNoRockHidden, AlwaysIndexInv, PTL
=============================================================================
