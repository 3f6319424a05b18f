--------------------------- MODULE DownloadProofs ---------------------------
(***************************************************************************)
(* FailureHonest of Search, and SavedWhole and ReportIsTrue of Download,   *)
(* for any callers, servers, calls and manifests, and artifacts of any     *)
(* size.                                                                   *)
(***************************************************************************)
EXTENDS Download, WellFoundedInduction, FiniteSetTheorems, TLAPS

-----------------------------------------------------------------------------
(* Induction over numbers, with the set of the numbers it holds for in the *)
(* place of the induction hypothesis, and a loop's body as a function.     *)

LEMMA LeastNat ==
    ASSUME NEW Some \in SUBSET Nat, Some # {}
    PROVE  \E x \in Some : \A y \in Some : x <= y
<1>1. PICK x \in Some : \A y \in Some : ~ (<<y, x>> \in OpToRel(<, Nat))
  BY NatLessThanWellFounded, WFMin
<1>2. \A y \in Some : ~ (y < x)
  BY <1>1 DEF OpToRel
<1> QED
  BY <1>2

(* Induction up to a bound, over a set instead of a predicate.             *)
LEMMA Induction ==
    ASSUME NEW n \in Nat, NEW P, 0 \in P, \A k \in 1..n : k - 1 \in P => k \in P
    PROVE  \A k \in 0..n : k \in P
<1> DEFINE Some == {m \in 0..n : m \notin P}
<1> SUFFICES ASSUME Some # {} PROVE FALSE
  OBVIOUS
<1>1. PICK m \in Some : \A j \in Some : m <= j
  <2>1. Some \in SUBSET Nat
    OBVIOUS
  <2> HIDE DEF Some
  <2> QED
    BY <2>1, LeastNat
<1>2. m - 1 \in 0..n /\ m \in 1..n /\ m - 1 \notin Some
  BY <1>1
<1> QED
  BY <1>1, <1>2

(* The values of a loop variable after each round: it starts as a, and      *)
(* round k makes step[<<k, x>>] of x.                                       *)
Steps(n, D) == [(1..n) \X D -> D]

Iterates(m, D, a, step) ==
    {g \in [0..m -> D] : g[0] = a /\ \A k \in 1..m : g[k] = step[<<k, g[k - 1]>>]}

(* A loop of n rounds has such values, so a recursive function that names   *)
(* them is well defined.                                                    *)
LEMMA IterationExists ==
    ASSUME NEW n \in Nat, NEW D, NEW a \in D, NEW step \in Steps(n, D)
    PROVE  Iterates(n, D, a, step) # {}
<1> USE DEF Iterates, Steps
<1> DEFINE Runs(m) == Iterates(m, D, a, step)
           P == {m \in 0..n : Runs(m) # {}}
<1>1. 0 \in P
  <2> DEFINE z == [k \in {0} |-> a]
  <2>1. z \in [0..0 -> D] /\ z[0] = a /\ 1..0 = {}
    OBVIOUS
  <2>2. z \in Runs(0)
    BY <2>1
  <2> QED
    BY <2>2
<1>2. ASSUME NEW m \in 1..n, m - 1 \in P
      PROVE  m \in P
  <2>1. PICK g \in [0..(m-1) -> D] :
           g[0] = a /\ \A k \in 1..(m - 1) : g[k] = step[<<k, g[k - 1]>>]
    BY <1>2
  <2> DEFINE h == [k \in 0..m |-> IF k = m THEN step[<<m, g[m - 1]>>] ELSE g[k]]
  <2>2. g[m - 1] \in D
    BY <2>1
  <2>3. step[<<m, g[m - 1]>>] \in D
    BY <2>2
  <2>4. \A k \in 0..m : k # m => k \in 0..(m - 1)
    OBVIOUS
  <2>5. h \in [0..m -> D]
    BY <2>1, <2>3, <2>4
  <2>6. h[0] = a
    BY <2>1
  <2>7. ASSUME NEW k \in 1..m PROVE h[k] = step[<<k, h[k - 1]>>]
    <3>1. k - 1 \in 0..m /\ k - 1 # m /\ k \in 0..m
      OBVIOUS
    <3>2. h[k - 1] = g[k - 1]
      BY <3>1
    <3>3. CASE k = m
      BY <3>1, <3>2, <3>3
    <3>4. CASE k # m
      <4>1. k \in 1..(m - 1) /\ h[k] = g[k]
        BY <3>1, <3>4
      <4> QED
        BY <2>1, <3>2, <4>1
    <3> QED
      BY <3>3, <3>4
  <2> HIDE DEF h
  <2>8. h \in Runs(m)
    BY <2>5, <2>6, <2>7
  <2> QED
    BY <2>8
<1> HIDE DEF P
<1>3. n \in P
  BY <1>1, <1>2, Induction
<1> QED
  BY <1>3 DEF P

-----------------------------------------------------------------------------
(* The lists of rows.                                                      *)

(* Lists one after the other are a list, empty if each of them is.         *)
LEMMA JoinedFacts ==
    ASSUME NEW S, NEW lists \in Seq(Seq(S))
    PROVE  /\ Joined(lists) \in Seq(S)
           /\ Joined(lists) = <<>> => \A k \in 1..Len(lists) : lists[k] = <<>>
<1> DEFINE n == Len(lists)
           D == Seq(S)
           step == [ks \in (1..n) \X D |-> ks[2] \o lists[ks[1]]]
           join == CHOOSE g : g = [k \in 0..n |->
                                      IF k = 0 THEN <<>> ELSE g[k - 1] \o lists[k]]
<1>1. n \in Nat /\ \A k \in 1..n : lists[k] \in D
  OBVIOUS
<1>2. Joined(lists) = join[n]
  BY DEF Joined
<1>3. \A k \in 1..n : \A s \in D : step[<<k, s>>] = s \o lists[k]
  OBVIOUS
<1>4. step \in Steps(n, D) /\ <<>> \in D
  <2>1. \A k \in 1..n : \A s \in D : s \o lists[k] \in D
    BY <1>1
  <2>2. <<>> \in D
    OBVIOUS
  <2> HIDE DEF D, n
  <2> QED
    BY <2>1, <2>2 DEF Steps
<1> HIDE DEF n, step, D
<1>5. PICK g \in [0..n -> D] : g[0] = <<>> /\ \A k \in 1..n : g[k] = step[<<k, g[k - 1]>>]
  <2>1. Iterates(n, D, <<>>, step) # {}
    BY <1>1, <1>4, IterationExists
  <2> QED
    BY <2>1 DEF Iterates
<1>6. \A k \in 0..n : k = 0 \/ (k \in 1..n /\ k - 1 \in 0..n)
  BY <1>1
<1>7. \A k \in 1..n : k - 1 \in 0..n /\ k \in 0..n /\ k # 0
  BY <1>1
<1>8. \A k \in 1..n : g[k] = g[k - 1] \o lists[k]
  BY <1>3, <1>5, <1>7
<1>9. g = [k \in 0..n |-> IF k = 0 THEN <<>> ELSE g[k - 1] \o lists[k]]
  BY <1>5, <1>6, <1>8
<1>10. join = [k \in 0..n |-> IF k = 0 THEN <<>> ELSE join[k - 1] \o lists[k]]
  BY <1>9
<1> HIDE DEF join
<1>11. join[0] = <<>> /\ \A k \in 1..n : join[k] = join[k - 1] \o lists[k]
  <2>1. 0 \in 0..n
    BY <1>1
  <2> QED
    BY <1>7, <1>10, <2>1
<1> DEFINE P == {j \in 0..n : /\ join[j] \in Seq(S)
                              /\ join[j] = <<>> => \A k \in 1..j : lists[k] = <<>>}
<1>12. 0 \in P
  <2>1. 1..0 = {} /\ <<>> \in Seq(S) /\ 0 \in 0..n
    BY <1>1
  <2> QED
    BY <1>11, <2>1
<1>13. ASSUME NEW k \in 1..n, k - 1 \in P
       PROVE  k \in P
  <2> DEFINE s == join[k - 1]
             t == lists[k]
  <2>1. /\ s \in Seq(S) /\ t \in Seq(S) /\ join[k] = s \o t
        /\ s = <<>> => \A i \in 1..(k - 1) : lists[i] = <<>>
    BY <1>1, <1>11, <1>13 DEF D
  <2> HIDE DEF s
  <2>2. s \o t \in Seq(S) /\ (s \o t = <<>> => s = <<>> /\ t = <<>>)
    BY <2>1
  <2>3. \A i \in 1..k : i \in 1..(k - 1) \/ i = k
    BY <1>1
  <2> QED
    BY <1>7, <2>1, <2>2, <2>3
<1> HIDE DEF P
<1>14. n \in P
  <2>1. \A k \in 0..n : k \in P
    BY <1>1, <1>12, <1>13, Induction
  <2> QED
    BY <1>1, <2>1
<1> QED
  BY <1>2, <1>14 DEF P, n

(* A bounded set of numbers has a greatest one.                            *)
LEMMA GreatestNat ==
    ASSUME NEW n \in Nat, NEW Some \in SUBSET (1..n), Some # {}
    PROVE  \E x \in Some : \A y \in Some : y <= x
<1> DEFINE Far == {n - y : y \in Some}
<1>1. Far \in SUBSET Nat /\ Far # {}
  <2>1. \A y \in Some : n - y \in Nat
    OBVIOUS
  <2>2. PICK y : y \in Some
    OBVIOUS
  <2>3. n - y \in Far
    BY <2>2
  <2> QED
    BY <2>1, <2>3
<1>2. PICK d \in Far : \A e \in Far : d <= e
  <2> HIDE DEF Far
  <2> QED
    BY <1>1, LeastNat
<1>3. PICK x \in Some : d = n - x
  BY <1>2
<1>4. \A y \in Some : n - x <= n - y
  BY <1>2, <1>3
<1> QED
  BY <1>4

(* Sorting leaves as many rows.                                            *)
LEMMA SortFacts ==
    ASSUME NEW S, NEW rows \in Seq(S)
    PROVE  SortMatches(rows) \in Seq(S) /\ Len(SortMatches(rows)) = Len(rows)
<1> DEFINE n == Len(rows)
           D == Seq(S)
           stay(s, r) == {k \in DOMAIN s : ~ Less(r, s[k])}
           at(s, r) == IF stay(s, r) = {} THEN 0
                       ELSE CHOOSE k \in stay(s, r) : \A j \in stay(s, r) : j <= k
           insert(s, r) == InsertAt(s, at(s, r) + 1, r)
           step == [ks \in (1..n) \X D |-> insert(ks[2], rows[ks[1]])]
           sort == CHOOSE g : g = [k \in 0..n |->
                                      IF k = 0 THEN <<>> ELSE insert(g[k - 1], rows[k])]
<1>1. n \in Nat /\ \A k \in 1..n : rows[k] \in S
  OBVIOUS
<1>2. SortMatches(rows) = sort[n]
  BY DEF SortMatches
<1>3. ASSUME NEW s \in D, NEW r \in S
      PROVE  insert(s, r) \in D /\ Len(insert(s, r)) = Len(s) + 1
  <2>1. at(s, r) \in 0..Len(s)
    <3>1. CASE stay(s, r) = {}
      BY <3>1
    <3>2. CASE stay(s, r) # {}
      <4> DEFINE T == stay(s, r)
      <4>1. Len(s) \in Nat /\ T \in SUBSET (1..Len(s))
        OBVIOUS
      <4>2. at(s, r) = CHOOSE k \in T : \A j \in T : j <= k
        BY <3>2
      <4> HIDE DEF T, at
      <4>3. \E x \in T : \A y \in T : y <= x
        BY <3>2, <4>1, GreatestNat DEF T
      <4>4. at(s, r) \in T
        BY <4>2, <4>3
      <4>5. at(s, r) \in 1..Len(s)
        BY <4>1, <4>4
      <4> QED
        BY <4>5
    <3> QED
      BY <3>1, <3>2
  <2> DEFINE i == at(s, r)
             a == SubSeq(s, 1, i)
             b == SubSeq(s, i + 1, Len(s))
  <2>2. i \in 0..Len(s) /\ insert(s, r) = InsertAt(s, i + 1, r)
    BY <2>1
  <2> HIDE DEF i, insert
  <2>3. insert(s, r) = (a \o <<r>>) \o b
    <3>1. (i + 1) - 1 = i
      BY <2>2
    <3> QED
      BY <2>2, <3>1 DEF InsertAt
  <2>4. a \in Seq(S) /\ Len(a) = i /\ b \in Seq(S) /\ Len(b) = Len(s) - i
    BY <2>2
  <2> HIDE DEF a, b
  <2>5. a \o <<r>> \in Seq(S) /\ Len(a \o <<r>>) = i + 1
    BY <2>2, <2>4
  <2> DEFINE u == a \o <<r>>
  <2>6. insert(s, r) = u \o b /\ u \in Seq(S) /\ Len(u) = i + 1
    BY <2>3, <2>5
  <2>7. Len(s) \in Nat /\ Len(s) - i \in Nat /\ (i + 1) + (Len(s) - i) = Len(s) + 1
    BY <2>2
  <2> HIDE DEF u
  <2>8. u \o b \in Seq(S) /\ Len(u \o b) = Len(u) + Len(b)
    <3>1. u \in Seq(S) /\ b \in Seq(S)
      BY <2>4, <2>6
    <3> QED
      BY <3>1
  <2> QED
    BY <2>4, <2>6, <2>7, <2>8 DEF D
<1> HIDE DEF insert
<1>4. \A k \in 1..n : \A s \in D : step[<<k, s>>] = insert(s, rows[k])
  OBVIOUS
<1>5. step \in Steps(n, D) /\ <<>> \in D
  <2>1. <<>> \in D
    OBVIOUS
  <2> HIDE DEF D, n
  <2> QED
    BY <1>1, <1>3, <2>1 DEF Steps
<1> HIDE DEF n, step, D
<1>6. PICK g \in [0..n -> D] : g[0] = <<>> /\ \A k \in 1..n : g[k] = step[<<k, g[k - 1]>>]
  <2>1. Iterates(n, D, <<>>, step) # {}
    BY <1>1, <1>5, IterationExists
  <2> QED
    BY <2>1 DEF Iterates
<1>7. \A k \in 0..n : k = 0 \/ (k \in 1..n /\ k - 1 \in 0..n)
  BY <1>1
<1>8. \A k \in 1..n : k - 1 \in 0..n /\ k \in 0..n /\ k # 0
  BY <1>1
<1>9. \A k \in 1..n : g[k] = insert(g[k - 1], rows[k])
  BY <1>4, <1>6, <1>8
<1>10. g = [k \in 0..n |-> IF k = 0 THEN <<>> ELSE insert(g[k - 1], rows[k])]
  BY <1>6, <1>7, <1>9
<1>11. sort = [k \in 0..n |-> IF k = 0 THEN <<>> ELSE insert(sort[k - 1], rows[k])]
  BY <1>10
<1> HIDE DEF sort
<1>12. sort[0] = <<>> /\ \A k \in 1..n : sort[k] = insert(sort[k - 1], rows[k])
  <2>1. 0 \in 0..n
    BY <1>1
  <2> QED
    BY <1>8, <1>11, <2>1
<1> DEFINE P == {j \in 0..n : sort[j] \in D /\ Len(sort[j]) = j}
<1>13. 0 \in P
  BY <1>1, <1>5, <1>12
<1>14. ASSUME NEW k \in 1..n, k - 1 \in P
       PROVE  k \in P
  <2>1. sort[k - 1] \in D /\ Len(sort[k - 1]) = k - 1 /\ rows[k] \in S
    BY <1>1, <1>14
  <2>2. sort[k] \in D /\ Len(sort[k]) = (k - 1) + 1
    BY <1>3, <1>12, <2>1
  <2> QED
    BY <1>1, <1>8, <2>2
<1> HIDE DEF P
<1>15. n \in P
  <2>1. \A k \in 0..n : k \in P
    BY <1>1, <1>13, <1>14, Induction
  <2> QED
    BY <1>1, <2>1
<1> QED
  BY <1>2, <1>15 DEF P, n, D

LEMMA JoinedOf ==
    ASSUME NEW S, NEW n \in Nat, NEW lists \in [1..n -> Seq(S)]
    PROVE  /\ Joined(lists) \in Seq(S)
           /\ Joined(lists) = <<>> => \A k \in 1..n : lists[k] = <<>>
<1>1. lists \in Seq(Seq(S)) /\ Len(lists) = n
  OBVIOUS
<1> QED
  BY <1>1, JoinedFacts

Rows ==
    [server : DOMAIN world.servers \cup {ProvidedRepo}, name : ToSet(Names),
     version : DOMAIN Strings \cup {VMVersion[n] : n \in ToSet(Names)},
     arch : STRING \cup {"installed"}]

LEMMA NamesFacts ==
    /\ Len(Names) \in Nat /\ DOMAIN Names = 1..Len(Names)
    /\ \A n \in DOMAIN Names : Names[n] \in ToSet(Names)
    /\ \A name \in ToSet(Names) : \E n \in DOMAIN Names : Names[n] = name
BY SearchAssumption DEF ToSet

(* What a manifest that can be read lists.                                 *)
LEMMA ManifestFacts ==
    ASSUME world \in Worlds, NEW s \in DOMAIN world.servers, NEW q,
           NEW nv \in DOMAIN ManifestOf(s, q)
    PROVE  /\ nv \in ToSet(Names) \X DOMAIN Strings
           /\ ManifestOf(s, q)[nv] \in Seq(STRING)
<1>1. CASE HasManifest(s, q)
  <2> DEFINE ns == q.ns
             mf == world.servers[s].manifest[ns]
  <2>1. ns \in DOMAIN world.servers[s].manifest /\ ManifestOf(s, q) = mf
    BY <1>1 DEF ManifestOf, HasManifest
  <2>2. \A mv \in DOMAIN mf : mv \in ToSet(Names) \X DOMAIN Strings /\ mf[mv] \in Seq(STRING)
    BY <2>1, SearchAssumption
  <2> HIDE DEF mf
  <2> QED
    BY <2>1, <2>2
<1>2. CASE ~ HasManifest(s, q)
  BY <1>2 DEF ManifestOf
<1> QED
  BY <1>1, <1>2

(* The rows of a manifest are rows; if there are none, it has no match.    *)
LEMMA MatchManifestFacts ==
    ASSUME world \in Worlds, NEW s \in DOMAIN world.servers, NEW q
    PROVE  LET mf   == ManifestOf(s, q)
               rows == MatchManifest(s, mf, q)
           IN /\ rows \in Seq(Rows)
              /\ rows = <<>> =>
                    \A nv \in DOMAIN mf : \A arch \in ToSet(mf[nv]) :
                        ~ Wanted(q, nv[1], nv[2], arch)
<1> DEFINE mf == ManifestOf(s, q)
           accepted == AcceptedArchSet(q.arch)
           of(name, v) ==
               LET arches == Arches(mf, name, v)
               IN [k \in DOMAIN arches |->
                      IF arches[k] \in accepted THEN <<Row(s, name, v, arches[k])>> ELSE <<>>]
           vers(name) ==
               [v \in DOMAIN Strings |->
                   IF MatchVersion(q, v) THEN Joined(of(name, v)) ELSE <<>>]
           all == [n \in DOMAIN Names |->
                      IF MatchName(q, Names[n]) THEN Joined(vers(Names[n])) ELSE <<>>]
<1>1. MatchManifest(s, mf, q) = Joined(all)
  BY DEF MatchManifest
<1>2. \A nv \in DOMAIN mf : nv \in ToSet(Names) \X DOMAIN Strings /\ mf[nv] \in Seq(STRING)
  BY ManifestFacts
<1> HIDE DEF mf
<1>3. ASSUME NEW name \in ToSet(Names), NEW v \in DOMAIN Strings
      PROVE  /\ Joined(of(name, v)) \in Seq(Rows)
             /\ Joined(of(name, v)) = <<>> =>
                   \A k \in DOMAIN Arches(mf, name, v) : Arches(mf, name, v)[k] \notin accepted
  <2> DEFINE arches == Arches(mf, name, v)
             n == Len(arches)
             lists == of(name, v)
  <2>1. arches \in Seq(STRING)
    <3>1. CASE <<name, v>> \in DOMAIN mf
      BY <1>2, <3>1, Zenon DEF Arches
    <3>2. CASE <<name, v>> \notin DOMAIN mf
      <4>1. arches = <<>>
        BY <3>2, Zenon DEF Arches
      <4> QED
        BY <4>1
    <3> QED
      BY <3>1, <3>2
  <2> HIDE DEF arches, accepted
  <2>2. n \in Nat /\ DOMAIN arches = 1..n /\ \A k \in 1..n : arches[k] \in STRING
    BY <2>1
  <2>3. \A k \in 1..n : Row(s, name, v, arches[k]) \in Rows
    BY <2>2 DEF Row, Rows
  <2>4. /\ lists = [k \in 1..n |->
                      IF arches[k] \in accepted THEN <<Row(s, name, v, arches[k])>> ELSE <<>>]
    BY <2>2 DEF arches
  <2> HIDE DEF lists, n, of
  <2>5. \A k \in 1..n : <<Row(s, name, v, arches[k])>> \in Seq(Rows) /\ <<>> \in Seq(Rows)
    BY <2>3
  <2>6. lists \in [1..n -> Seq(Rows)]
    BY <2>4, <2>5
  <2>7. /\ Joined(lists) \in Seq(Rows)
        /\ Joined(lists) = <<>> => \A k \in 1..n : lists[k] = <<>>
    BY <2>2, <2>6, JoinedOf
  <2>8. \A k \in 1..n : arches[k] \in accepted => lists[k] # <<>>
    BY <2>4
  <2> QED
    BY <2>2, <2>7, <2>8 DEF lists, arches
<1> HIDE DEF of
<1>4. ASSUME NEW name \in ToSet(Names)
      PROVE  /\ Joined(vers(name)) \in Seq(Rows)
             /\ Joined(vers(name)) = <<>> =>
                   \A v \in DOMAIN Strings : MatchVersion(q, v) => Joined(of(name, v)) = <<>>
  <2>1. Len(Strings) \in Nat /\ DOMAIN Strings = 1..Len(Strings)
    BY SearchAssumption
  <2>2. vers(name) \in [1..Len(Strings) -> Seq(Rows)]
    <3>1. <<>> \in Seq(Rows)
      OBVIOUS
    <3> QED
      BY <1>3, <2>1, <3>1
  <2>3. /\ Joined(vers(name)) \in Seq(Rows)
        /\ Joined(vers(name)) = <<>> => \A v \in 1..Len(Strings) : vers(name)[v] = <<>>
    <3> HIDE DEF vers
    <3> QED
      BY <2>1, <2>2, JoinedOf
  <2>4. \A v \in DOMAIN Strings : MatchVersion(q, v) => vers(name)[v] = Joined(of(name, v))
    OBVIOUS
  <2> HIDE DEF vers
  <2> QED
    BY <2>1, <2>3, <2>4
<1> HIDE DEF vers
<1>5. /\ Joined(all) \in Seq(Rows)
      /\ Joined(all) = <<>> =>
            \A name \in ToSet(Names) : MatchName(q, name) => Joined(vers(name)) = <<>>
  <2>1. all \in [1..Len(Names) -> Seq(Rows)]
    <3>1. <<>> \in Seq(Rows)
      OBVIOUS
    <3> QED
      BY <1>4, <3>1, NamesFacts
  <2>2. \A n \in DOMAIN Names : MatchName(q, Names[n]) => all[n] = Joined(vers(Names[n]))
    OBVIOUS
  <2> HIDE DEF all
  <2>3. /\ Joined(all) \in Seq(Rows)
        /\ Joined(all) = <<>> => \A n \in 1..Len(Names) : all[n] = <<>>
    BY <2>1, NamesFacts, JoinedOf
  <2> QED
    BY <2>2, <2>3, NamesFacts
<1> HIDE DEF all
<1>6. ASSUME Joined(all) = <<>>, NEW nv \in DOMAIN mf, NEW arch \in ToSet(mf[nv]),
             Wanted(q, nv[1], nv[2], arch)
      PROVE  FALSE
  <2>1. /\ nv[1] \in ToSet(Names) /\ nv[2] \in DOMAIN Strings /\ <<nv[1], nv[2]>> = nv
        /\ MatchName(q, nv[1]) /\ MatchVersion(q, nv[2]) /\ arch \in accepted
    BY <1>2, <1>6 DEF Wanted
  <2>2. Joined(of(nv[1], nv[2])) = <<>>
    BY <1>4, <1>5, <1>6, <2>1
  <2>3. Arches(mf, nv[1], nv[2]) = mf[nv]
    BY <2>1 DEF Arches
  <2>4. PICK k \in DOMAIN mf[nv] : mf[nv][k] = arch
    BY <1>6 DEF ToSet
  <2> QED
    BY <1>3, <2>1, <2>2, <2>3, <2>4
<1> QED
  BY <1>1, <1>5, <1>6 DEF mf

LEMMA MatchProvidedFacts ==
    ASSUME NEW q
    PROVE  MatchProvided(q) \in Seq(Rows)
<1> DEFINE matches(n) == n \in q.provided /\ MatchName(q, n) /\ MatchVersion(q, VMVersion[n])
           row(k) == Row(ProvidedRepo, Names[k], VMVersion[Names[k]], "installed")
           lists == [k \in DOMAIN Names |-> IF matches(Names[k]) THEN <<row(k)>> ELSE <<>>]
<1>1. MatchProvided(q) = IF "installed" \notin AcceptedArchSet(q.arch) \/ q.ns # NoName
                         THEN <<>> ELSE Joined(lists)
  BY DEF MatchProvided
<1>2. ASSUME NEW k \in DOMAIN Names PROVE row(k) \in Rows
  <2> DEFINE name == Names[k]
             v == VMVersion[name]
  <2>1. name \in ToSet(Names) /\ v \in {VMVersion[n] : n \in ToSet(Names)}
    BY NamesFacts
  <2> HIDE DEF name, v
  <2>2. Row(ProvidedRepo, name, v, "installed") \in Rows
    BY <2>1 DEF Row, Rows
  <2> QED
    BY <2>2 DEF name, v
<1> HIDE DEF matches, row
<1>3. lists \in [1..Len(Names) -> Seq(Rows)]
  <2>1. \A k \in DOMAIN Names : <<row(k)>> \in Seq(Rows) /\ <<>> \in Seq(Rows)
    BY <1>2
  <2> QED
    BY <2>1, NamesFacts
<1> HIDE DEF lists
<1>4. Joined(lists) \in Seq(Rows)
  BY <1>3, NamesFacts, JoinedOf
<1>5. <<>> \in Seq(Rows)
  OBVIOUS
<1> QED
  BY <1>1, <1>4, <1>5, Zenon

-----------------------------------------------------------------------------
(* FailureHonest.                                                          *)

IsWalk(w) ==
    w = [pc |-> w.pc, q |-> w.q, servers |-> w.servers, k |-> w.k, failed |-> w.failed,
         found |-> w.found, result |-> w.result]

(* The server at a position has no match.                                  *)
NoMatchAt(w, p) ==
    LET mf == ManifestOf(w.servers[p], w.q)
    IN \A nv \in DOMAIN mf : \A arch \in ToSet(mf[nv]) : ~ Wanted(w.q, nv[1], nv[2], arch)

WalkOf(w) ==
    /\ IsWalk(w)
    /\ w.servers \in Seq(DOMAIN world.servers)
    /\ w.found \in Seq(Rows)
    /\ w.k \in Nat \ {0}
    /\ w.pc = "walk" /\ w.found = <<>> =>
          \A p \in DOMAIN w.servers \ w.failed : p < w.k => NoMatchAt(w, p)
    /\ w.pc = "walked" /\ w.found = <<>> => w.failed = {}
    /\ w.pc = "failed" =>
          /\ w.failed # {}
          /\ \A p \in DOMAIN w.servers \ w.failed : NoMatchAt(w, p)

(* While nothing is found, no server that was read has a match.            *)
WalkInv ==
    /\ world \in Worlds
    /\ DOMAIN walk = Callers
    /\ \A c \in Callers : WalkOf(walk[c])

LEMMA WalkSame ==
    ASSUME NEW w, WalkOf(w), world' = world
    PROVE  WalkOf(w)'
<1>1. Rows' = Rows /\ \A p : NoMatchAt(w, p)' <=> NoMatchAt(w, p)
  BY DEF Rows, NoMatchAt, ManifestOf, HasManifest
<1> QED
  BY <1>1 DEF WalkOf

(* One caller's walk becomes w.                                            *)
LEMMA Rewalked ==
    ASSUME WalkInv, NEW c \in Callers, NEW w, WalkOf(w),
           walk' = [walk EXCEPT ![c] = w], world' = world
    PROVE  WalkInv'
<1>1. /\ DOMAIN walk' = Callers /\ walk'[c] = w
      /\ \A d \in Callers : d # c => walk'[d] = walk[d]
  BY DEF WalkInv
<1>2. WalkOf(w)'
  BY WalkSame
<1>3. ASSUME NEW d \in Callers PROVE WalkOf(walk[d])'
  <2>1. CASE d = c
    BY <1>1, <1>2, <2>1 DEF WalkOf, IsWalk, NoMatchAt
  <2>2. CASE d # c
    <3> DEFINE v == walk[d]
    <3>1. WalkOf(v)
      BY DEF WalkInv
    <3>2. walk'[d] = walk[d]
      BY <1>1, <2>2
    <3>3. Rows' = Rows /\ \A p : NoMatchAt(v, p)' <=> NoMatchAt(v, p)
      BY <3>2 DEF Rows, NoMatchAt, ManifestOf, HasManifest
    <3> QED
      BY <3>1, <3>2, <3>3 DEF WalkOf, IsWalk
  <2> QED
    BY <2>1, <2>2
<1> QED
  BY <1>1, <1>3 DEF WalkInv

(* The walk of a call that ended.                                          *)
LEMMA WalkEnds ==
    ASSUME NEW old, WalkOf(old), NEW pc \in {"done", "error"}, NEW result, NEW w,
           w = [old EXCEPT !.pc = pc, !.result = result] \/ w = [old EXCEPT !.pc = pc]
    PROVE  WalkOf(w)
<1>1. \E r : w = [pc |-> pc, q |-> old.q, servers |-> old.servers, k |-> old.k,
                  failed |-> old.failed, found |-> old.found, result |-> r]
  <2>1. IsWalk(old)
    BY DEF WalkOf
  <2>2. CASE w = [old EXCEPT !.pc = pc, !.result = result]
    BY <2>1, <2>2 DEF IsWalk
  <2>3. CASE w = [old EXCEPT !.pc = pc]
    BY <2>1, <2>3 DEF IsWalk
  <2> QED
    BY <2>2, <2>3
<1>2. PICK r : w = [pc |-> pc, q |-> old.q, servers |-> old.servers, k |-> old.k,
                    failed |-> old.failed, found |-> old.found, result |-> r]
  BY <1>1
<1>3. /\ IsWalk(w) /\ w.pc = pc /\ w.servers = old.servers /\ w.k = old.k
      /\ w.found = old.found
  BY <1>2 DEF IsWalk
<1> QED
  BY <1>3 DEF WalkOf

LEMMA WalkBegins ==
    ASSUME WalkInv, NEW c \in Callers, NEW q, BeginWalk(c, q), world' = world
    PROVE  WalkInv'
<1> DEFINE servers == SearchServers(Call(c))
           w == [Idle EXCEPT !.pc = "walk", !.q = q, !.servers = servers]
<1>1. walk' = [walk EXCEPT ![c] = w]
  BY DEF BeginWalk
<1>2. servers \in Seq(DOMAIN world.servers)
  <2>1. /\ world.call[c].servers \in Seq(DOMAIN world.servers)
        /\ world.configured \in Seq(DOMAIN world.servers)
    BY SearchAssumption DEF WalkInv
  <2> DEFINE a == world.call[c].servers
             b == world.configured
             D == DOMAIN world.servers
  <2>2. servers = a \o b
    BY DEF SearchServers, Call
  <2>3. a \in Seq(D) /\ b \in Seq(D)
    BY <2>1
  <2> HIDE DEF servers, a, b, D
  <2>4. servers \in Seq(D)
    BY <2>2, <2>3
  <2> QED
    BY <2>4 DEF D
<1> HIDE DEF servers
<1>3. w = [Idle EXCEPT !.pc = "walk", !.q = q, !.servers = servers]
  OBVIOUS
<1> HIDE DEF w
<1>4. w = [pc |-> "walk", q |-> q, servers |-> servers, k |-> 1, failed |-> {},
           found |-> <<>>, result |-> <<>>]
  BY <1>3 DEF Idle
<1>5. /\ IsWalk(w) /\ w.pc = "walk" /\ w.servers = servers /\ w.k = 1 /\ w.found = <<>>
  BY <1>4 DEF IsWalk
<1>6. \A p \in DOMAIN w.servers : ~ (p < w.k)
  BY <1>2, <1>5
<1>7. <<>> \in Seq(Rows)
  OBVIOUS
<1>8. WalkOf(w)
  BY <1>2, <1>5, <1>6, <1>7 DEF WalkOf
<1> QED
  BY <1>1, <1>8, Rewalked

LEMMA WalkRefused ==
    ASSUME WalkInv, NEW c \in Callers, world' = world,
           NEW pc \in {"done", "error"}, NEW result,
           \/ walk' = [walk EXCEPT ![c].pc = pc]
           \/ walk' = [walk EXCEPT ![c].pc = pc, ![c].result = result]
    PROVE  WalkInv'
<1> DEFINE old == walk[c]
<1>1. WalkOf(old)
  BY DEF WalkInv
<1>2. CASE walk' = [walk EXCEPT ![c].pc = pc]
  <2> DEFINE w == [old EXCEPT !.pc = pc]
  <2>1. walk' = [walk EXCEPT ![c] = w]
    BY <1>2
  <2>2. WalkOf(w)
    BY <1>1, WalkEnds
  <2> HIDE DEF w
  <2> QED
    BY <2>1, <2>2, Rewalked
<1>3. CASE walk' = [walk EXCEPT ![c].pc = pc, ![c].result = result]
  <2> DEFINE w == [old EXCEPT !.pc = pc, !.result = result]
  <2>1. walk' = [walk EXCEPT ![c] = w]
    BY <1>3 DEF WalkInv
  <2>2. WalkOf(w)
    BY <1>1, WalkEnds
  <2> HIDE DEF w
  <2> QED
    BY <2>1, <2>2, Rewalked
<1> QED
  BY <1>2, <1>3

LEMMA LoadServerInv ==
    ASSUME WalkInv, NEW c \in Callers, LoadServer(c)
    PROVE  WalkInv'
<1> DEFINE old == walk[c]
           s == Server(c)
           rows == MatchManifest(s, ManifestOf(s, old.q), old.q)
           found == old.found \o rows
           k == IF HasExactMatch(found, old.q) THEN Len(old.servers) + 1 ELSE old.k + 1
           w == [old EXCEPT !.found = found, !.k = k]
<1>1. /\ old.pc = "walk" /\ old.k <= Len(old.servers) /\ world' = world
      /\ walk' = [walk EXCEPT ![c].found = found, ![c].k = k]
      /\ s = old.servers[old.k]
  BY DEF LoadServer, Walking, Server
<1>2. WalkOf(old) /\ DOMAIN walk = Callers /\ world \in Worlds
  BY DEF WalkInv
<1>3. walk' = [walk EXCEPT ![c] = w]
  <2> HIDE DEF found, k
  <2> QED
    BY <1>1, <1>2
<1>4. ~ HasExactMatch(<<>>, old.q)
  BY DEF HasExactMatch
<1>5. w = [old EXCEPT !.found = found, !.k = k]
  OBVIOUS
<1> HIDE DEF old, s, w
<1>6. /\ old.servers \in Seq(DOMAIN world.servers) /\ old.k \in Nat \ {0}
      /\ old.found \in Seq(Rows) /\ IsWalk(old)
      /\ old.found = <<>> => \A p \in DOMAIN old.servers \ old.failed :
                                p < old.k => NoMatchAt(old, p)
  BY <1>1, <1>2 DEF WalkOf
<1>7. s \in DOMAIN world.servers
  BY <1>1, <1>6
<1>8. rows \in Seq(Rows) /\ (rows = <<>> => NoMatchAt(old, old.k))
  BY <1>1, <1>2, <1>7, MatchManifestFacts DEF NoMatchAt
<1> HIDE DEF rows
<1>9. found \in Seq(Rows) /\ (found = <<>> => old.found = <<>> /\ rows = <<>>)
  BY <1>6, <1>8
<1>10. k \in Nat \ {0} /\ (found = <<>> => k = old.k + 1)
  <2> HIDE DEF found
  <2> QED
    BY <1>4, <1>6
<1> HIDE DEF found, k
<1>11. w = [pc |-> old.pc, q |-> old.q, servers |-> old.servers, k |-> k,
            failed |-> old.failed, found |-> found, result |-> old.result]
  BY <1>5, <1>6 DEF IsWalk
<1>12. /\ IsWalk(w) /\ w.pc = "walk" /\ w.q = old.q /\ w.servers = old.servers /\ w.k = k
       /\ w.failed = old.failed /\ w.found = found
  BY <1>1, <1>11 DEF IsWalk
<1>13. \A p : NoMatchAt(old, p) => NoMatchAt(w, p)
  BY <1>12 DEF NoMatchAt
<1>14. ASSUME found = <<>>, NEW p \in DOMAIN w.servers \ w.failed, p < w.k
       PROVE  NoMatchAt(w, p)
  <2>1. p \in Nat /\ (p < old.k \/ p = old.k)
    BY <1>6, <1>10, <1>12, <1>14
  <2> QED
    BY <1>6, <1>8, <1>9, <1>12, <1>13, <1>14, <2>1
<1>15. WalkOf(w)
  BY <1>6, <1>9, <1>10, <1>12, <1>14 DEF WalkOf
<1> QED
  BY <1>1, <1>3, <1>15, Rewalked

LEMMA ServerFailsInv ==
    ASSUME WalkInv, NEW c \in Callers, ServerFails(c)
    PROVE  WalkInv'
<1> DEFINE old == walk[c]
           k == old.k + 1
           failed == old.failed \cup {old.k}
           w == [old EXCEPT !.k = k, !.failed = failed]
<1>1. old.pc = "walk" /\ world' = world /\ WalkOf(old)
  BY DEF ServerFails, Walking, WalkInv
<1>2. walk' = [walk EXCEPT ![c] = w]
  BY DEF ServerFails, WalkInv
<1>3. w = [old EXCEPT !.k = k, !.failed = failed]
  OBVIOUS
<1> HIDE DEF old, w
<1>4. /\ old.servers \in Seq(DOMAIN world.servers) /\ old.k \in Nat \ {0}
      /\ old.found \in Seq(Rows) /\ IsWalk(old)
      /\ old.found = <<>> => \A p \in DOMAIN old.servers \ old.failed :
                                p < old.k => NoMatchAt(old, p)
  BY <1>1 DEF WalkOf
<1>5. w = [pc |-> old.pc, q |-> old.q, servers |-> old.servers, k |-> k,
           failed |-> failed, found |-> old.found, result |-> old.result]
  BY <1>3, <1>4 DEF IsWalk
<1>6. /\ IsWalk(w) /\ w.pc = "walk" /\ w.q = old.q /\ w.servers = old.servers
      /\ w.k = old.k + 1 /\ w.failed = old.failed \cup {old.k} /\ w.found = old.found
  BY <1>1, <1>5 DEF IsWalk
<1>7. \A p : NoMatchAt(old, p) => NoMatchAt(w, p)
  BY <1>6 DEF NoMatchAt
<1>8. ASSUME w.found = <<>>, NEW p \in DOMAIN w.servers \ w.failed, p < w.k
      PROVE  NoMatchAt(w, p)
  <2>1. p \in Nat /\ p # old.k /\ p < old.k
    BY <1>4, <1>6, <1>8
  <2> QED
    BY <1>4, <1>6, <1>7, <1>8, <2>1
<1>9. WalkOf(w)
  BY <1>4, <1>6, <1>8 DEF WalkOf
<1> QED
  BY <1>1, <1>2, <1>9, Rewalked

LEMMA EndWalkInv ==
    ASSUME WalkInv, NEW c \in Callers, EndWalk(c)
    PROVE  WalkInv'
<1> DEFINE old == walk[c]
           found == old.found \o MatchProvided(old.q)
           sorted == SortMatches(found)
           pc == IF found = <<>> /\ old.failed # {} THEN "failed" ELSE "walked"
           w == [old EXCEPT !.found = sorted, !.pc = pc]
<1>1. /\ old.pc = "walk" /\ ~ (old.k <= Len(old.servers)) /\ world' = world
      /\ WalkOf(old) /\ DOMAIN walk = Callers
      /\ walk' = [walk EXCEPT ![c].found = sorted, ![c].pc = pc]
  BY DEF EndWalk, Walking, WalkInv
<1>2. walk' = [walk EXCEPT ![c] = w]
  <2> HIDE DEF sorted, pc
  <2> QED
    BY <1>1
<1>3. w = [old EXCEPT !.found = sorted, !.pc = pc]
  OBVIOUS
<1> HIDE DEF old, w
<1>4. /\ old.servers \in Seq(DOMAIN world.servers) /\ old.k \in Nat \ {0}
      /\ old.found \in Seq(Rows) /\ IsWalk(old)
      /\ old.found = <<>> => \A p \in DOMAIN old.servers \ old.failed :
                                p < old.k => NoMatchAt(old, p)
  BY <1>1 DEF WalkOf
<1>5. found \in Seq(Rows) /\ (found = <<>> => old.found = <<>>)
  <2> DEFINE more == MatchProvided(old.q)
  <2>1. more \in Seq(Rows)
    BY MatchProvidedFacts
  <2> HIDE DEF more
  <2>2. old.found \o more \in Seq(Rows) /\ (old.found \o more = <<>> => old.found = <<>>)
    BY <1>4, <2>1
  <2> QED
    BY <2>2 DEF more
<1> HIDE DEF found
<1>6. sorted \in Seq(Rows) /\ (sorted = <<>> => found = <<>>)
  <2>1. sorted \in Seq(Rows) /\ Len(sorted) = Len(found)
    BY <1>5, SortFacts
  <2> HIDE DEF sorted
  <2>2. sorted = <<>> => Len(found) = 0
    BY <2>1
  <2> QED
    BY <1>5, <2>1, <2>2
<1>7. /\ pc = "failed" => found = <<>> /\ old.failed # {}
      /\ pc \in {"failed", "walked"}
      /\ found = <<>> /\ pc = "walked" => old.failed = {}
  OBVIOUS
<1> HIDE DEF sorted, pc
<1>8. w = [pc |-> pc, q |-> old.q, servers |-> old.servers, k |-> old.k,
           failed |-> old.failed, found |-> sorted, result |-> old.result]
  BY <1>3, <1>4 DEF IsWalk
<1>9. /\ IsWalk(w) /\ w.pc = pc /\ w.q = old.q /\ w.servers = old.servers
      /\ w.k = old.k /\ w.failed = old.failed /\ w.found = sorted
  BY <1>8 DEF IsWalk
<1>10. \A p : NoMatchAt(old, p) => NoMatchAt(w, p)
  BY <1>9 DEF NoMatchAt
<1>11. \A p \in DOMAIN old.servers : p < old.k
  BY <1>1, <1>4
<1>12. WalkOf(w)
  BY <1>4, <1>5, <1>6, <1>7, <1>9, <1>10, <1>11 DEF WalkOf
<1> QED
  BY <1>1, <1>2, <1>12, Rewalked

LEMMA InitWalkInv == Init => WalkInv
<1> SUFFICES ASSUME Init PROVE WalkInv
  OBVIOUS
<1>1. world \in Worlds /\ walk = [c \in Callers |-> Idle]
  BY DEF Init, SearchInit
<1>2. WalkOf(Idle)
  BY DEF WalkOf, IsWalk, Idle
<1> QED
  BY <1>1, <1>2 DEF WalkInv

LEMMA StepWalkInv == WalkInv /\ [Next]_vars => WalkInv'
<1> SUFFICES ASSUME WalkInv, [Next]_vars PROVE WalkInv'
  OBVIOUS
<1>1. CASE UNCHANGED searchVars
  <2>1. walk' = walk /\ world' = world
    BY <1>1 DEF searchVars
  <2>2. Rows' = Rows /\ \A c, p : NoMatchAt(walk[c], p)' <=> NoMatchAt(walk[c], p)
    BY <2>1 DEF Rows, NoMatchAt, ManifestOf, HasManifest
  <2> QED
    BY <2>1, <2>2 DEF WalkInv, WalkOf, IsWalk
<1>2. ASSUME NEW c \in Callers, SearchStep(c) PROVE WalkInv'
  <2>1. CASE RejectSearch(c)
    BY <2>1, WalkRefused DEF RejectSearch, Refuse
  <2>2. CASE StartSearch(c)
    BY <2>2, WalkBegins DEF StartSearch
  <2>3. CASE ReturnSearch(c)
    BY <2>3, WalkRefused DEF ReturnSearch
  <2> QED
    BY <1>2, <2>1, <2>2, <2>3, LoadServerInv, ServerFailsInv, EndWalkInv DEF SearchStep
<1>3. ASSUME NEW c \in Callers, RejectDownload(c) \/ StartOne(c) \/ StartAll(c)
      PROVE  WalkInv'
  <2>1. world' = world /\ (Refuse(c) \/ \E q : BeginWalk(c, q))
    BY <1>3, Zenon DEF RejectDownload, StartOne, StartAll
  <2> QED
    BY <2>1, WalkRefused, WalkBegins DEF Refuse
<1>4. ASSUME NEW c \in Callers, ChooseOne(c) \/ ChooseAll(c) PROVE WalkInv'
  <2>1. world' = world /\ \E pc \in {"done", "error"} : walk' = [walk EXCEPT ![c].pc = pc]
    BY <1>4, Zenon DEF ChooseOne, ChooseAll, SaveNothing
  <2> QED
    BY <2>1, WalkRefused
<1>5. ASSUME NEW c \in Callers,
             \/ CreatePart(c) \/ CreateCopy(c) \/ WritePiece(c) \/ Rename(c) \/ EndCopy(c)
             \/ SaveFails(c) \/ ReturnDownload(c) \/ Killed(c)
      PROVE  UNCHANGED searchVars
  BY <1>5, Zenon DEF CreatePart, CreateCopy, WritePiece, Rename, EndCopy, SaveFails, ReturnDownload,
                     Killed
<1>6. UNCHANGED vars => UNCHANGED searchVars
  BY DEF vars
<1> QED
  BY <1>1, <1>2, <1>3, <1>4, <1>5, <1>6 DEF Next

(* However servers fail, a walk that ends in an error read no server that   *)
(* has a match, and one that ends with nothing and without an error read    *)
(* them all.                                                                *)
THEOREM FailureAlwaysHonest == Spec => []FailureHonest
<1>1. WalkInv => FailureHonest
  BY DEF WalkInv, WalkOf, FailureHonest, NoMatchAt
<1> QED
  BY <1>1, InitWalkInv, StepWalkInv, PTL DEF Spec

-----------------------------------------------------------------------------
(* SavedWhole.                                                             *)

Writing(c) == save[c].pc \in {"write", "close"}

FileOf(c) == File(R(c))

IsSaving(s) ==
    s = [pc |-> s.pc, todo |-> s.todo, at |-> s.at, inode |-> s.inode, piece |-> s.piece,
         failures |-> s.failures, before |-> s.before, returned |-> s.returned,
         alone |-> s.alone]

Shape ==
    /\ DOMAIN save = Callers
    /\ \A c \in Callers : IsSaving(save[c])
    /\ \A c \in Callers : save[c].pc = "write" => save[c].piece \in 1..Pieces
    /\ DOMAIN content = Inodes
    /\ \A i \in Inodes : DOMAIN content[i] = 1..Pieces

(* A file has one name.                                                    *)
NamesInv ==
    /\ \A f \in DOMAIN dir : dir[f] \in Inodes
    /\ \A f \in DOMAIN part : part[f] \in Inodes
    /\ \A f, g \in DOMAIN dir : dir[f] = dir[g] => f = g
    /\ \A f, g \in DOMAIN part : part[f] = part[g] => f = g
    /\ \A f \in DOMAIN dir : \A g \in DOMAIN part : dir[f] # part[g]

(* What a transfer writes has no name but its own, and no transfer to       *)
(* another name writes it.                                                  *)
WritersInv ==
    \A c \in Callers : Writing(c) =>
        /\ save[c].inode \in Inodes
        /\ \A g \in DOMAIN dir : dir[g] = save[c].inode => g = FileOf(c)
        /\ \A g \in DOMAIN part : part[g] = save[c].inode => g = FileOf(c)
        /\ \A d \in Callers :
              Writing(d) /\ save[d].inode = save[c].inode => FileOf(d) = FileOf(c)

(* A transfer whose name is not shaken is the only one, writes the .part    *)
(* file there is, and has written what it counts.                           *)
CalmInv ==
    \A c \in Callers : Writing(c) /\ FileOf(c) \notin shaken =>
        /\ Http(c)
        /\ FileOf(c) \in DOMAIN part
        /\ part[FileOf(c)] = save[c].inode
        /\ \A d \in Callers : Writing(d) /\ FileOf(d) = FileOf(c) => d = c
        /\ \A p \in 1..Pieces :
              save[c].pc = "close" \/ p < save[c].piece =>
                  content[save[c].inode][p] = <<R(c).server>>

SavingInv == Shape /\ NamesInv /\ WritersInv /\ CalmInv /\ SavedWhole

-----------------------------------------------------------------------------
(* The operators.                                                          *)

(* What the invariant reads of a saving.                                   *)
SameSaving(s, t) ==
    /\ s.pc = t.pc /\ s.todo = t.todo /\ s.at = t.at
    /\ s.inode = t.inode /\ s.piece = t.piece

LEMMA NotAlone ==
    ASSUME NEW s, IsSaving(s), NEW t, t = [s EXCEPT !.alone = FALSE]
    PROVE  IsSaving(t) /\ SameSaving(t, s)
<1>1. t = [pc |-> s.pc, todo |-> s.todo, at |-> s.at, inode |-> s.inode, piece |-> s.piece,
           failures |-> s.failures, before |-> s.before, returned |-> s.returned,
           alone |-> FALSE]
  BY DEF IsSaving
<1> QED
  BY <1>1 DEF IsSaving, SameSaving

LEMMA SeenFacts ==
    ASSUME NEW c, NEW s, \A d \in Callers : IsSaving(s[d])
    PROVE  /\ DOMAIN Seen(c, s) = Callers
           /\ \A d \in Callers : /\ IsSaving(Seen(c, s)[d])
                                 /\ SameSaving(Seen(c, s)[d], s[d])
<1>1. DOMAIN Seen(c, s) = Callers
  BY DEF Seen
<1>2. ASSUME NEW d \in Callers
      PROVE  IsSaving(Seen(c, s)[d]) /\ SameSaving(Seen(c, s)[d], s[d])
  <2> DEFINE t == [s[d] EXCEPT !.alone = FALSE]
  <2>1. Seen(c, s)[d] = s[d] \/ Seen(c, s)[d] = t
    BY Zenon DEF Seen
  <2>2. IsSaving(t) /\ SameSaving(t, s[d])
    BY NotAlone
  <2> HIDE DEF t
  <2> QED
    BY <2>1, <2>2 DEF SameSaving
<1> QED
  BY <1>1, <1>2

-----------------------------------------------------------------------------
(* The savings after a caller's step: the others' are as they were.        *)
Others(c) == \A d \in Callers : d # c => SameSaving(save'[d], save[d])

LEMMA OpenFacts ==
    ASSUME Shape, NEW c \in Callers, NEW i \in Inodes, Open(c, i)
    PROVE  /\ Shape' /\ Others(c)
           /\ save'[c].pc = "write" /\ save'[c].inode = i /\ save'[c].piece = 1
           /\ save'[c].todo = save[c].todo /\ save'[c].at = save[c].at
           /\ \A j \in Inodes : j # i => content'[j] = content[j]
<1> DEFINE s == [save EXCEPT ![c].pc = "write", ![c].inode = i, ![c].piece = 1]
           x == [save[c] EXCEPT !.pc = "write", !.inode = i, !.piece = 1]
<1>1. save' = Seen(c, s) /\ content' = [content EXCEPT ![i] = Empty]
  BY DEF Open
<1>2. s[c] = x /\ \A d \in Callers : d # c => s[d] = save[d]
  BY DEF Shape
<1>3. /\ IsSaving(x) /\ x.pc = "write" /\ x.inode = i /\ x.piece = 1
      /\ x.todo = save[c].todo /\ x.at = save[c].at
  <2>1. IsSaving(save[c])
    BY DEF Shape
  <2> DEFINE old == save[c]
  <2>2. IsSaving(old) /\ x = [old EXCEPT !.pc = "write", !.inode = i, !.piece = 1]
    BY <2>1
  <2>3. old.todo = save[c].todo /\ old.at = save[c].at
    OBVIOUS
  <2> HIDE DEF old, x
  <2>4. x = [pc |-> "write", todo |-> old.todo, at |-> old.at, inode |-> i, piece |-> 1,
             failures |-> old.failures, before |-> old.before, returned |-> old.returned,
             alone |-> old.alone]
    BY <2>2 DEF IsSaving
  <2> QED
    BY <2>3, <2>4 DEF IsSaving
<1> HIDE DEF s, x
<1>4. \A d \in Callers : IsSaving(s[d])
  BY <1>2, <1>3 DEF Shape
<1>5. DOMAIN save' = Callers /\ \A d \in Callers : IsSaving(save'[d]) /\ SameSaving(save'[d], s[d])
  BY <1>1, <1>4, SeenFacts
<1>6. /\ Others(c)
      /\ save'[c].pc = "write" /\ save'[c].inode = i /\ save'[c].piece = 1
      /\ save'[c].todo = save[c].todo /\ save'[c].at = save[c].at
  BY <1>2, <1>3, <1>5 DEF SameSaving, Others
<1>7. 1 \in 1..Pieces
  BY DownloadAssumption
<1>8. \A d \in Callers : save'[d].pc = "write" => save'[d].piece \in 1..Pieces
  BY <1>6, <1>7 DEF SameSaving, Shape, Others
<1>9. /\ DOMAIN content' = Inodes /\ \A j \in Inodes : DOMAIN content'[j] = 1..Pieces
      /\ \A j \in Inodes : j # i => content'[j] = content[j]
  BY <1>1 DEF Shape, Empty
<1> QED
  BY <1>5, <1>6, <1>8, <1>9 DEF Shape

LEMMA StepFacts ==
    ASSUME Shape, NEW c \in Callers, NEW n, save' = Step(c, n), content' = content
    PROVE  Shape' /\ Others(c) /\ save'[c].pc \in {"save", "last"}
<1> DEFINE next == IF save[c].at < Len(save[c].todo) THEN "save" ELSE "last"
           at == save[c].at + 1
           x == [save[c] EXCEPT !.at = at, !.failures = n, !.inode = 0, !.pc = next]
           s == [save EXCEPT ![c].at = @ + 1, ![c].failures = n, ![c].inode = 0,
                             ![c].pc = next]
<1>1. save' = Seen(c, s)
  BY DEF Step
<1>2. s[c] = x /\ \A d \in Callers : d # c => s[d] = save[d]
  BY DEF Shape
<1>3. next \in {"save", "last"}
  OBVIOUS
<1> HIDE DEF next, at
<1>4. IsSaving(x) /\ x.pc = next
  <2>1. IsSaving(save[c])
    BY DEF Shape
  <2> DEFINE old == save[c]
  <2>2. /\ IsSaving(old)
        /\ x = [old EXCEPT !.at = at, !.failures = n, !.inode = 0, !.pc = next]
    BY <2>1
  <2> HIDE DEF old, x
  <2>3. x = [pc |-> next, todo |-> old.todo, at |-> at, inode |-> 0, piece |-> old.piece,
             failures |-> n, before |-> old.before, returned |-> old.returned,
             alone |-> old.alone]
    BY <2>2 DEF IsSaving
  <2> QED
    BY <2>3 DEF IsSaving
<1> HIDE DEF s, x
<1>5. \A d \in Callers : IsSaving(s[d])
  BY <1>2, <1>4 DEF Shape
<1>6. DOMAIN save' = Callers /\ \A d \in Callers : IsSaving(save'[d]) /\ SameSaving(save'[d], s[d])
  BY <1>1, <1>5, SeenFacts
<1>7. Others(c) /\ save'[c].pc \in {"save", "last"}
  BY <1>2, <1>3, <1>4, <1>6 DEF SameSaving, Others
<1>8. \A d \in Callers : save'[d].pc = "write" => save'[d].piece \in 1..Pieces
  BY <1>7 DEF SameSaving, Shape, Others
<1> QED
  BY <1>6, <1>7, <1>8 DEF Shape

(* What the invariant reads of another caller is as it was.                *)
LEMMA OtherSame ==
    ASSUME NEW c \in Callers, Others(c), world' = world, NEW d \in Callers, d # c
    PROVE  /\ Writing(d)' <=> Writing(d)
           /\ R(d)' = R(d) /\ FileOf(d)' = FileOf(d)
           /\ Http(d)' <=> Http(d)
           /\ save'[d].pc = save[d].pc /\ save'[d].inode = save[d].inode
           /\ save'[d].piece = save[d].piece
<1>1. SameSaving(save'[d], save[d])
  BY DEF Others
<1>2. R(d)' = R(d)
  BY <1>1 DEF SameSaving, R
<1> QED
  BY <1>1, <1>2 DEF SameSaving, Writing, FileOf, File, Http

(* A caller that stops writing, and may remove its .part file.             *)
LEMMA Leaves ==
    ASSUME SavingInv, NEW c \in Callers, Shape', Others(c), ~ Writing(c)',
           dir' = dir, content' = content, shaken' = shaken, world' = world,
           part' = part \/ (Writing(c) /\ part' = Without(part, FileOf(c)))
    PROVE  SavingInv'
<1>1. Shape /\ NamesInv /\ WritersInv /\ CalmInv /\ SavedWhole
  BY DEF SavingInv
<1>2. /\ DOMAIN part' \subseteq DOMAIN part
      /\ \A g \in DOMAIN part' : part'[g] = part[g]
      /\ \A g \in DOMAIN part : g \in DOMAIN part' \/ (Writing(c) /\ g = FileOf(c))
  BY DEF Without
<1>3. NamesInv'
  BY <1>1, <1>2 DEF NamesInv
<1>4. WritersInv'
  <2> SUFFICES ASSUME NEW d \in Callers, Writing(d)'
               PROVE  /\ save'[d].inode \in Inodes
                      /\ \A g \in DOMAIN dir' : dir'[g] = save'[d].inode => g = FileOf(d)'
                      /\ \A g \in DOMAIN part' : part'[g] = save'[d].inode => g = FileOf(d)'
                      /\ \A e \in Callers : Writing(e)' /\ save'[e].inode = save'[d].inode
                                               => FileOf(e)' = FileOf(d)'
    BY DEF WritersInv
  <2>1. d # c /\ Writing(d) /\ FileOf(d)' = FileOf(d) /\ save'[d].inode = save[d].inode
    BY OtherSame
  <2>2. \A e \in Callers : Writing(e)' => /\ Writing(e) /\ FileOf(e)' = FileOf(e)
                                          /\ save'[e].inode = save[e].inode
    BY OtherSame
  <2> QED
    BY <1>1, <1>2, <2>1, <2>2 DEF WritersInv
<1>5. CalmInv'
  <2> SUFFICES ASSUME NEW d \in Callers, Writing(d)', FileOf(d)' \notin shaken'
               PROVE  /\ Http(d)' /\ FileOf(d)' \in DOMAIN part'
                      /\ part'[FileOf(d)'] = save'[d].inode
                      /\ \A e \in Callers : Writing(e)' /\ FileOf(e)' = FileOf(d)' => e = d
                      /\ \A p \in 1..Pieces :
                            save'[d].pc = "close" \/ p < save'[d].piece =>
                                content'[save'[d].inode][p] = <<R(d)'.server>>
    BY DEF CalmInv
  <2>1. /\ d # c /\ Writing(d) /\ FileOf(d)' = FileOf(d) /\ save'[d].inode = save[d].inode
        /\ save'[d].pc = save[d].pc /\ save'[d].piece = save[d].piece
        /\ R(d)' = R(d) /\ (Http(d)' <=> Http(d)) /\ FileOf(d) \notin shaken
    BY OtherSame
  <2>2. /\ Http(d) /\ FileOf(d) \in DOMAIN part /\ part[FileOf(d)] = save[d].inode
        /\ \A e \in Callers : Writing(e) /\ FileOf(e) = FileOf(d) => e = d
        /\ \A p \in 1..Pieces : save[d].pc = "close" \/ p < save[d].piece =>
              content[save[d].inode][p] = <<R(d).server>>
    BY <1>1, <2>1 DEF CalmInv
  <2>3. \A e \in Callers : Writing(e)' => Writing(e) /\ FileOf(e)' = FileOf(e)
    BY OtherSame
  <2>4. FileOf(d) \in DOMAIN part'
    BY <1>2, <2>1, <2>2
  <2> QED
    BY <1>2, <2>1, <2>2, <2>3, <2>4
<1>6. SavedWhole'
  BY <1>1 DEF SavedWhole, Whole
<1> QED
  BY <1>3, <1>4, <1>5, <1>6 DEF SavingInv

(* The inode a file is opened with is its own, or nobody's.                *)
LEMMA InodeFacts ==
    ASSUME SavingInv, NEW d, NEW f, CanOpen(d, f), d = dir \/ d = part
    PROVE  LET i == InodeOf(d, f)
           IN /\ i \in Inodes
              /\ f \in DOMAIN d => i = d[f]
              /\ f \notin DOMAIN d =>
                    /\ \A g \in DOMAIN dir : dir[g] # i
                    /\ \A g \in DOMAIN part : part[g] # i
                    /\ \A e \in Callers : save[e].inode # i
<1> DEFINE i == InodeOf(d, f)
<1>1. CASE f \in DOMAIN d
  BY <1>1 DEF InodeOf, SavingInv, NamesInv
<1>2. CASE f \notin DOMAIN d
  <2>1. i \in Unused
    BY <1>2 DEF CanOpen, InodeOf
  <2> HIDE DEF i
  <2>2. i \in Inodes /\ (\A g \in DOMAIN dir : dir[g] # i) /\ (\A g \in DOMAIN part : part[g] # i)
        /\ \A e \in Callers : save[e].inode # i
    BY <2>1 DEF Unused
  <2> QED
    BY <1>2, <2>2 DEF i
<1> QED
  BY <1>1, <1>2

LEMMA CreatePartInv ==
    ASSUME SavingInv, NEW c \in Callers, CreatePart(c)
    PROVE  SavingInv'
<1> DEFINE f == FileOf(c)
           i == InodeOf(part, f)
<1>1. /\ save[c].pc = "save" /\ Http(c) /\ CanOpen(part, f)
      /\ part' = With(part, f, i) /\ Open(c, i) /\ dir' = dir /\ world' = world
      /\ shaken' = IF Writers(f) # {} THEN shaken \cup {f} ELSE shaken
  BY DEF CreatePart, FileOf, searchVars
<1>2. Shape /\ NamesInv /\ WritersInv /\ CalmInv /\ SavedWhole
  BY DEF SavingInv
<1>3. /\ i \in Inodes
      /\ f \in DOMAIN part => i = part[f]
      /\ f \notin DOMAIN part =>
            /\ \A g \in DOMAIN dir : dir[g] # i
            /\ \A g \in DOMAIN part : part[g] # i
            /\ \A e \in Callers : save[e].inode # i
  BY <1>1, InodeFacts
<1> HIDE DEF i
<1>4. /\ Shape' /\ Others(c)
      /\ save'[c].pc = "write" /\ save'[c].inode = i /\ save'[c].piece = 1
      /\ save'[c].todo = save[c].todo /\ save'[c].at = save[c].at
      /\ \A j \in Inodes : j # i => content'[j] = content[j]
  BY <1>1, <1>2, <1>3, OpenFacts
<1>5. /\ DOMAIN part' = DOMAIN part \cup {f} /\ part'[f] = i
      /\ \A g \in DOMAIN part : g # f => part'[g] = part[g]
  BY <1>1 DEF With
<1>6. /\ R(c)' = R(c) /\ FileOf(c)' = f /\ (Http(c)' <=> Http(c)) /\ Writing(c)' /\ ~ Writing(c)
  BY <1>1, <1>4 DEF R, FileOf, File, Http, Writing
<1> HIDE DEF f
<1>7. /\ \A g \in DOMAIN dir : dir[g] # i
      /\ \A g \in DOMAIN part : g # f => part[g] # i
      /\ \A e \in Callers : Writing(e) /\ save[e].inode = i => FileOf(e) = f
  BY <1>2, <1>3 DEF NamesInv, WritersInv
<1>8. NamesInv'
  BY <1>1, <1>2, <1>3, <1>5, <1>7 DEF NamesInv
<1>9. WritersInv'
  <2> SUFFICES ASSUME NEW d \in Callers, Writing(d)'
               PROVE  /\ save'[d].inode \in Inodes
                      /\ \A g \in DOMAIN dir' : dir'[g] = save'[d].inode => g = FileOf(d)'
                      /\ \A g \in DOMAIN part' : part'[g] = save'[d].inode => g = FileOf(d)'
                      /\ \A e \in Callers : Writing(e)' /\ save'[e].inode = save'[d].inode
                                               => FileOf(e)' = FileOf(d)'
    BY DEF WritersInv
  <2>1. \A e \in Callers : e # c /\ Writing(e)' =>
           /\ Writing(e) /\ FileOf(e)' = FileOf(e) /\ save'[e].inode = save[e].inode
    BY <1>1, <1>4, OtherSame
  <2>2. CASE d = c
    BY <1>1, <1>3, <1>4, <1>5, <1>6, <1>7, <2>1, <2>2
  <2>3. CASE d # c
    <3>1. /\ Writing(d) /\ FileOf(d)' = FileOf(d) /\ save'[d].inode = save[d].inode
          /\ save[d].inode = i => FileOf(d) = f
      BY <1>7, <2>1, <2>3
    <3>2. /\ save[d].inode \in Inodes
          /\ \A g \in DOMAIN dir : dir[g] = save[d].inode => g = FileOf(d)
          /\ \A g \in DOMAIN part : part[g] = save[d].inode => g = FileOf(d)
          /\ \A e \in Callers :
                Writing(e) /\ save[e].inode = save[d].inode => FileOf(e) = FileOf(d)
      BY <1>2, <3>1 DEF WritersInv
    <3> QED
      BY <1>1, <1>4, <1>5, <1>6, <2>1, <3>1, <3>2
  <2> QED
    BY <2>2, <2>3
<1>10. CalmInv'
  <2> SUFFICES ASSUME NEW d \in Callers, Writing(d)', FileOf(d)' \notin shaken'
               PROVE  /\ Http(d)' /\ FileOf(d)' \in DOMAIN part'
                      /\ part'[FileOf(d)'] = save'[d].inode
                      /\ \A e \in Callers : Writing(e)' /\ FileOf(e)' = FileOf(d)' => e = d
                      /\ \A p \in 1..Pieces :
                            save'[d].pc = "close" \/ p < save'[d].piece =>
                                content'[save'[d].inode][p] = <<R(d)'.server>>
    BY DEF CalmInv
  <2>1. \A e \in Callers : e # c /\ Writing(e)' => Writing(e) /\ FileOf(e)' = FileOf(e)
    BY <1>1, <1>4, OtherSame
  <2>2. f \notin shaken' => \A e \in Callers : Writing(e) => FileOf(e) # f
    BY <1>1 DEF Writers, Writing, FileOf
  <2>3. CASE d = c
    <3>1. \A p \in 1..Pieces : ~ (save'[c].pc = "close" \/ p < save'[c].piece)
      BY <1>4, DownloadAssumption
    <3> QED
      BY <1>1, <1>4, <1>5, <1>6, <2>1, <2>2, <2>3, <3>1
  <2>4. CASE d # c
    <3>1. /\ Writing(d) /\ FileOf(d)' = FileOf(d) /\ save'[d].inode = save[d].inode
          /\ save'[d].pc = save[d].pc /\ save'[d].piece = save[d].piece
          /\ R(d)' = R(d) /\ (Http(d)' <=> Http(d)) /\ FileOf(d) \notin shaken
      BY <1>1, <1>4, <2>4, OtherSame
    <3>2. /\ Http(d) /\ FileOf(d) \in DOMAIN part /\ part[FileOf(d)] = save[d].inode
          /\ \A e \in Callers : Writing(e) /\ FileOf(e) = FileOf(d) => e = d
          /\ \A p \in 1..Pieces : save[d].pc = "close" \/ p < save[d].piece =>
                content[save[d].inode][p] = <<R(d).server>>
      BY <1>2, <3>1 DEF CalmInv
    <3>3. FileOf(d) # f
      BY <2>2, <3>1
    <3>4. save[d].inode # i /\ save[d].inode \in Inodes
      BY <1>2, <1>7, <3>1, <3>2, <3>3 DEF NamesInv
    <3>5. content'[save[d].inode] = content[save[d].inode]
      BY <1>4, <3>4
    <3> QED
      BY <1>5, <1>6, <2>1, <3>1, <3>2, <3>3, <3>5
  <2> QED
    BY <2>3, <2>4
<1>11. SavedWhole'
  <2> SUFFICES ASSUME NEW g \in DOMAIN dir, g \notin shaken' PROVE Whole(dir[g])'
    BY <1>1 DEF SavedWhole
  <2>1. Whole(dir[g]) /\ dir[g] # i /\ dir[g] \in Inodes
    BY <1>1, <1>2, <1>7 DEF SavedWhole, NamesInv
  <2> QED
    BY <1>1, <1>4, <2>1 DEF Whole
<1> QED
  BY <1>4, <1>8, <1>9, <1>10, <1>11 DEF SavingInv

LEMMA CreateCopyInv ==
    ASSUME SavingInv, NEW c \in Callers, CreateCopy(c)
    PROVE  SavingInv'
<1> DEFINE f == FileOf(c)
           i == InodeOf(dir, f)
<1>1. /\ save[c].pc = "save" /\ CanOpen(dir, f)
      /\ dir' = With(dir, f, i) /\ Open(c, i) /\ part' = part /\ world' = world
      /\ shaken' = shaken \cup {f}
  BY DEF CreateCopy, FileOf, searchVars
<1>2. Shape /\ NamesInv /\ WritersInv /\ CalmInv /\ SavedWhole
  BY DEF SavingInv
<1>3. /\ i \in Inodes
      /\ f \in DOMAIN dir => i = dir[f]
      /\ f \notin DOMAIN dir =>
            /\ \A g \in DOMAIN dir : dir[g] # i
            /\ \A g \in DOMAIN part : part[g] # i
            /\ \A e \in Callers : save[e].inode # i
  BY <1>1, InodeFacts
<1> HIDE DEF i
<1>4. /\ Shape' /\ Others(c)
      /\ save'[c].pc = "write" /\ save'[c].inode = i
      /\ save'[c].todo = save[c].todo /\ save'[c].at = save[c].at
      /\ \A j \in Inodes : j # i => content'[j] = content[j]
  BY <1>1, <1>2, <1>3, OpenFacts
<1>5. /\ DOMAIN dir' = DOMAIN dir \cup {f} /\ dir'[f] = i
      /\ \A g \in DOMAIN dir : g # f => dir'[g] = dir[g]
  BY <1>1 DEF With
<1>6. R(c)' = R(c) /\ FileOf(c)' = f /\ Writing(c)' /\ ~ Writing(c)
  BY <1>1, <1>4 DEF R, FileOf, File, Writing
<1> HIDE DEF f
<1>7. /\ \A g \in DOMAIN dir : g # f => dir[g] # i
      /\ \A g \in DOMAIN part : part[g] # i
      /\ \A e \in Callers : Writing(e) /\ save[e].inode = i => FileOf(e) = f
  BY <1>2, <1>3 DEF NamesInv, WritersInv
<1>8. NamesInv'
  BY <1>1, <1>2, <1>3, <1>5, <1>7 DEF NamesInv
<1>9. WritersInv'
  <2> SUFFICES ASSUME NEW d \in Callers, Writing(d)'
               PROVE  /\ save'[d].inode \in Inodes
                      /\ \A g \in DOMAIN dir' : dir'[g] = save'[d].inode => g = FileOf(d)'
                      /\ \A g \in DOMAIN part' : part'[g] = save'[d].inode => g = FileOf(d)'
                      /\ \A e \in Callers : Writing(e)' /\ save'[e].inode = save'[d].inode
                                               => FileOf(e)' = FileOf(d)'
    BY DEF WritersInv
  <2>1. \A e \in Callers : e # c /\ Writing(e)' =>
           /\ Writing(e) /\ FileOf(e)' = FileOf(e) /\ save'[e].inode = save[e].inode
    BY <1>1, <1>4, OtherSame
  <2>2. CASE d = c
    BY <1>1, <1>3, <1>4, <1>5, <1>6, <1>7, <2>1, <2>2
  <2>3. CASE d # c
    <3>1. /\ Writing(d) /\ FileOf(d)' = FileOf(d) /\ save'[d].inode = save[d].inode
          /\ save[d].inode = i => FileOf(d) = f
      BY <1>7, <2>1, <2>3
    <3>2. /\ save[d].inode \in Inodes
          /\ \A g \in DOMAIN dir : dir[g] = save[d].inode => g = FileOf(d)
          /\ \A g \in DOMAIN part : part[g] = save[d].inode => g = FileOf(d)
          /\ \A e \in Callers :
                Writing(e) /\ save[e].inode = save[d].inode => FileOf(e) = FileOf(d)
      BY <1>2, <3>1 DEF WritersInv
    <3> QED
      BY <1>1, <1>4, <1>5, <1>6, <2>1, <3>1, <3>2
  <2> QED
    BY <2>2, <2>3
<1>10. CalmInv'
  <2> SUFFICES ASSUME NEW d \in Callers, Writing(d)', FileOf(d)' \notin shaken'
               PROVE  /\ Http(d)' /\ FileOf(d)' \in DOMAIN part'
                      /\ part'[FileOf(d)'] = save'[d].inode
                      /\ \A e \in Callers : Writing(e)' /\ FileOf(e)' = FileOf(d)' => e = d
                      /\ \A p \in 1..Pieces :
                            save'[d].pc = "close" \/ p < save'[d].piece =>
                                content'[save'[d].inode][p] = <<R(d)'.server>>
    BY DEF CalmInv
  <2>1. d # c
    BY <1>1, <1>6
  <2>2. \A e \in Callers : e # c /\ Writing(e)' => Writing(e) /\ FileOf(e)' = FileOf(e)
    BY <1>1, <1>4, OtherSame
  <2>3. /\ Writing(d) /\ FileOf(d)' = FileOf(d) /\ save'[d].inode = save[d].inode
        /\ save'[d].pc = save[d].pc /\ save'[d].piece = save[d].piece
        /\ R(d)' = R(d) /\ (Http(d)' <=> Http(d)) /\ FileOf(d) \notin shaken /\ FileOf(d) # f
    BY <1>1, <1>4, <2>1, OtherSame
  <2>4. /\ Http(d) /\ FileOf(d) \in DOMAIN part /\ part[FileOf(d)] = save[d].inode
        /\ \A e \in Callers : Writing(e) /\ FileOf(e) = FileOf(d) => e = d
        /\ \A p \in 1..Pieces : save[d].pc = "close" \/ p < save[d].piece =>
              content[save[d].inode][p] = <<R(d).server>>
    BY <1>2, <2>3 DEF CalmInv
  <2>5. save[d].inode # i /\ save[d].inode \in Inodes
    BY <1>2, <1>7, <2>4 DEF NamesInv
  <2>6. content'[save[d].inode] = content[save[d].inode]
    BY <1>4, <2>5
  <2> QED
    BY <1>1, <1>6, <2>2, <2>3, <2>4, <2>6
<1>11. SavedWhole'
  <2> SUFFICES ASSUME NEW g \in DOMAIN dir', g \notin shaken' PROVE Whole(dir[g])'
    BY DEF SavedWhole
  <2>1. g \in DOMAIN dir /\ g # f /\ g \notin shaken /\ dir'[g] = dir[g]
    BY <1>1, <1>5
  <2>2. Whole(dir[g]) /\ dir[g] # i /\ dir[g] \in Inodes
    BY <1>2, <1>7, <2>1 DEF SavedWhole, NamesInv
  <2> QED
    BY <1>4, <2>1, <2>2 DEF Whole
<1> QED
  BY <1>4, <1>8, <1>9, <1>10, <1>11 DEF SavingInv

LEMMA WritePieceInv ==
    ASSUME SavingInv, NEW c \in Callers, WritePiece(c)
    PROVE  SavingInv'
<1> DEFINE i == save[c].inode
           n == save[c].piece
           old == save[c]
           next == IF n < Pieces THEN "write" ELSE "close"
           x == [old EXCEPT !.piece = n + 1, !.pc = next]
<1>1. /\ save[c].pc = "write" /\ dir' = dir /\ part' = part /\ shaken' = shaken /\ world' = world
      /\ content' = [content EXCEPT ![i][n] = <<R(c).server>>]
      /\ save' = [save EXCEPT ![c].piece = @ + 1, ![c].pc = next]
  BY DEF WritePiece, searchVars
<1>2. Shape /\ NamesInv /\ WritersInv /\ CalmInv /\ SavedWhole
  BY DEF SavingInv
<1>3. Writing(c) /\ i \in Inodes /\ n \in 1..Pieces /\ n \in Nat /\ Pieces \in Nat
  BY <1>1, <1>2, DownloadAssumption DEF Writing, WritersInv, Shape
<1>4. /\ DOMAIN save' = Callers /\ save'[c] = x /\ \A d \in Callers : d # c => save'[d] = save[d]
  BY <1>1, <1>2 DEF Shape
<1>5. /\ IsSaving(x) /\ x.pc = next /\ x.piece = n + 1 /\ x.inode = i
      /\ x.todo = save[c].todo /\ x.at = save[c].at
  <2>1. /\ IsSaving(old) /\ x = [old EXCEPT !.piece = n + 1, !.pc = next]
        /\ old.todo = save[c].todo /\ old.at = save[c].at /\ old.inode = i
    BY <1>2 DEF Shape
  <2> HIDE DEF old, x, n, next, i
  <2>2. x = [pc |-> next, todo |-> old.todo, at |-> old.at, inode |-> old.inode, piece |-> n + 1,
             failures |-> old.failures, before |-> old.before, returned |-> old.returned,
             alone |-> old.alone]
    BY <2>1 DEF IsSaving
  <2> QED
    BY <2>1, <2>2 DEF IsSaving
<1> HIDE DEF x, old
<1>6. Others(c)
  BY <1>4 DEF Others, SameSaving
<1>7. /\ save'[c].pc = next /\ save'[c].piece = n + 1 /\ save'[c].inode = i
      /\ save'[c].todo = save[c].todo /\ save'[c].at = save[c].at
  BY <1>4, <1>5
<1>8. /\ next = "write" => n + 1 \in 1..Pieces
      /\ next = "close" => n = Pieces
      /\ next \in {"write", "close"}
  BY <1>3
<1> HIDE DEF next, n, i
<1>9. /\ DOMAIN content' = Inodes /\ \A j \in Inodes : DOMAIN content'[j] = 1..Pieces
      /\ \A j \in Inodes : j # i => content'[j] = content[j]
      /\ content'[i][n] = <<R(c).server>>
      /\ \A p \in 1..Pieces : p # n => content'[i][p] = content[i][p]
  BY <1>1, <1>2, <1>3 DEF Shape
<1>10. Shape'
  <2>1. \A d \in Callers : IsSaving(save'[d])
    BY <1>2, <1>4, <1>5 DEF Shape
  <2>2. \A d \in Callers : save'[d].pc = "write" => save'[d].piece \in 1..Pieces
    BY <1>2, <1>4, <1>7, <1>8 DEF Shape
  <2> QED
    BY <1>4, <1>9, <2>1, <2>2 DEF Shape
<1>11. /\ R(c)' = R(c) /\ FileOf(c)' = FileOf(c) /\ (Http(c)' <=> Http(c)) /\ Writing(c)'
  BY <1>1, <1>7, <1>8 DEF R, FileOf, File, Http, Writing
<1>12. \A d \in Callers : /\ (Writing(d)' <=> Writing(d)) /\ FileOf(d)' = FileOf(d)
                          /\ save'[d].inode = save[d].inode /\ R(d)' = R(d)
                          /\ (Http(d)' <=> Http(d))
  BY <1>1, <1>3, <1>6, <1>7, <1>11, OtherSame DEF i
<1>13. NamesInv' /\ WritersInv'
  BY ZenonT(40), <1>1, <1>2, <1>12 DEF NamesInv, WritersInv
<1>14. CalmInv'
  <2> SUFFICES ASSUME NEW d \in Callers, Writing(d)', FileOf(d)' \notin shaken'
               PROVE  /\ Http(d)' /\ FileOf(d)' \in DOMAIN part'
                      /\ part'[FileOf(d)'] = save'[d].inode
                      /\ \A e \in Callers : Writing(e)' /\ FileOf(e)' = FileOf(d)' => e = d
                      /\ \A p \in 1..Pieces :
                            save'[d].pc = "close" \/ p < save'[d].piece =>
                                content'[save'[d].inode][p] = <<R(d)'.server>>
    BY DEF CalmInv
  <2>1. Writing(d) /\ FileOf(d) \notin shaken
    BY <1>1, <1>12
  <2>2. /\ Http(d) /\ FileOf(d) \in DOMAIN part /\ part[FileOf(d)] = save[d].inode
        /\ \A e \in Callers : Writing(e) /\ FileOf(e) = FileOf(d) => e = d
        /\ \A p \in 1..Pieces : save[d].pc = "close" \/ p < save[d].piece =>
              content[save[d].inode][p] = <<R(d).server>>
    BY <1>2, <2>1 DEF CalmInv
  <2>3. ASSUME NEW p \in 1..Pieces, save'[d].pc = "close" \/ p < save'[d].piece
        PROVE  content'[save[d].inode][p] = <<R(d).server>>
    <3>1. CASE d = c
      <4>1. p = n \/ p < n
        BY <1>3, <1>7, <1>8, <2>3, <3>1
      <4>2. p < n => content[i][p] = <<R(c).server>>
        BY <2>2, <3>1 DEF i, n
      <4> QED
        BY <1>3, <1>9, <3>1, <4>1, <4>2 DEF i
    <3>2. CASE d # c
      <4>1. save'[d].pc = save[d].pc /\ save'[d].piece = save[d].piece
        BY <1>4, <3>2
      <4>2. save[d].inode # i /\ save[d].inode \in Inodes
        BY <1>2, <1>3, <2>1, <2>2, <3>2 DEF WritersInv, i
      <4> QED
        BY <1>9, <2>2, <2>3, <4>1, <4>2
    <3> QED
      BY <3>1, <3>2
  <2> QED
    BY <1>1, <1>12, <2>2, <2>3
<1>15. SavedWhole'
  <2> SUFFICES ASSUME NEW g \in DOMAIN dir, g \notin shaken PROVE Whole(dir[g])'
    BY <1>1 DEF SavedWhole
  <2>1. Whole(dir[g]) /\ dir[g] \in Inodes
    BY <1>2 DEF SavedWhole, NamesInv
  <2>2. dir[g] # i
    <3> SUFFICES ASSUME dir[g] = i PROVE FALSE
      OBVIOUS
    <3>1. g = FileOf(c)
      BY <1>2, <1>3 DEF WritersInv, i
    <3>2. g \in DOMAIN part /\ part[g] = i
      BY <1>2, <1>3, <3>1 DEF CalmInv, i
    <3> QED
      BY <1>2, <3>2 DEF NamesInv
  <2> QED
    BY <1>1, <1>9, <2>1, <2>2 DEF Whole
<1> QED
  BY <1>10, <1>13, <1>14, <1>15 DEF SavingInv

LEMMA RenameInv ==
    ASSUME SavingInv, NEW c \in Callers, Rename(c)
    PROVE  SavingInv'
<1> DEFINE f == FileOf(c)
<1>1. /\ save[c].pc = "close" /\ f \in DOMAIN part
      /\ dir' = With(dir, f, part[f]) /\ part' = Without(part, f)
      /\ save' = Step(c, save[c].failures)
      /\ content' = content /\ shaken' = shaken /\ world' = world
  BY DEF Rename, FileOf, searchVars
<1>2. Shape /\ NamesInv /\ WritersInv /\ CalmInv /\ SavedWhole
  BY DEF SavingInv
<1>3. Shape' /\ Others(c) /\ ~ Writing(c)' /\ Writing(c)
  <2>1. Shape' /\ Others(c) /\ save'[c].pc \in {"save", "last"}
    BY <1>1, <1>2, StepFacts
  <2> QED
    BY <1>1, <2>1 DEF Writing
<1>4. /\ DOMAIN dir' = DOMAIN dir \cup {f} /\ dir'[f] = part[f]
      /\ \A g \in DOMAIN dir : g # f => dir'[g] = dir[g]
      /\ DOMAIN part' = DOMAIN part \ {f}
      /\ \A g \in DOMAIN part' : part'[g] = part[g]
  BY <1>1 DEF With, Without
<1>5. f \notin shaken => /\ part[f] = save[c].inode
                         /\ \A d \in Callers : Writing(d) /\ FileOf(d) = f => d = c
                         /\ \A p \in 1..Pieces : content[part[f]][p] = <<R(c).server>>
  BY <1>1, <1>2, <1>3 DEF CalmInv
<1> HIDE DEF f
<1>6. NamesInv'
  BY <1>1, <1>2, <1>4 DEF NamesInv
<1>7. \A d \in Callers : Writing(d)' =>
         /\ d # c /\ Writing(d) /\ FileOf(d)' = FileOf(d) /\ save'[d].inode = save[d].inode
         /\ save'[d].pc = save[d].pc /\ save'[d].piece = save[d].piece
         /\ R(d)' = R(d) /\ (Http(d)' <=> Http(d))
  BY <1>1, <1>3, OtherSame
<1>8. WritersInv'
  <2> SUFFICES ASSUME NEW d \in Callers, Writing(d)'
               PROVE  /\ save'[d].inode \in Inodes
                      /\ \A g \in DOMAIN dir' : dir'[g] = save'[d].inode => g = FileOf(d)'
                      /\ \A g \in DOMAIN part' : part'[g] = save'[d].inode => g = FileOf(d)'
                      /\ \A e \in Callers : Writing(e)' /\ save'[e].inode = save'[d].inode
                                               => FileOf(e)' = FileOf(d)'
    BY DEF WritersInv
  <2>1. Writing(d) /\ FileOf(d)' = FileOf(d) /\ save'[d].inode = save[d].inode
    BY <1>7
  <2>2. /\ save[d].inode \in Inodes
        /\ \A g \in DOMAIN dir : dir[g] = save[d].inode => g = FileOf(d)
        /\ \A g \in DOMAIN part : part[g] = save[d].inode => g = FileOf(d)
        /\ \A e \in Callers :
              Writing(e) /\ save[e].inode = save[d].inode => FileOf(e) = FileOf(d)
    BY <1>2, <2>1 DEF WritersInv
  <2> QED
    BY <1>1, <1>4, <1>7, <2>1, <2>2
<1>9. CalmInv'
  <2> SUFFICES ASSUME NEW d \in Callers, Writing(d)', FileOf(d)' \notin shaken'
               PROVE  /\ Http(d)' /\ FileOf(d)' \in DOMAIN part'
                      /\ part'[FileOf(d)'] = save'[d].inode
                      /\ \A e \in Callers : Writing(e)' /\ FileOf(e)' = FileOf(d)' => e = d
                      /\ \A p \in 1..Pieces :
                            save'[d].pc = "close" \/ p < save'[d].piece =>
                                content'[save'[d].inode][p] = <<R(d)'.server>>
    BY DEF CalmInv
  <2>1. /\ d # c /\ Writing(d) /\ FileOf(d)' = FileOf(d) /\ FileOf(d) \notin shaken
    BY <1>1, <1>7
  <2>2. /\ Http(d) /\ FileOf(d) \in DOMAIN part /\ part[FileOf(d)] = save[d].inode
        /\ \A e \in Callers : Writing(e) /\ FileOf(e) = FileOf(d) => e = d
        /\ \A p \in 1..Pieces : save[d].pc = "close" \/ p < save[d].piece =>
              content[save[d].inode][p] = <<R(d).server>>
    BY <1>2, <2>1 DEF CalmInv
  <2>3. FileOf(d) # f
    BY <1>3, <2>1, <2>2 DEF f
  <2>4. FileOf(d) \in DOMAIN part' /\ part'[FileOf(d)] = save[d].inode
    BY <1>4, <2>2, <2>3
  <2> QED
    BY <1>1, <1>7, <2>1, <2>2, <2>4
<1>10. SavedWhole'
  <2> SUFFICES ASSUME NEW g \in DOMAIN dir', g \notin shaken PROVE Whole(dir[g])'
    BY <1>1 DEF SavedWhole
  <2>1. CASE g = f
    <3>1. dir'[g] = part[f] /\ \A p \in 1..Pieces : content[part[f]][p] = <<R(c).server>>
      BY <1>4, <1>5, <2>1
    <3>2. 1 \in 1..Pieces
      BY DownloadAssumption
    <3>3. \A p \in 1..Pieces :
             content[part[f]][p] # <<>> /\ content[part[f]][p] = content[part[f]][1]
      BY <3>1, <3>2
    <3> QED
      BY <1>1, <3>1, <3>3 DEF Whole, Hole
  <2>2. CASE g # f
    <3>1. dir'[g] = dir[g] /\ Whole(dir[g])
      BY <1>2, <1>4, <2>2 DEF SavedWhole
    <3> QED
      BY <1>1, <3>1 DEF Whole
  <2> QED
    BY <2>1, <2>2
<1> QED
  BY <1>3, <1>6, <1>8, <1>9, <1>10 DEF SavingInv

LEMMA EndsInv ==
    ASSUME SavingInv, NEW c \in Callers, EndCopy(c) \/ SaveFails(c)
    PROVE  SavingInv'
<1>1. /\ dir' = dir /\ content' = content /\ shaken' = shaken /\ world' = world
      /\ \E n : save' = Step(c, n)
      /\ part' = part \/ (Writing(c) /\ part' = Without(part, FileOf(c)))
  BY DEF EndCopy, SaveFails, files, searchVars, Writing, FileOf
<1>2. Shape' /\ Others(c) /\ save'[c].pc \in {"save", "last"}
  BY <1>1, StepFacts DEF SavingInv
<1>3. ~ Writing(c)'
  BY <1>2 DEF Writing
<1> QED
  BY <1>1, <1>2, <1>3, Leaves

(* One caller's saving becomes t, which does not write.                    *)
LEMMA Replaced ==
    ASSUME SavingInv, NEW c \in Callers, NEW t, IsSaving(t), t.pc \notin {"write", "close"},
           save' = [save EXCEPT ![c] = t], UNCHANGED <<files, world>>
    PROVE  SavingInv'
<1>1. /\ DOMAIN save' = Callers /\ save'[c] = t
      /\ \A d \in Callers : d # c => save'[d] = save[d]
  BY DEF SavingInv, Shape
<1>2. Others(c) /\ ~ Writing(c)'
  BY <1>1 DEF Others, SameSaving, Writing
<1>3. Shape'
  BY <1>1 DEF SavingInv, Shape, files
<1> QED
  BY <1>2, <1>3, Leaves DEF files

LEMMA KilledInv ==
    ASSUME SavingInv, NEW c \in Callers, Killed(c)
    PROVE  SavingInv'
<1> DEFINE old == save[c]
           t == [old EXCEPT !.pc = "killed", !.inode = 0]
<1>1. save' = [save EXCEPT ![c] = t] /\ UNCHANGED <<files, world>> /\ IsSaving(old)
  BY DEF Killed, searchVars, SavingInv, Shape
<1>2. IsSaving(t) /\ t.pc = "killed"
  <2>1. t = [old EXCEPT !.pc = "killed", !.inode = 0]
    OBVIOUS
  <2> HIDE DEF t, old
  <2>2. t = [pc |-> "killed", todo |-> old.todo, at |-> old.at, inode |-> 0,
             piece |-> old.piece, failures |-> old.failures, before |-> old.before,
             returned |-> old.returned, alone |-> old.alone]
    BY <1>1, <2>1 DEF IsSaving
  <2> QED
    BY <2>2 DEF IsSaving
<1> HIDE DEF t
<1> QED
  BY <1>1, <1>2, Replaced

LEMMA ReturnInv ==
    ASSUME SavingInv, NEW c \in Callers, ReturnDownload(c)
    PROVE  SavingInv'
<1> DEFINE old == save[c]
           ok == save[c].failures = 0
           added == DirFiles \ save[c].before
           pc == IF ok THEN "done" ELSE "error"
           r == IF ~ ok THEN <<>>
                ELSE IF ~ Call(c).all THEN <<"file", File(save[c].todo[1])>>
                ELSE IF Cardinality(added) = 1 THEN CHOOSE a \in added : TRUE
                ELSE <<"dir">>
           t == [old EXCEPT !.pc = pc, !.returned = r]
<1>1. pc \notin {"write", "close"}
  OBVIOUS
<1>2. save' = [save EXCEPT ![c].pc = pc, ![c].returned = r] /\ UNCHANGED <<files, world>>
  BY DEF ReturnDownload, searchVars
<1> HIDE DEF pc, r
<1>3. save' = [save EXCEPT ![c] = t] /\ IsSaving(old)
  BY <1>2 DEF SavingInv, Shape
<1>4. IsSaving(t) /\ t.pc = pc
  <2>1. t = [old EXCEPT !.pc = pc, !.returned = r]
    OBVIOUS
  <2> HIDE DEF t, old
  <2>2. t = [pc |-> pc, todo |-> old.todo, at |-> old.at, inode |-> old.inode,
             piece |-> old.piece, failures |-> old.failures, before |-> old.before,
             returned |-> r, alone |-> old.alone]
    BY <1>3, <2>1 DEF IsSaving
  <2> QED
    BY <2>2 DEF IsSaving
<1> HIDE DEF t
<1> QED
  BY <1>1, <1>2, <1>3, <1>4, Replaced

(* The walk, the calls that fail before a file is chosen.                  *)
LEMMA SearchInv ==
    ASSUME SavingInv, save' = save, UNCHANGED <<files, world>>
    PROVE  SavingInv'
<1>1. \A c \in Callers : /\ R(c)' = R(c) /\ FileOf(c)' = FileOf(c)
                         /\ (Writing(c)' <=> Writing(c)) /\ (Http(c)' <=> Http(c))
  BY DEF R, FileOf, File, Writing, Http
<1>2. Shape' /\ NamesInv' /\ SavedWhole'
  BY DEF SavingInv, Shape, NamesInv, SavedWhole, Whole, files
<1>3. WritersInv' /\ CalmInv'
  BY <1>1 DEF SavingInv, WritersInv, CalmInv, files
<1> QED
  BY <1>2, <1>3 DEF SavingInv

LEMMA ChooseInv ==
    ASSUME SavingInv, NEW c \in Callers, ChooseOne(c) \/ ChooseAll(c)
    PROVE  SavingInv'
<1>1. UNCHANGED <<files, world>>
  BY DEF ChooseOne, ChooseAll
<1>2. CASE save' = save
  BY <1>1, <1>2, SearchInv
<1>3. CASE ChooseOne(c) /\ save' # save
  <2> DEFINE todo == <<PickLatestVersion(walk[c].found)>>
             t == [NotSaving EXCEPT !.pc = "save", !.todo = todo]
  <2>1. save' = [save EXCEPT ![c] = t]
    BY <1>3, Zenon DEF ChooseOne, SaveNothing
  <2> HIDE DEF todo
  <2>2. t = [NotSaving EXCEPT !.pc = "save", !.todo = todo]
    OBVIOUS
  <2> HIDE DEF t
  <2>3. t = [pc |-> "save", todo |-> todo, at |-> 1, inode |-> 0, piece |-> 1,
             failures |-> 0, before |-> {}, returned |-> <<>>, alone |-> TRUE]
    BY <2>2 DEF NotSaving
  <2>4. IsSaving(t) /\ t.pc = "save"
    BY <2>3 DEF IsSaving
  <2> QED
    BY <1>1, <2>1, <2>4, Replaced
<1>4. CASE ChooseAll(c) /\ save' # save
  <2> DEFINE found == walk[c].found
             todo == Joined([k \in DOMAIN found |->
                         IF found[k].arch = "installed" THEN <<>> ELSE <<found[k]>>])
             before == DirFiles
             alone == \A d \in Callers : ~ Busy(d)
             t == [NotSaving EXCEPT !.pc = "save", !.todo = todo, !.before = before,
                                    !.alone = alone]
  <2>1. save' = [save EXCEPT ![c] = t]
    BY <1>4, Zenon DEF ChooseAll, SaveNothing
  <2> HIDE DEF todo, before, alone
  <2>2. t = [NotSaving EXCEPT !.pc = "save", !.todo = todo, !.before = before,
                              !.alone = alone]
    OBVIOUS
  <2> HIDE DEF t
  <2>3. t = [pc |-> "save", todo |-> todo, at |-> 1, inode |-> 0, piece |-> 1,
             failures |-> 0, before |-> before, returned |-> <<>>, alone |-> alone]
    BY <2>2 DEF NotSaving
  <2>4. IsSaving(t) /\ t.pc = "save"
    BY <2>3 DEF IsSaving
  <2> QED
    BY <1>1, <2>1, <2>4, Replaced
<1> QED
  BY <1>2, <1>3, <1>4

LEMMA InitSavingInv == Init => SavingInv
<1> SUFFICES ASSUME Init PROVE SavingInv
  OBVIOUS
<1>1. \A c \in Callers : save[c] = NotSaving
  BY DEF Init
<1>2. IsSaving(NotSaving) /\ NotSaving.pc = "none"
  BY DEF IsSaving, NotSaving
<1>3. DOMAIN dir = {} /\ DOMAIN part = {}
  BY DEF Init
<1>4. Shape
  BY <1>1, <1>2 DEF Init, Shape, Empty
<1>5. \A c \in Callers : ~ Writing(c)
  BY <1>1, <1>2 DEF Writing
<1> QED
  BY <1>3, <1>4, <1>5 DEF SavingInv, NamesInv, WritersInv, CalmInv, SavedWhole

LEMMA StepSavingInv == SavingInv /\ [Next]_vars => SavingInv'
<1> SUFFICES ASSUME SavingInv, [Next]_vars PROVE SavingInv'
  OBVIOUS
<1>1. CASE UNCHANGED vars
  <2>1. save' = save /\ UNCHANGED <<files, world>>
    BY <1>1 DEF vars, files, searchVars
  <2> QED
    BY <2>1, SearchInv
<1>2. ASSUME NEW c \in Callers,
             \/ SearchStep(c) /\ UNCHANGED <<files, save>>
             \/ RejectDownload(c) \/ StartOne(c) \/ StartAll(c)
      PROVE  SavingInv'
  <2>1. save' = save /\ UNCHANGED <<files, world>>
    BY <1>2, Zenon DEF SearchStep, RejectSearch, StartSearch, LoadServer, ServerFails, EndWalk,
                ReturnSearch, RejectDownload, StartOne, StartAll
  <2> QED
    BY <2>1, SearchInv
<1> QED
  BY <1>1, <1>2, ChooseInv, CreatePartInv, CreateCopyInv, WritePieceInv, RenameInv, EndsInv,
     ReturnInv, KilledInv DEF Next

(* Whatever transfers fail, are killed or left .part files behind, and      *)
(* however the calls interleave, a name that no copy and no two transfers   *)
(* at once wrote holds a whole artifact of one server.                      *)
THEOREM SavedAlwaysWhole == Spec => []SavedWhole
<1>1. SavingInv => SavedWhole
  BY DEF SavingInv
<1> QED
  BY <1>1, InitSavingInv, StepSavingInv, PTL DEF Spec

-----------------------------------------------------------------------------
(* ReportIsTrue.                                                           *)

Active(c) == save[c].pc \in {"save", "write", "close", "last"}

(* The files of the rows of a call.                                        *)
Todo(c) == {<<"file", File(save[c].todo[k])>> : k \in 1..Len(save[c].todo)}

(* What a call knows that is saving its rows: those it passed are saved,    *)
(* if none failed; and, if it was alone, what is new in the directory is    *)
(* its own.                                                                 *)
ProgressOf(c) ==
    LET s == save[c]
        n == Len(s.todo)
    IN /\ n \in Nat /\ DOMAIN s.todo = 1..n
       /\ s.failures \in Nat
       /\ s.at \in 1..(n + 1) /\ n # 0
       /\ s.at = n + 1 <=> s.pc = "last"
       /\ s.failures = 0 => \A k \in 1..n : k < s.at => File(s.todo[k]) \in DOMAIN dir
       /\ Writing(c) /\ ~ Http(c) => FileOf(c) \in DOMAIN dir
       /\ Call(c).all /\ s.alone =>
             \A a \in DirFiles \ s.before :
                 a \in Todo(c) \/ (Writing(c) /\ Http(c) /\ a = <<"part", FileOf(c)>>)

ReportedOf(c) ==
    /\ \A k \in DOMAIN save[c].todo : File(save[c].todo[k]) \in DOMAIN dir
    /\ save[c].alone /\ Len(save[c].returned) = 2 =>
          \E k \in DOMAIN save[c].todo : save[c].returned = <<"file", File(save[c].todo[k])>>

ReportOf(c) ==
    /\ Active(c) => ProgressOf(c)
    /\ save[c].pc = "done" => ReportedOf(c)

ReportInv == Shape /\ \A c \in Callers : ReportOf(c)

-----------------------------------------------------------------------------
(* What a call's report reads of its saving.                               *)
SameReport(t, s) ==
    /\ t.pc = s.pc /\ t.todo = s.todo /\ t.at = s.at
    /\ t.failures = s.failures /\ t.before = s.before /\ t.returned = s.returned
    /\ t.alone => s.alone

(* The other calls after a caller's step: none that is active is alone if   *)
(* the step changes the directory.                                          *)
Bystanders(c) ==
    \A d \in Callers : d # c =>
        /\ SameReport(save'[d], save[d])
        /\ Active(d) /\ <<dir, part>>' # <<dir, part>> => ~ save'[d].alone

LEMMA SeenReport ==
    ASSUME NEW c \in Callers, NEW s, \A d \in Callers : IsSaving(s[d])
    PROVE  /\ Seen(c, s)[c] = s[c]
           /\ \A d \in Callers : d # c =>
                 /\ SameReport(Seen(c, s)[d], s[d])
                 /\ Active(d) => ~ Seen(c, s)[d].alone
<1>1. Seen(c, s)[c] = s[c]
  BY Zenon DEF Seen
<1>2. ASSUME NEW d \in Callers, d # c
      PROVE  SameReport(Seen(c, s)[d], s[d]) /\ (Active(d) => ~ Seen(c, s)[d].alone)
  <2> DEFINE old == s[d]
             t == [old EXCEPT !.alone = FALSE]
  <2>1. Seen(c, s)[d] = IF Busy(d) \/ save[d].pc = "last" THEN t ELSE old
    BY <1>2, Zenon DEF Seen
  <2>2. Active(d) <=> Busy(d) \/ save[d].pc = "last"
    BY DEF Active, Busy
  <2>3. t = [old EXCEPT !.alone = FALSE] /\ IsSaving(old)
    OBVIOUS
  <2> HIDE DEF t, old
  <2>4. t = [pc |-> old.pc, todo |-> old.todo, at |-> old.at, inode |-> old.inode,
             piece |-> old.piece, failures |-> old.failures, before |-> old.before,
             returned |-> old.returned, alone |-> FALSE]
    BY <2>3 DEF IsSaving
  <2>5. SameReport(t, old) /\ ~ t.alone /\ SameReport(old, old)
    BY <2>4 DEF SameReport
  <2>6. CASE Active(d)
    BY <2>1, <2>2, <2>5, <2>6 DEF old
  <2>7. CASE ~ Active(d)
    BY <2>1, <2>2, <2>5, <2>7 DEF old
  <2> QED
    BY <2>6, <2>7
<1> QED
  BY <1>1, <1>2

LEMMA OpenReport ==
    ASSUME Shape, NEW c \in Callers, NEW i, Open(c, i)
    PROVE  /\ Bystanders(c)
           /\ save'[c].pc = "write" /\ save'[c].todo = save[c].todo
           /\ save'[c].at = save[c].at /\ save'[c].failures = save[c].failures
           /\ save'[c].before = save[c].before /\ save'[c].alone = save[c].alone
<1> DEFINE old == save[c]
           x == [old EXCEPT !.pc = "write", !.inode = i, !.piece = 1]
           s == [save EXCEPT ![c].pc = "write", ![c].inode = i, ![c].piece = 1]
<1>1. save' = Seen(c, s)
  BY DEF Open
<1>2. s[c] = x /\ \A d \in Callers : d # c => s[d] = save[d]
  BY DEF Shape
<1>3. IsSaving(old) /\ x = [old EXCEPT !.pc = "write", !.inode = i, !.piece = 1]
  BY DEF Shape
<1> HIDE DEF s, x, old
<1>4. x = [pc |-> "write", todo |-> old.todo, at |-> old.at, inode |-> i, piece |-> 1,
           failures |-> old.failures, before |-> old.before, returned |-> old.returned,
           alone |-> old.alone]
  BY <1>3 DEF IsSaving
<1>5. IsSaving(x)
  BY <1>4 DEF IsSaving
<1>6. \A d \in Callers : IsSaving(s[d])
  BY <1>2, <1>5 DEF Shape
<1>7. /\ save'[c] = x
      /\ \A d \in Callers : d # c => /\ SameReport(save'[d], save[d])
                                     /\ Active(d) => ~ save'[d].alone
  BY <1>1, <1>2, <1>6, SeenReport
<1> QED
  BY <1>4, <1>7 DEF Bystanders, old

LEMMA StepReport ==
    ASSUME Shape, NEW c \in Callers, NEW m, save' = Step(c, m)
    PROVE  /\ Bystanders(c)
           /\ save'[c].pc = IF save[c].at < Len(save[c].todo) THEN "save" ELSE "last"
           /\ save'[c].todo = save[c].todo /\ save'[c].at = save[c].at + 1
           /\ save'[c].failures = m
           /\ save'[c].before = save[c].before /\ save'[c].alone = save[c].alone
<1> DEFINE old == save[c]
           next == IF old.at < Len(old.todo) THEN "save" ELSE "last"
           at == old.at + 1
           x == [old EXCEPT !.at = at, !.failures = m, !.inode = 0, !.pc = next]
           s == [save EXCEPT ![c].at = @ + 1, ![c].failures = m, ![c].inode = 0,
                             ![c].pc = next]
<1>1. save' = Seen(c, s)
  BY DEF Step
<1>2. s[c] = x /\ \A d \in Callers : d # c => s[d] = save[d]
  BY DEF Shape
<1>3. /\ IsSaving(old) /\ x = [old EXCEPT !.at = at, !.failures = m, !.inode = 0, !.pc = next]
  BY DEF Shape
<1> HIDE DEF s, x, old, next, at
<1>4. x = [pc |-> next, todo |-> old.todo, at |-> at, inode |-> 0, piece |-> old.piece,
           failures |-> m, before |-> old.before, returned |-> old.returned,
           alone |-> old.alone]
  BY <1>3 DEF IsSaving
<1>5. IsSaving(x)
  BY <1>4 DEF IsSaving
<1>6. \A d \in Callers : IsSaving(s[d])
  BY <1>2, <1>5 DEF Shape
<1>7. /\ save'[c] = x
      /\ \A d \in Callers : d # c => /\ SameReport(save'[d], save[d])
                                     /\ Active(d) => ~ save'[d].alone
  BY <1>1, <1>2, <1>6, SeenReport
<1>8. /\ x.pc = next /\ x.todo = old.todo /\ x.at = at /\ x.failures = m
      /\ x.before = old.before /\ x.alone = old.alone
  BY <1>4
<1> QED
  BY <1>7, <1>8 DEF Bystanders, old, next, at

(* A bystander's report stays true.                                        *)
LEMMA BystanderReport ==
    ASSUME NEW c \in Callers, Bystanders(c), world' = world, DOMAIN dir \subseteq DOMAIN dir',
           NEW d \in Callers, d # c, ReportOf(d)
    PROVE  ReportOf(d)'
<1>1. /\ SameReport(save'[d], save[d])
      /\ Active(d) /\ save'[d].alone => dir' = dir /\ part' = part
  BY DEF Bystanders
<1>2. /\ save'[d].pc = save[d].pc /\ save'[d].todo = save[d].todo /\ save'[d].at = save[d].at
      /\ save'[d].failures = save[d].failures /\ save'[d].before = save[d].before
      /\ save'[d].returned = save[d].returned /\ (save'[d].alone => save[d].alone)
  BY <1>1 DEF SameReport
<1>3. /\ R(d)' = R(d) /\ FileOf(d)' = FileOf(d) /\ (Http(d)' <=> Http(d))
      /\ (Writing(d)' <=> Writing(d)) /\ (Active(d)' <=> Active(d)) /\ Call(d)' = Call(d)
      /\ Todo(d)' = Todo(d)
      /\ \A k : File(save[d].todo[k])' = File(save[d].todo[k])
  BY <1>2 DEF R, FileOf, File, Http, Writing, Active, Call, Todo
<1>4. ASSUME Active(d) PROVE ProgressOf(d)'
  <2>1. ProgressOf(d)
    BY <1>4 DEF ReportOf
  <2>2. save'[d].alone => DirFiles' = DirFiles /\ save[d].alone
    BY <1>1, <1>2, <1>4 DEF DirFiles
  <2> QED
    BY <1>2, <1>3, <2>1, <2>2 DEF ProgressOf
<1>5. ASSUME save[d].pc = "done" PROVE ReportedOf(d)'
  <2>1. ReportedOf(d)
    BY <1>5 DEF ReportOf
  <2> QED
    BY <1>2, <1>3, <2>1 DEF ReportedOf
<1> QED
  BY <1>2, <1>3, <1>4, <1>5 DEF ReportOf

(* A step of the report's own call.                                        *)
OwnStep(c) ==
    /\ Shape' /\ Bystanders(c) /\ world' = world
    /\ DOMAIN dir \subseteq DOMAIN dir'

LEMMA OwnReport ==
    ASSUME ReportInv, NEW c \in Callers, OwnStep(c), ReportOf(c)'
    PROVE  ReportInv'
<1>1. \A d \in Callers : d # c => ReportOf(d)'
  BY BystanderReport DEF ReportInv, OwnStep
<1> QED
  BY <1>1 DEF ReportInv, OwnStep

LEMMA OpenedReport ==
    ASSUME NEW c \in Callers, ProgressOf(c), save[c].pc = "save", world' = world,
           save'[c].pc = "write", save'[c].todo = save[c].todo, save'[c].at = save[c].at,
           save'[c].failures = save[c].failures, save'[c].before = save[c].before,
           save'[c].alone = save[c].alone, DOMAIN dir \subseteq DOMAIN dir',
           ~ Http(c) => FileOf(c) \in DOMAIN dir',
           \A a \in DirFiles' : \/ a \in DirFiles \/ a = <<"file", FileOf(c)>>
                                \/ Http(c) /\ a = <<"part", FileOf(c)>>
    PROVE  ReportOf(c)'
<1>1. /\ R(c)' = R(c) /\ FileOf(c)' = FileOf(c) /\ (Http(c)' <=> Http(c))
      /\ Writing(c)' /\ ~ Writing(c) /\ Active(c)' /\ Call(c)' = Call(c)
      /\ Todo(c)' = Todo(c)
      /\ \A k : File(save[c].todo[k])' = File(save[c].todo[k])
  BY DEF R, FileOf, File, Http, Writing, Active, Call, Todo
<1>2. <<"file", FileOf(c)>> \in Todo(c)
  <2>1. save[c].at \in 1..Len(save[c].todo)
    BY DEF ProgressOf
  <2> QED
    BY <2>1 DEF FileOf, R, Todo
<1>3. ASSUME Call(c).all, save[c].alone, NEW a \in DirFiles' \ save[c].before
      PROVE  a \in Todo(c) \/ (Http(c) /\ a = <<"part", FileOf(c)>>)
  <2>1. a \in DirFiles => a \in Todo(c)
    BY <1>1, <1>3 DEF ProgressOf
  <2> QED
    BY <1>2, <2>1
<1>4. ProgressOf(c)'
  BY <1>1, <1>3 DEF ProgressOf
<1> QED
  BY <1>1, <1>4 DEF ReportOf

LEMMA SteppedReport ==
    ASSUME NEW c \in Callers, ProgressOf(c), Busy(c), world' = world, NEW m \in Nat,
           save'[c].pc = IF save[c].at < Len(save[c].todo) THEN "save" ELSE "last",
           save'[c].todo = save[c].todo, save'[c].at = save[c].at + 1,
           save'[c].failures = m, save'[c].before = save[c].before,
           save'[c].alone = save[c].alone, DOMAIN dir \subseteq DOMAIN dir',
           m = 0 => save[c].failures = 0 /\ FileOf(c) \in DOMAIN dir',
           \A a \in DirFiles' : a \in DirFiles \/ a = <<"file", FileOf(c)>>,
           Writing(c) /\ Http(c) => <<"part", FileOf(c)>> \notin DirFiles'
    PROVE  ReportOf(c)'
<1>1. /\ ~ Writing(c)' /\ Active(c)' /\ Call(c)' = Call(c) /\ Todo(c)' = Todo(c)
      /\ save'[c].pc # "done"
      /\ \A k : File(save[c].todo[k])' = File(save[c].todo[k])
  BY DEF Writing, Active, Call, Todo, File
<1> DEFINE n == Len(save[c].todo)
           at == save[c].at
<1>2. n \in Nat /\ at \in 1..n /\ save[c].pc # "last"
  BY DEF ProgressOf, Busy
<1>3. <<"file", FileOf(c)>> \in Todo(c) /\ FileOf(c) = File(save[c].todo[at])
  BY <1>2 DEF FileOf, R, Todo
<1>4. ASSUME Call(c).all, save[c].alone, NEW a \in DirFiles' \ save[c].before
      PROVE  a \in Todo(c)
  <2>1. a \in DirFiles => a \in Todo(c) \/ (Writing(c) /\ Http(c) /\ a = <<"part", FileOf(c)>>)
    BY <1>4 DEF ProgressOf
  <2> QED
    BY <1>3, <1>4, <2>1
<1>5. ASSUME m = 0, NEW k \in 1..n, k < at + 1
      PROVE  File(save[c].todo[k]) \in DOMAIN dir'
  <2>1. k < at \/ k = at
    BY <1>2, <1>5
  <2>2. k < at => File(save[c].todo[k]) \in DOMAIN dir
    BY <1>5 DEF ProgressOf
  <2> QED
    BY <1>3, <1>5, <2>1, <2>2
<1>6. /\ at + 1 \in 1..(n + 1)
      /\ at + 1 = n + 1 <=> save'[c].pc = "last"
  BY <1>2
<1>7. DOMAIN save[c].todo = 1..n /\ n # 0
  BY DEF ProgressOf
<1>8. ProgressOf(c)'
  BY <1>1, <1>2, <1>4, <1>5, <1>6, <1>7 DEF ProgressOf
<1> QED
  BY <1>1, <1>8 DEF ReportOf

LEMMA CreatePartReport ==
    ASSUME SavingInv, SavingInv', ReportInv, NEW c \in Callers, CreatePart(c)
    PROVE  ReportInv'
<1> DEFINE f == FileOf(c)
           i == InodeOf(part, f)
<1>1. /\ save[c].pc = "save" /\ Http(c) /\ part' = With(part, f, i) /\ Open(c, i)
      /\ dir' = dir /\ world' = world
  BY DEF CreatePart, FileOf, searchVars
<1> HIDE DEF i
<1>2. Shape /\ Shape' /\ ProgressOf(c)
  BY <1>1 DEF SavingInv, ReportInv, ReportOf, Active
<1>3. /\ Bystanders(c)
      /\ save'[c].pc = "write" /\ save'[c].todo = save[c].todo
      /\ save'[c].at = save[c].at /\ save'[c].failures = save[c].failures
      /\ save'[c].before = save[c].before /\ save'[c].alone = save[c].alone
  BY <1>1, <1>2, OpenReport
<1> HIDE DEF f
<1>4. DOMAIN part' = DOMAIN part \cup {f} /\ DOMAIN dir' = DOMAIN dir
  BY <1>1 DEF With
<1>5. \A a \in DirFiles' : a \in DirFiles \/ a = <<"part", f>>
  BY <1>4 DEF DirFiles
<1>6. ReportOf(c)'
  BY <1>1, <1>2, <1>3, <1>4, <1>5, OpenedReport DEF f
<1> QED
  BY <1>1, <1>2, <1>3, <1>4, <1>6, OwnReport DEF OwnStep

LEMMA CreateCopyReport ==
    ASSUME SavingInv, SavingInv', ReportInv, NEW c \in Callers, CreateCopy(c)
    PROVE  ReportInv'
<1> DEFINE f == FileOf(c)
           i == InodeOf(dir, f)
<1>1. /\ save[c].pc = "save" /\ dir' = With(dir, f, i) /\ Open(c, i)
      /\ part' = part /\ world' = world
  BY DEF CreateCopy, FileOf, searchVars
<1> HIDE DEF i
<1>2. Shape /\ Shape' /\ ProgressOf(c)
  BY <1>1 DEF SavingInv, ReportInv, ReportOf, Active
<1>3. /\ Bystanders(c)
      /\ save'[c].pc = "write" /\ save'[c].todo = save[c].todo
      /\ save'[c].at = save[c].at /\ save'[c].failures = save[c].failures
      /\ save'[c].before = save[c].before /\ save'[c].alone = save[c].alone
  BY <1>1, <1>2, OpenReport
<1> HIDE DEF f
<1>4. DOMAIN dir' = DOMAIN dir \cup {f}
  BY <1>1 DEF With
<1>5. \A a \in DirFiles' : a \in DirFiles \/ a = <<"file", f>>
  BY <1>1, <1>4 DEF DirFiles
<1>6. ReportOf(c)'
  BY <1>1, <1>2, <1>3, <1>4, <1>5, OpenedReport DEF f
<1> QED
  BY <1>1, <1>2, <1>3, <1>4, <1>6, OwnReport DEF OwnStep

LEMMA RenameReport ==
    ASSUME SavingInv, SavingInv', ReportInv, NEW c \in Callers, Rename(c)
    PROVE  ReportInv'
<1> DEFINE f == FileOf(c)
<1>1. /\ save[c].pc = "close" /\ dir' = With(dir, f, part[f]) /\ part' = Without(part, f)
      /\ save' = Step(c, save[c].failures) /\ world' = world
  BY DEF Rename, FileOf, searchVars
<1>2. Shape /\ Shape' /\ ProgressOf(c) /\ save[c].failures \in Nat
  BY <1>1 DEF SavingInv, ReportInv, ReportOf, Active, ProgressOf
<1> HIDE DEF f
<1>3. /\ Bystanders(c)
      /\ save'[c].pc = IF save[c].at < Len(save[c].todo) THEN "save" ELSE "last"
      /\ save'[c].todo = save[c].todo /\ save'[c].at = save[c].at + 1
      /\ save'[c].failures = save[c].failures
      /\ save'[c].before = save[c].before /\ save'[c].alone = save[c].alone
  BY <1>1, <1>2, StepReport
<1>4. DOMAIN dir' = DOMAIN dir \cup {f} /\ DOMAIN part' = DOMAIN part \ {f}
  BY <1>1 DEF With, Without
<1>5. /\ \A a \in DirFiles' : a \in DirFiles \/ a = <<"file", f>>
      /\ <<"part", f>> \notin DirFiles'
  BY <1>4 DEF DirFiles
<1>6. Busy(c)
  BY <1>1 DEF Busy
<1>7. ReportOf(c)'
  BY <1>1, <1>2, <1>3, <1>4, <1>5, <1>6, SteppedReport DEF f
<1> QED
  BY <1>1, <1>2, <1>3, <1>4, <1>7, OwnReport DEF OwnStep

LEMMA EndCopyReport ==
    ASSUME SavingInv, SavingInv', ReportInv, NEW c \in Callers, EndCopy(c)
    PROVE  ReportInv'
<1>1. /\ save[c].pc = "close" /\ ~ Http(c) /\ dir' = dir /\ part' = part
      /\ save' = Step(c, save[c].failures) /\ world' = world
  BY DEF EndCopy, files, searchVars
<1>2. /\ Shape /\ Shape' /\ ProgressOf(c) /\ save[c].failures \in Nat
      /\ FileOf(c) \in DOMAIN dir
  BY <1>1 DEF SavingInv, ReportInv, ReportOf, Active, ProgressOf, Writing
<1>3. /\ Bystanders(c)
      /\ save'[c].pc = IF save[c].at < Len(save[c].todo) THEN "save" ELSE "last"
      /\ save'[c].todo = save[c].todo /\ save'[c].at = save[c].at + 1
      /\ save'[c].failures = save[c].failures
      /\ save'[c].before = save[c].before /\ save'[c].alone = save[c].alone
  BY <1>1, <1>2, StepReport
<1>4. DirFiles' = DirFiles /\ Busy(c)
  BY <1>1 DEF DirFiles, Busy
<1>5. ReportOf(c)'
  BY <1>1, <1>2, <1>3, <1>4, SteppedReport
<1> QED
  BY <1>1, <1>2, <1>3, <1>5, OwnReport DEF OwnStep

LEMMA SaveFailsReport ==
    ASSUME SavingInv, SavingInv', ReportInv, NEW c \in Callers, SaveFails(c)
    PROVE  ReportInv'
<1> DEFINE m == save[c].failures + 1
<1>1. /\ Busy(c) /\ dir' = dir /\ save' = Step(c, m) /\ world' = world
      /\ Writing(c) /\ Http(c) => part' = Without(part, FileOf(c))
      /\ part' = part \/ part' = Without(part, FileOf(c))
  BY DEF SaveFails, searchVars, Busy, Writing, FileOf
<1>2. /\ Shape /\ Shape' /\ ProgressOf(c) /\ m \in Nat /\ m # 0
  BY <1>1 DEF SavingInv, ReportInv, ReportOf, Active, Busy, ProgressOf
<1> HIDE DEF m
<1>3. /\ Bystanders(c)
      /\ save'[c].pc = IF save[c].at < Len(save[c].todo) THEN "save" ELSE "last"
      /\ save'[c].todo = save[c].todo /\ save'[c].at = save[c].at + 1
      /\ save'[c].failures = m
      /\ save'[c].before = save[c].before /\ save'[c].alone = save[c].alone
  BY <1>1, <1>2, StepReport
<1>4. DOMAIN part' \subseteq DOMAIN part /\ DOMAIN dir' = DOMAIN dir
  BY <1>1 DEF Without
<1>5. \A a \in DirFiles' : a \in DirFiles
  BY <1>4 DEF DirFiles
<1>6. Writing(c) /\ Http(c) => <<"part", FileOf(c)>> \notin DirFiles'
  BY <1>1 DEF DirFiles, Without
<1>7. ReportOf(c)'
  BY <1>1, <1>2, <1>3, <1>4, <1>5, <1>6, SteppedReport
<1> QED
  BY <1>1, <1>2, <1>3, <1>4, <1>7, OwnReport DEF OwnStep

(* One caller's saving becomes t, and the directory is as it was.          *)
LEMMA ReplacedReport ==
    ASSUME SavingInv, SavingInv', ReportInv, NEW c \in Callers, NEW t,
           save' = [save EXCEPT ![c] = t], UNCHANGED <<dir, part, world>>, ReportOf(c)'
    PROVE  ReportInv'
<1>1. Shape /\ Shape' /\ dir' = dir /\ part' = part /\ world' = world
  BY DEF SavingInv
<1>2. \A d \in Callers : d # c => save'[d] = save[d]
  BY <1>1 DEF Shape
<1>3. Bystanders(c)
  BY <1>1, <1>2 DEF Bystanders, SameReport
<1> QED
  BY <1>1, <1>3, OwnReport DEF OwnStep

LEMMA WritePieceReport ==
    ASSUME SavingInv, SavingInv', ReportInv, NEW c \in Callers, WritePiece(c)
    PROVE  ReportInv'
<1> DEFINE old == save[c]
           piece == old.piece + 1
           pc == IF old.piece < Pieces THEN "write" ELSE "close"
           t == [old EXCEPT !.piece = piece, !.pc = pc]
<1>1. /\ save[c].pc = "write" /\ UNCHANGED <<dir, part, world>>
      /\ save' = [save EXCEPT ![c].piece = @ + 1, ![c].pc = pc]
  BY DEF WritePiece, searchVars
<1>2. Shape /\ Shape' /\ ProgressOf(c)
  BY <1>1 DEF SavingInv, ReportInv, ReportOf, Active
<1>3. save' = [save EXCEPT ![c] = t] /\ save'[c] = t
  <2> HIDE DEF pc
  <2> QED
    BY <1>1, <1>2 DEF Shape
<1>4. /\ IsSaving(old) /\ t = [old EXCEPT !.piece = piece, !.pc = pc]
      /\ pc \in {"write", "close"}
  BY <1>2 DEF Shape
<1> HIDE DEF t, old, pc, piece
<1>5. t = [pc |-> pc, todo |-> old.todo, at |-> old.at, inode |-> old.inode, piece |-> piece,
           failures |-> old.failures, before |-> old.before, returned |-> old.returned,
           alone |-> old.alone]
  BY <1>4 DEF IsSaving
<1>6. /\ save'[c].pc \in {"write", "close"} /\ save'[c].todo = save[c].todo
      /\ save'[c].at = save[c].at /\ save'[c].failures = save[c].failures
      /\ save'[c].before = save[c].before /\ save'[c].alone = save[c].alone
  BY <1>3, <1>4, <1>5 DEF old
<1>7. /\ R(c)' = R(c) /\ FileOf(c)' = FileOf(c) /\ (Http(c)' <=> Http(c))
      /\ Writing(c)' /\ Writing(c) /\ Active(c)' /\ Call(c)' = Call(c)
      /\ Todo(c)' = Todo(c) /\ DirFiles' = DirFiles
      /\ \A k : File(save[c].todo[k])' = File(save[c].todo[k])
  BY <1>1, <1>6 DEF R, FileOf, File, Http, Writing, Active, Call, Todo, DirFiles
<1>8. ProgressOf(c)'
  BY <1>1, <1>2, <1>6, <1>7 DEF ProgressOf
<1>9. ReportOf(c)'
  BY <1>6, <1>8 DEF ReportOf
<1> QED
  BY <1>1, <1>3, <1>9, ReplacedReport

(* A call begins to save its rows.                                         *)
LEMMA BegunReport ==
    ASSUME SavingInv, SavingInv', ReportInv, NEW c \in Callers, UNCHANGED <<dir, part, world>>,
           NEW todo, Len(todo) \in Nat \ {0}, DOMAIN todo = 1..Len(todo),
           NEW before, NEW alone, Call(c).all /\ alone => before = DirFiles,
           save' = [save EXCEPT ![c] =
                      [pc |-> "save", todo |-> todo, at |-> 1, inode |-> 0, piece |-> 1,
                       failures |-> 0, before |-> before, returned |-> <<>>,
                       alone |-> alone]]
    PROVE  ReportInv'
<1> DEFINE t == [pc |-> "save", todo |-> todo, at |-> 1, inode |-> 0, piece |-> 1,
                 failures |-> 0, before |-> before, returned |-> <<>>, alone |-> alone]
<1>1. save' = [save EXCEPT ![c] = t] /\ save'[c] = t
  BY DEF SavingInv, Shape
<1>2. /\ t.pc = "save" /\ t.todo = todo /\ t.at = 1 /\ t.failures = 0
      /\ t.before = before /\ t.alone = alone
  OBVIOUS
<1> HIDE DEF t
<1>3. ~ Writing(c)' /\ Active(c)' /\ DirFiles' = DirFiles /\ Call(c)' = Call(c)
  BY <1>1, <1>2 DEF Writing, Active, DirFiles, Call
<1>4. \A k \in 1..Len(todo) : ~ (k < 1)
  OBVIOUS
<1>5. 1 \in 1..(Len(todo) + 1) /\ 1 # Len(todo) + 1
  OBVIOUS
<1>6. ProgressOf(c)'
  BY <1>1, <1>2, <1>3, <1>4, <1>5 DEF ProgressOf
<1>7. ReportOf(c)'
  BY <1>1, <1>2, <1>6 DEF ReportOf
<1> QED
  BY <1>1, <1>7, ReplacedReport

LEMMA SameReports ==
    ASSUME SavingInv', ReportInv, UNCHANGED <<save, dir, part, world>>
    PROVE  ReportInv'
<1>1. \A c : /\ R(c)' = R(c) /\ FileOf(c)' = FileOf(c) /\ (Http(c)' <=> Http(c))
             /\ (Writing(c)' <=> Writing(c)) /\ (Active(c)' <=> Active(c))
             /\ Call(c)' = Call(c) /\ Todo(c)' = Todo(c) /\ DirFiles' = DirFiles
             /\ \A k : File(save[c].todo[k])' = File(save[c].todo[k])
  BY DEF R, FileOf, File, Http, Writing, Active, Call, Todo, DirFiles
<1>2. \A c : (ProgressOf(c)' <=> ProgressOf(c)) /\ (ReportedOf(c)' <=> ReportedOf(c))
  BY <1>1 DEF ProgressOf, ReportedOf
<1> QED
  BY <1>1, <1>2 DEF ReportInv, ReportOf, SavingInv

LEMMA ChooseOneReport ==
    ASSUME SavingInv, SavingInv', ReportInv, NEW c \in Callers, ChooseOne(c)
    PROVE  ReportInv'
<1>1. UNCHANGED <<dir, part, world>> /\ ~ Call(c).all
  BY DEF ChooseOne, files
<1>2. CASE save' = save
  BY <1>1, <1>2, SameReports
<1>3. CASE save' # save
  <2> DEFINE todo == <<PickLatestVersion(walk[c].found)>>
             t == [NotSaving EXCEPT !.pc = "save", !.todo = todo]
  <2>1. save' = [save EXCEPT ![c] = t]
    BY <1>3, Zenon DEF ChooseOne, SaveNothing
  <2>2. Len(todo) \in Nat \ {0} /\ DOMAIN todo = 1..Len(todo)
    OBVIOUS
  <2>3. t = [NotSaving EXCEPT !.pc = "save", !.todo = todo]
    OBVIOUS
  <2> HIDE DEF t, todo
  <2>4. t = [pc |-> "save", todo |-> todo, at |-> 1, inode |-> 0, piece |-> 1,
             failures |-> 0, before |-> {}, returned |-> <<>>, alone |-> TRUE]
    BY <2>3 DEF NotSaving
  <2> QED
    BY <1>1, <2>1, <2>2, <2>4, BegunReport
<1> QED
  BY <1>2, <1>3

LEMMA ChooseAllReport ==
    ASSUME SavingInv, SavingInv', WalkInv, ReportInv, NEW c \in Callers, ChooseAll(c)
    PROVE  ReportInv'
<1>1. UNCHANGED <<dir, part, world>>
  BY DEF ChooseAll, files
<1>2. CASE save' = save
  BY <1>1, <1>2, SameReports
<1>3. CASE save' # save
  <2> DEFINE found == walk[c].found
             lists == [k \in DOMAIN found |->
                          IF found[k].arch = "installed" THEN <<>> ELSE <<found[k]>>]
             todo == Joined(lists)
             before == DirFiles
             alone == \A d \in Callers : ~ Busy(d)
             t == [NotSaving EXCEPT !.pc = "save", !.todo = todo, !.before = before,
                                    !.alone = alone]
  <2>1. save' = [save EXCEPT ![c] = t] /\ todo # <<>>
    BY <1>3, Zenon DEF ChooseAll, SaveNothing
  <2>2. found \in Seq(Rows)
    BY DEF WalkInv, WalkOf
  <2>3. t = [NotSaving EXCEPT !.pc = "save", !.todo = todo, !.before = before,
                              !.alone = alone]
    OBVIOUS
  <2> HIDE DEF t, alone, before, found
  <2>4. todo \in Seq(Rows)
    <3>1. Len(found) \in Nat /\ DOMAIN found = 1..Len(found)
      BY <2>2
    <3>2. \A k \in 1..Len(found) : <<found[k]>> \in Seq(Rows) /\ <<>> \in Seq(Rows)
      BY <2>2
    <3>3. lists \in [1..Len(found) -> Seq(Rows)]
      BY <3>1, <3>2
    <3> HIDE DEF lists
    <3> QED
      BY <3>1, <3>3, JoinedOf
  <2> HIDE DEF todo
  <2>5. Len(todo) \in Nat \ {0} /\ DOMAIN todo = 1..Len(todo)
    BY <2>1, <2>4
  <2>6. t = [pc |-> "save", todo |-> todo, at |-> 1, inode |-> 0, piece |-> 1,
             failures |-> 0, before |-> before, returned |-> <<>>, alone |-> alone]
    BY <2>3 DEF NotSaving
  <2>7. save' = [save EXCEPT ![c] =
                   [pc |-> "save", todo |-> todo, at |-> 1, inode |-> 0, piece |-> 1,
                    failures |-> 0, before |-> before, returned |-> <<>>, alone |-> alone]]
    BY <2>1, <2>6
  <2> QED
    BY <1>1, <2>5, <2>7, BegunReport DEF before
<1> QED
  BY <1>2, <1>3

LEMMA KilledReport ==
    ASSUME SavingInv, SavingInv', ReportInv, NEW c \in Callers, Killed(c)
    PROVE  ReportInv'
<1> DEFINE old == save[c]
           t == [old EXCEPT !.pc = "killed", !.inode = 0]
<1>1. save' = [save EXCEPT ![c] = t] /\ UNCHANGED <<dir, part, world>> /\ IsSaving(old)
  BY DEF Killed, searchVars, files, SavingInv, Shape
<1>2. save'[c] = t /\ t = [old EXCEPT !.pc = "killed", !.inode = 0]
  BY <1>1 DEF SavingInv, Shape
<1> HIDE DEF t, old
<1>3. t.pc = "killed"
  BY <1>1, <1>2 DEF IsSaving
<1>4. ReportOf(c)'
  BY <1>2, <1>3 DEF ReportOf, Active
<1> QED
  BY <1>1, <1>4, ReplacedReport

LEMMA ReturnReport ==
    ASSUME SavingInv, SavingInv', ReportInv, NEW c \in Callers, ReturnDownload(c)
    PROVE  ReportInv'
<1> DEFINE old == save[c]
           ok == old.failures = 0
           added == DirFiles \ old.before
           pc == IF ok THEN "done" ELSE "error"
           r == IF ~ ok THEN <<>>
                ELSE IF ~ Call(c).all THEN <<"file", File(old.todo[1])>>
                ELSE IF Cardinality(added) = 1 THEN CHOOSE a \in added : TRUE
                ELSE <<"dir">>
           t == [old EXCEPT !.pc = pc, !.returned = r]
<1>1. /\ save[c].pc = "last" /\ UNCHANGED <<dir, part, world>>
      /\ save' = [save EXCEPT ![c].pc = pc, ![c].returned = r]
  BY DEF ReturnDownload, searchVars, files
<1>2. Shape /\ ProgressOf(c)
  BY <1>1 DEF SavingInv, ReportInv, ReportOf, Active
<1>3. save' = [save EXCEPT ![c] = t] /\ save'[c] = t
  <2> HIDE DEF pc, r
  <2> QED
    BY <1>1, <1>2 DEF Shape
<1>4. IsSaving(old) /\ t = [old EXCEPT !.pc = pc, !.returned = r]
  BY <1>2 DEF Shape
<1>5. CASE ~ ok
  <2>1. pc = "error"
    BY <1>5
  <2> HIDE DEF pc, r
  <2>2. save'[c].pc = "error"
    <3>1. "pc" \in DOMAIN old
      BY <1>4 DEF IsSaving
    <3>2. t.pc = pc
      BY <3>1
    <3> QED
      BY <1>3, <2>1, <3>2
  <2>3. ReportOf(c)'
    BY <2>2 DEF ReportOf, Active
  <2> HIDE DEF t
  <2> QED
    BY <1>1, <1>3, <2>3, ReplacedReport
<1>6. CASE ok
  <2>1. pc = "done"
    BY <1>6
  <2>2. /\ \A k \in DOMAIN old.todo : File(old.todo[k]) \in DOMAIN dir
        /\ 1 \in DOMAIN old.todo
    BY <1>1, <1>2, <1>6 DEF ProgressOf
  <2>3. ASSUME old.alone, Len(r) = 2
        PROVE  \E k \in DOMAIN old.todo : r = <<"file", File(old.todo[k])>>
    <3>1. CASE ~ Call(c).all
      BY <1>6, <2>2, <3>1
    <3>2. CASE Call(c).all
      <4>1. \A a \in added : a \in Todo(c)
        BY <1>1, <1>2, <2>3, <3>2 DEF ProgressOf, Writing
      <4>2. CASE Cardinality(added) = 1
        <5> DEFINE new == added
        <5>1. r = CHOOSE a \in new : TRUE
          BY <1>6, <3>2, <4>2
        <5>2. Cardinality(new) = 1 /\ \A a \in new : a \in Todo(c)
          BY <4>1, <4>2
        <5> HIDE DEF r, new
        <5>3. new # {}
          BY <5>2, FS_EmptySet
        <5>4. r \in Todo(c)
          BY <5>1, <5>2, <5>3
        <5>5. DOMAIN old.todo = 1..Len(old.todo)
          BY <1>2 DEF ProgressOf
        <5> QED
          BY <5>4, <5>5 DEF Todo
      <4>3. CASE Cardinality(added) # 1
        <5>1. r = <<"dir">>
          BY <1>6, <3>2, <4>3
        <5>2. Len(r) = 2
          BY <2>3
        <5> HIDE DEF r
        <5>3. Len(r) = 1
          BY <5>1
        <5> QED
          BY <5>2, <5>3
      <4> QED
        BY <4>2, <4>3
    <3> QED
      BY <3>1, <3>2
  <2> HIDE DEF pc, r, t, old
  <2>4. t = [pc |-> pc, todo |-> old.todo, at |-> old.at, inode |-> old.inode,
             piece |-> old.piece, failures |-> old.failures, before |-> old.before,
             returned |-> r, alone |-> old.alone]
    BY <1>4 DEF IsSaving
  <2>5. /\ save'[c].pc = "done" /\ save'[c].todo = old.todo /\ save'[c].returned = r
        /\ save'[c].alone = old.alone
    BY <1>3, <2>1, <2>4
  <2>6. ReportedOf(c)'
    BY <1>1, <2>2, <2>3, <2>5 DEF ReportedOf, File
  <2>7. ReportOf(c)'
    BY <2>5, <2>6 DEF ReportOf, Active
  <2> QED
    BY <1>1, <1>3, <2>7, ReplacedReport
<1> QED
  BY <1>5, <1>6

LEMMA InitReportInv == Init => ReportInv
<1> SUFFICES ASSUME Init PROVE ReportInv
  OBVIOUS
<1>1. \A c \in Callers : save[c].pc = "none"
  BY DEF Init, NotSaving
<1>2. Shape
  BY InitSavingInv DEF SavingInv
<1> QED
  BY <1>1, <1>2 DEF ReportInv, ReportOf, Active

LEMMA StepReportInv ==
    SavingInv /\ SavingInv' /\ WalkInv /\ ReportInv /\ [Next]_vars => ReportInv'
<1> SUFFICES ASSUME SavingInv, SavingInv', WalkInv, ReportInv, [Next]_vars PROVE ReportInv'
  OBVIOUS
<1>1. CASE UNCHANGED vars
  <2>1. UNCHANGED <<save, dir, part, world>>
    BY <1>1 DEF vars, searchVars
  <2> QED
    BY <2>1, SameReports
<1>2. ASSUME NEW c \in Callers,
             \/ SearchStep(c) /\ UNCHANGED <<files, save>>
             \/ RejectDownload(c) \/ StartOne(c) \/ StartAll(c)
      PROVE  ReportInv'
  <2>1. save' = save /\ UNCHANGED <<files, world>>
    BY <1>2, Zenon DEF SearchStep, RejectSearch, StartSearch, LoadServer, ServerFails, EndWalk,
                ReturnSearch, RejectDownload, StartOne, StartAll
  <2>2. UNCHANGED <<save, dir, part, world>>
    BY <2>1 DEF files
  <2> QED
    BY <2>2, SameReports
<1> QED
  BY <1>1, <1>2, ChooseOneReport, ChooseAllReport, CreatePartReport, CreateCopyReport,
     WritePieceReport, RenameReport, EndCopyReport, SaveFailsReport, ReturnReport, KilledReport
     DEF Next

(* A Download that reports no error has put every row it chose in the       *)
(* directory, and one that had the directory to itself and reports a file   *)
(* reports one it saved.                                                    *)
THEOREM ReportAlwaysTrue == Spec => []ReportIsTrue
<1>1. ReportInv => ReportIsTrue
  BY DEF ReportInv, ReportOf, ReportedOf, ReportIsTrue
<1> QED
  BY <1>1, InitSavingInv, StepSavingInv, InitWalkInv, StepWalkInv, InitReportInv, StepReportInv,
     PTL DEF Spec
=============================================================================
