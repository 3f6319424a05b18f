-------------------------- MODULE PickNewestProofs --------------------------
(***************************************************************************)
(* OrderLaws, PessimisticIsInterval and PicksAgree of PickNewest, for      *)
(* versions of any length, any lists of candidates and any constraints.    *)
(***************************************************************************)
EXTENDS PickNewest, WellFoundedInduction, TLAPS

-----------------------------------------------------------------------------
(* Induction over numbers.  The induction theorems of the library take the *)
(* induction hypothesis as an operator, which the provers cannot           *)
(* instantiate; here it is the set of the numbers it holds for, and a loop *)
(* body is a function.                                                     *)

(* A set of numbers has a least one.                                      *)
LEMMA LeastNat ==
    ASSUME NEW Some \in SUBSET Nat, Some # {}
    PROVE  \E x \in Some : \A y \in Some : x <= y
<1>1. PICK x \in Some : \A y \in Some : ~ (<<y, x>> \in OpToRel(<, Nat))
  BY NatLessThanWellFounded, WFMin
<1>2. \A y \in Some : ~ (y < x)
  BY <1>1 DEF OpToRel
<1> QED
  BY <1>2

(* Induction up to a bound, over a set instead of a predicate.             *)
LEMMA Induction ==
    ASSUME NEW n \in Nat, NEW P, 0 \in P, \A k \in 1..n : k - 1 \in P => k \in P
    PROVE  \A k \in 0..n : k \in P
<1> DEFINE Some == {m \in 0..n : m \notin P}
<1> SUFFICES ASSUME Some # {} PROVE FALSE
  OBVIOUS
<1>1. PICK m \in Some : \A j \in Some : m <= j
  <2>1. Some \in SUBSET Nat
    OBVIOUS
  <2> HIDE DEF Some
  <2> QED
    BY <2>1, LeastNat
<1>2. m - 1 \in 0..n /\ m \in 1..n /\ m - 1 \notin Some
  BY <1>1
<1> QED
  BY <1>1, <1>2

(* The values of a loop variable after each round: it starts as a, and      *)
(* round k makes step[<<k, x>>] of x.                                       *)
Steps(n, D) == [(1..n) \X D -> D]

Iterates(m, D, a, step) ==
    {g \in [0..m -> D] : g[0] = a /\ \A k \in 1..m : g[k] = step[<<k, g[k - 1]>>]}

(* A loop of n rounds has such values, so a recursive function that names   *)
(* them is well defined.                                                    *)
LEMMA IterationExists ==
    ASSUME NEW n \in Nat, NEW D, NEW a \in D, NEW step \in Steps(n, D)
    PROVE  Iterates(n, D, a, step) # {}
<1> USE DEF Iterates, Steps
<1> DEFINE Runs(m) == Iterates(m, D, a, step)
           P == {m \in 0..n : Runs(m) # {}}
<1>1. 0 \in P
  <2> DEFINE z == [k \in {0} |-> a]
  <2>1. z \in [0..0 -> D] /\ z[0] = a /\ 1..0 = {}
    OBVIOUS
  <2>2. z \in Runs(0)
    BY <2>1
  <2> QED
    BY <2>2
<1>2. ASSUME NEW m \in 1..n, m - 1 \in P
      PROVE  m \in P
  <2>1. PICK g \in [0..(m-1) -> D] :
           g[0] = a /\ \A k \in 1..(m - 1) : g[k] = step[<<k, g[k - 1]>>]
    BY <1>2
  <2> DEFINE h == [k \in 0..m |-> IF k = m THEN step[<<m, g[m - 1]>>] ELSE g[k]]
  <2>2. g[m - 1] \in D
    BY <2>1
  <2>3. step[<<m, g[m - 1]>>] \in D
    BY <2>2
  <2>4. \A k \in 0..m : k # m => k \in 0..(m - 1)
    OBVIOUS
  <2>5. h \in [0..m -> D]
    BY <2>1, <2>3, <2>4
  <2>6. h[0] = a
    BY <2>1
  <2>7. ASSUME NEW k \in 1..m PROVE h[k] = step[<<k, h[k - 1]>>]
    <3>1. k - 1 \in 0..m /\ k - 1 # m /\ k \in 0..m
      OBVIOUS
    <3>2. h[k - 1] = g[k - 1]
      BY <3>1
    <3>3. CASE k = m
      BY <3>1, <3>2, <3>3
    <3>4. CASE k # m
      <4>1. k \in 1..(m - 1) /\ h[k] = g[k]
        BY <3>1, <3>4
      <4> QED
        BY <2>1, <3>2, <4>1
    <3> QED
      BY <3>3, <3>4
  <2> HIDE DEF h
  <2>8. h \in Runs(m)
    BY <2>5, <2>6, <2>7
  <2> QED
    BY <2>8
<1> HIDE DEF P
<1>3. n \in P
  BY <1>1, <1>2, Induction
<1> QED
  BY <1>3 DEF P

-----------------------------------------------------------------------------
(* The order of versions.                                                  *)

Comparable(v) ==
    v.comps \in Seq(Component) /\ v.hasRevision \in BOOLEAN /\ v.revision \in Nat

Position == Nat \ {0}

Tied(a, b) == \A i \in Position : At(a, i) = At(b, i)

FirstAt(a, b, i) ==
    /\ i \in Position
    /\ \A j \in Position : j < i => At(a, j) = At(b, j)
    /\ At(a, i) # At(b, i)

LEMMA AtType ==
    ASSUME NEW v, Comparable(v), NEW i \in Position
    PROVE  At(v, i) \in Component
BY DEF Comparable, At, Component, Zero

(* Two components are in one of the two orders, unless they are equal.     *)
LEMMA BelowTotal ==
    ASSUME NEW p \in Component, NEW q \in Component
    PROVE  /\ ~ (Below(p, q) /\ Below(q, p))
           /\ p # q => Below(p, q) \/ Below(q, p)
           /\ ~ Below(p, p)
<1>1. p = <<p[1], p[2]>> /\ q = <<q[1], q[2]>> /\ p[1] \in Int /\ p[2] \in Int
      /\ q[1] \in Int /\ q[2] \in Int
  BY DEF Component
<1>2. p # q => p[1] # q[1] \/ p[2] # q[2]
  BY <1>1
<1> QED
  BY <1>1, <1>2 DEF Below

LEMMA BelowTransitive ==
    ASSUME NEW p \in Component, NEW q \in Component, NEW r \in Component,
           Below(p, q), Below(q, r)
    PROVE  Below(p, r)
<1>1. p[1] \in Int /\ p[2] \in Int /\ q[1] \in Int /\ q[2] \in Int
      /\ r[1] \in Int /\ r[2] \in Int
  BY DEF Component
<1> QED
  BY <1>1 DEF Below

LEMMA SomeDiffers ==
    ASSUME NEW a, NEW b
    PROVE  Tied(a, b) \/ \E i \in Position : FirstAt(a, b, i)
<1> SUFFICES ASSUME ~ Tied(a, b)
             PROVE  \E i \in Position : FirstAt(a, b, i)
  OBVIOUS
<1> DEFINE D == {i \in Position : At(a, i) # At(b, i)}
<1>1. D \in SUBSET Nat /\ D # {}
  BY DEF Tied, Position
<1>2. PICK i \in D : \A j \in D : i <= j
  <2> HIDE DEF D
  <2> QED
    BY <1>1, LeastNat
<1>3. \A j \in Position : j < i => At(a, j) = At(b, j)
  BY <1>2 DEF Position
<1> QED
  BY <1>2, <1>3 DEF FirstAt

LEMMA SymmetricFacts ==
    ASSUME NEW a, NEW b
    PROVE  /\ Tied(a, b) => Tied(b, a)
           /\ \A i \in Position : FirstAt(a, b, i) => FirstAt(b, a, i)
BY DEF Tied, FirstAt

(* Compare, where the first difference is.                                 *)
LEMMA CompareAt ==
    ASSUME NEW a, NEW b, Comparable(a), Comparable(b), NEW i, FirstAt(a, b, i)
    PROVE  Compare(a, b) = IF Below(At(a, i), At(b, i)) THEN -1 ELSE 1
<1> DEFINE differ == {j \in DOMAIN a.comps \cup DOMAIN b.comps : At(a, j) # At(b, j)}
           first == CHOOSE j \in differ : \A k \in differ : j <= k
<1>1. /\ DOMAIN a.comps \subseteq Position /\ DOMAIN b.comps \subseteq Position
      /\ i \in Position
  BY DEF Comparable, Position, FirstAt
<1>2. i \in differ
  BY <1>1 DEF FirstAt, At
<1>3. \A j \in differ : j \in Position /\ i <= j
  BY <1>1 DEF FirstAt, Position
<1>4. first \in differ /\ \A k \in differ : first <= k
  <2> HIDE DEF differ
  <2> QED
    BY <1>2, <1>3
<1>5. first = i
  <2> HIDE DEF first, differ
  <2> QED
    BY <1>1, <1>2, <1>3, <1>4 DEF Position
<1>6. differ # {}
  BY <1>2
<1>7. Compare(a, b) = IF Below(At(a, first), At(b, first)) THEN -1 ELSE 1
  BY <1>6 DEF Compare
<1> QED
  BY <1>5, <1>7

(* Compare, where there is none.                                           *)
LEMMA CompareTied ==
    ASSUME NEW a, NEW b, Comparable(a), Comparable(b), Tied(a, b)
    PROVE  Compare(a, b) = IF BothRevised(a, b) /\ a.revision # b.revision
                           THEN IF a.revision < b.revision THEN -1 ELSE 1
                           ELSE 0
<1> DEFINE differ == {j \in DOMAIN a.comps \cup DOMAIN b.comps : At(a, j) # At(b, j)}
<1>1. DOMAIN a.comps \subseteq Position /\ DOMAIN b.comps \subseteq Position
  BY DEF Comparable, Position
<1>2. differ = {}
  BY <1>1 DEF Tied
<1> QED
  BY <1>2 DEF Compare

LEMMA CompareAntisymmetric ==
    ASSUME NEW a, NEW b, Comparable(a), Comparable(b)
    PROVE  Compare(a, b) = - Compare(b, a) /\ Compare(a, b) \in {-1, 0, 1}
<1>1. CASE Tied(a, b)
  <2>1. Tied(b, a)
    BY <1>1, SymmetricFacts
  <2>2. a.revision \in Nat /\ b.revision \in Nat
    BY DEF Comparable
  <2> QED
    BY <1>1, <2>1, <2>2, CompareTied DEF BothRevised
<1>2. CASE \E i \in Position : FirstAt(a, b, i)
  <2>1. PICK i \in Position : FirstAt(a, b, i)
    BY <1>2
  <2>2. FirstAt(b, a, i) /\ At(a, i) # At(b, i)
    BY <2>1, SymmetricFacts DEF FirstAt
  <2>3. At(a, i) \in Component /\ At(b, i) \in Component
    BY AtType
  <2>4. Below(At(a, i), At(b, i)) <=> ~ Below(At(b, i), At(a, i))
    BY <2>2, <2>3, BelowTotal
  <2>5. Compare(a, b) = IF Below(At(a, i), At(b, i)) THEN -1 ELSE 1
    BY <2>1, CompareAt
  <2>6. Compare(b, a) = IF Below(At(b, i), At(a, i)) THEN -1 ELSE 1
    BY <2>2, CompareAt
  <2> QED
    BY <2>4, <2>5, <2>6
<1> QED
  BY <1>1, <1>2, SomeDiffers

(* If the first difference of a and b is no later than that of b and c, it *)
(* is that of a and c.                                                     *)
LEMMA CompareTransitive ==
    ASSUME NEW a, NEW b, NEW c, Comparable(a), Comparable(b), Comparable(c),
           a.hasRevision = b.hasRevision, b.hasRevision = c.hasRevision,
           Compare(a, b) >= 0, Compare(b, c) >= 0
    PROVE  /\ Compare(a, c) >= 0
           /\ Compare(a, b) > 0 \/ Compare(b, c) > 0 => Compare(a, c) > 0
<1>1. a.revision \in Nat /\ b.revision \in Nat /\ c.revision \in Nat
  BY DEF Comparable
<1>2. \A i \in Position : At(a, i) \in Component /\ At(b, i) \in Component /\ At(c, i) \in Component
  BY AtType
<1>3. CASE Tied(a, b) /\ Tied(b, c)
  <2>1. Tied(a, c)
    BY <1>3 DEF Tied
  <2> QED
    BY <1>1, <1>3, <2>1, CompareTied DEF BothRevised
<1>4. CASE Tied(a, b) /\ \E i \in Position : FirstAt(b, c, i)
  <2>1. PICK i \in Position : FirstAt(b, c, i)
    BY <1>4
  <2>2. FirstAt(a, c, i) /\ At(a, i) = At(b, i)
    BY <1>4, <2>1 DEF FirstAt, Tied
  <2> QED
    BY <2>1, <2>2, CompareAt
<1>5. CASE (\E i \in Position : FirstAt(a, b, i)) /\ Tied(b, c)
  <2>1. PICK i \in Position : FirstAt(a, b, i)
    BY <1>5
  <2>2. FirstAt(a, c, i) /\ At(c, i) = At(b, i)
    BY <1>5, <2>1 DEF FirstAt, Tied
  <2> QED
    BY <2>1, <2>2, CompareAt
<1>6. ASSUME NEW i \in Position, FirstAt(a, b, i), NEW j \in Position, FirstAt(b, c, j)
      PROVE  Compare(a, c) > 0
  <2>1. Compare(a, b) # -1 /\ Compare(b, c) # -1
    BY CompareAntisymmetric
  <2>2. ~ Below(At(a, i), At(b, i)) /\ ~ Below(At(b, j), At(c, j))
    BY <1>6, <2>1, CompareAt
  <2>3. Below(At(b, i), At(a, i)) /\ Below(At(c, j), At(b, j))
    BY <1>2, <1>6, <2>2, BelowTotal DEF FirstAt
  <2>4. ASSUME NEW k \in Position, FirstAt(a, c, k), Below(At(c, k), At(a, k))
        PROVE  Compare(a, c) > 0
    <3>1. ~ Below(At(a, k), At(c, k))
      BY <1>2, <2>4, BelowTotal
    <3> QED
      BY <2>4, <3>1, CompareAt
  <2>5. i \in Nat /\ j \in Nat
    BY DEF Position
  <2>6. CASE i < j
    <3>1. At(c, i) = At(b, i) /\ \A k \in Position : k < i => At(a, k) = At(c, k)
      BY <1>6, <2>5, <2>6 DEF FirstAt, Position
    <3>2. FirstAt(a, c, i)
      BY <1>6, <3>1 DEF FirstAt
    <3> QED
      BY <2>3, <2>4, <3>1, <3>2
  <2>7. CASE j < i
    <3>1. At(a, j) = At(b, j) /\ \A k \in Position : k < j => At(a, k) = At(c, k)
      BY <1>6, <2>5, <2>7 DEF FirstAt, Position
    <3>2. FirstAt(a, c, j)
      BY <1>6, <3>1 DEF FirstAt
    <3> QED
      BY <2>3, <2>4, <3>1, <3>2
  <2>8. CASE i = j
    <3>1. Below(At(c, i), At(a, i))
      BY <1>2, <2>3, <2>8, BelowTransitive
    <3>2. At(a, i) # At(c, i)
      BY <1>2, <3>1, BelowTotal
    <3>3. FirstAt(a, c, i)
      BY <1>6, <2>8, <3>2 DEF FirstAt
    <3> QED
      BY <2>4, <3>1, <3>3
  <2> QED
    BY <2>5, <2>6, <2>7, <2>8
<1>7. Compare(a, c) \in {-1, 0, 1}
  BY CompareAntisymmetric
<1>8. CASE \E i, j \in Position : FirstAt(a, b, i) /\ FirstAt(b, c, j)
  BY <1>6, <1>7, <1>8
<1> QED
  BY <1>3, <1>4, <1>5, <1>8, SomeDiffers

-----------------------------------------------------------------------------
(* What ParseVersion makes of tokens.                                      *)

(* The slot in hand is the last one there is, or the one after it.         *)
State ==
    {st \in [comps : Seq(Component), slot : Position] :
        st.slot = Len(st.comps) \/ st.slot = Len(st.comps) + 1}

Start == [comps |-> <<>>, slot |-> 1]

LEMMA DeltaType ==
    ASSUME NEW w \in Keywords \cup DOMAIN WordDelta
    PROVE  Delta(w) \in Component
BY WordAssumption DEF Delta, KeywordDelta, Keywords, Component

(* A round of the loop: it writes the slot in hand and no other.           *)
LEMMA TakeState ==
    ASSUME NEW st \in State, NEW tok \in Token
    PROVE  LET new == Take(st, tok)
               n   == Len(st.comps)
           IN /\ new \in State
              /\ Len(new.comps) = IF st.slot <= n THEN n ELSE n + 1
              /\ new.slot = IF tok.kind = "word" THEN st.slot ELSE st.slot + 1
              /\ \A i \in 1..n : i # st.slot => new.comps[i] = st.comps[i]
              /\ tok.kind = "word" => new.comps[st.slot] = Delta(tok.value)
              /\ tok.kind = "number" /\ st.slot <= n =>
                    new.comps[st.slot] = <<st.comps[st.slot][1], st.comps[st.slot][2] + tok.value>>
<1> DEFINE open == st.slot <= Len(st.comps)
           value == IF tok.kind = "word" THEN Delta(tok.value)
                    ELSE IF open THEN <<st.comps[st.slot][1], st.comps[st.slot][2] + tok.value>>
                    ELSE <<tok.value, 0>>
           comps == IF open THEN [st.comps EXCEPT ![st.slot] = value]
                            ELSE Append(st.comps, value)
           slot == IF tok.kind = "word" THEN st.slot ELSE st.slot + 1
<1>1. /\ st.comps \in Seq(Component) /\ st.slot \in Position /\ Len(st.comps) \in Nat
      /\ st.slot = Len(st.comps) \/ st.slot = Len(st.comps) + 1
      /\ DOMAIN st.comps = 1..Len(st.comps)
  BY DEF State
<1>2. Take(st, tok) = [comps |-> comps, slot |-> slot]
  BY DEF Take
<1>3. /\ tok.kind \in {"word", "number"}
      /\ tok.kind = "word" => tok.value \in Keywords \cup DOMAIN WordDelta
      /\ tok.kind = "number" => tok.value \in Nat
  BY DEF Token
<1>4. value \in Component
  <2>1. CASE tok.kind = "word"
    BY <1>3, <2>1, DeltaType
  <2>2. CASE tok.kind = "number" /\ open
    <3>1. st.slot \in 1..Len(st.comps)
      BY <1>1, <2>2 DEF Position
    <3>2. st.comps[st.slot] \in Component
      BY <1>1, <3>1
    <3> QED
      BY <1>3, <2>2, <3>2 DEF Component
  <2>3. CASE tok.kind = "number" /\ ~ open
    BY <1>3, <2>3 DEF Component
  <2> QED
    BY <1>3, <2>1, <2>2, <2>3
<1>5. /\ tok.kind = "word" => value = Delta(tok.value)
      /\ tok.kind = "number" /\ open =>
            value = <<st.comps[st.slot][1], st.comps[st.slot][2] + tok.value>>
  BY <1>3
<1> HIDE DEF value
<1>6. CASE open
  <2>1. st.slot \in 1..Len(st.comps) /\ st.slot = Len(st.comps)
    BY <1>1, <1>6 DEF Position
  <2>2. /\ comps \in Seq(Component) /\ Len(comps) = Len(st.comps)
        /\ comps[st.slot] = value
        /\ \A i \in 1..Len(st.comps) : i # st.slot => comps[i] = st.comps[i]
    BY <1>1, <1>4, <1>6, <2>1
  <2>3. slot \in Position /\ (slot = Len(comps) \/ slot = Len(comps) + 1)
    BY <1>1, <2>1, <2>2 DEF Position
  <2> HIDE DEF comps, slot
  <2>4. [comps |-> comps, slot |-> slot] \in State
    BY <2>2, <2>3 DEF State
  <2> QED
    BY <1>2, <1>5, <1>6, <2>2, <2>4 DEF slot
<1>7. CASE ~ open
  <2>1. st.slot = Len(st.comps) + 1
    BY <1>1, <1>7 DEF Position
  <2>2. /\ comps \in Seq(Component) /\ Len(comps) = Len(st.comps) + 1
        /\ comps[st.slot] = value
        /\ \A i \in 1..Len(st.comps) : comps[i] = st.comps[i]
    BY <1>1, <1>4, <1>7, <2>1
  <2>3. slot \in Position /\ (slot = Len(comps) \/ slot = Len(comps) + 1)
    BY <1>1, <2>1, <2>2 DEF Position
  <2> HIDE DEF comps, slot
  <2>4. [comps |-> comps, slot |-> slot] \in State
    BY <2>2, <2>3 DEF State
  <2> QED
    BY <1>2, <1>5, <1>7, <2>2, <2>4 DEF slot
<1> QED
  BY <1>6, <1>7

(* The rounds of the loop.                                                 *)
LEMMA ParsingRounds ==
    ASSUME NEW toks \in Seq(Token)
    PROVE  \E g \in [0..Len(toks) -> State] :
              /\ g[0] = Start
              /\ \A k \in 1..Len(toks) : g[k] = Take(g[k - 1], toks[k])
              /\ Parsing(toks) = g[Len(toks)]
<1> DEFINE n == Len(toks)
           step == [ks \in (1..n) \X State |-> Take(ks[2], toks[ks[1]])]
           parse == CHOOSE g : g = [k \in 0..Len(toks) |->
                        IF k = 0 THEN [comps |-> <<>>, slot |-> 1] ELSE Take(g[k - 1], toks[k])]
<1>1. Parsing(toks) = parse[n]
  BY DEF Parsing
<1>2. n \in Nat /\ \A k \in 1..n : toks[k] \in Token
  OBVIOUS
<1>3. \A k \in 1..n : \A st \in State : step[<<k, st>>] = Take(st, toks[k]) /\ step[<<k, st>>] \in State
  <2> SUFFICES ASSUME NEW k \in 1..n, NEW st \in State
               PROVE  step[<<k, st>>] = Take(st, toks[k]) /\ step[<<k, st>>] \in State
    OBVIOUS
  <2>1. Take(st, toks[k]) \in State
    BY <1>2, TakeState
  <2> QED
    BY <2>1
<1>4. step \in Steps(n, State)
  BY <1>3 DEF Steps
<1>5. Start \in State
  BY DEF Start, State, Position
<1> HIDE DEF n, step
<1>6. PICK g \in [0..n -> State] :
         g[0] = Start /\ \A k \in 1..n : g[k] = step[<<k, g[k - 1]>>]
  <2>1. Iterates(n, State, Start, step) # {}
    BY <1>2, <1>4, <1>5, IterationExists
  <2> QED
    BY <2>1 DEF Iterates
<1>7. \A k \in 1..n : g[k] = Take(g[k - 1], toks[k])
  <2>1. \A k \in 1..n : k - 1 \in 0..n
    BY <1>2
  <2> QED
    BY <1>3, <1>6, <2>1
<1>8. \A k \in 0..n : k # 0 => k \in 1..n
  BY <1>2
<1>9. g = [k \in 0..n |-> IF k = 0 THEN [comps |-> <<>>, slot |-> 1] ELSE Take(g[k - 1], toks[k])]
  BY <1>6, <1>7, <1>8 DEF Start
<1>10. parse = [k \in 0..n |->
                 IF k = 0 THEN [comps |-> <<>>, slot |-> 1] ELSE Take(parse[k - 1], toks[k])]
  BY <1>9 DEF n
<1> HIDE DEF parse
<1>11. \A k \in 0..n : k \in {j \in 0..n : parse[j] = g[j]}
  <2> DEFINE P == {j \in 0..n : parse[j] = g[j]}
  <2>1. 0 \in P
    <3>1. 0 \in 0..n
      BY <1>2
    <3> QED
      BY <1>6, <1>10, <3>1 DEF Start
  <2>2. ASSUME NEW k \in 1..n, k - 1 \in P
        PROVE  k \in P
    <3>1. k \in 0..n /\ k # 0 /\ parse[k - 1] = g[k - 1]
      BY <1>2, <2>2
    <3> QED
      BY <1>7, <1>10, <3>1
  <2> HIDE DEF P
  <2>3. \A k \in 0..n : k \in P
    BY <1>2, <2>1, <2>2, Induction
  <2> QED
    BY <2>3 DEF P
<1>12. parse[n] = g[n]
  BY <1>2, <1>11
<1> QED
  BY <1>1, <1>6, <1>7, <1>12 DEF n

(* One more token is one more round.                                       *)
LEMMA ParsingAppend ==
    ASSUME NEW toks \in Seq(Token), NEW tok \in Token
    PROVE  /\ Parsing(toks) \in State
           /\ Parsing(Append(toks, tok)) = Take(Parsing(toks), tok)
<1> DEFINE n == Len(toks)
           more == Append(toks, tok)
<1>1. n \in Nat /\ more \in Seq(Token) /\ Len(more) = n + 1 /\ more[n + 1] = tok
      /\ \A k \in 1..n : more[k] = toks[k]
  OBVIOUS
<1>2. PICK g \in [0..n -> State] :
         /\ g[0] = Start
         /\ \A k \in 1..n : g[k] = Take(g[k - 1], toks[k])
         /\ Parsing(toks) = g[n]
  BY ParsingRounds
<1>3. PICK h \in [0..(n + 1) -> State] :
         /\ h[0] = Start
         /\ \A k \in 1..(n + 1) : h[k] = Take(h[k - 1], more[k])
         /\ Parsing(more) = h[n + 1]
  <2> HIDE DEF more
  <2> QED
    BY <1>1, ParsingRounds
<1> HIDE DEF more, n
<1>4. \A k \in 0..n : k \in {j \in 0..n : h[j] = g[j]}
  <2> DEFINE P == {j \in 0..n : h[j] = g[j]}
  <2>1. 0 \in P
    BY <1>1, <1>2, <1>3
  <2>2. ASSUME NEW k \in 1..n, k - 1 \in P
        PROVE  k \in P
    <3>1. k \in 0..n /\ k \in 1..(n + 1) /\ h[k - 1] = g[k - 1]
      BY <1>1, <2>2
    <3>2. h[k] = Take(h[k - 1], toks[k]) /\ g[k] = Take(g[k - 1], toks[k])
      BY <1>1, <1>2, <1>3, <3>1
    <3> QED
      BY <3>1, <3>2
  <2> HIDE DEF P
  <2>3. \A k \in 0..n : k \in P
    BY <1>1, <2>1, <2>2, Induction
  <2> QED
    BY <2>3 DEF P
<1>5. h[n] = g[n] /\ n \in 0..n /\ n + 1 \in 1..(n + 1) /\ (n + 1) - 1 = n
  BY <1>1, <1>4
<1>6. h[n + 1] = Take(h[n], tok)
  BY <1>1, <1>3, <1>5
<1> QED
  BY <1>2, <1>3, <1>5, <1>6 DEF more

(* A version's components are those of the last round.                     *)
LEMMA VersionAt ==
    ASSUME NEW v, IsVersion(v)
    PROVE  /\ Comparable(v)
           /\ Len(v.comps) \in Position
           /\ \A i \in Position :
                 LET comps == Parsing(v.raw).comps
                 IN At(v, i) = IF i \in 1..Len(comps) THEN comps[i] ELSE Zero
<1>1. v.raw \in Seq(Token) /\ v.revision \in Nat /\ v.hasRevision \in BOOLEAN
  BY DEF IsVersion
<1>2. v.comps = IF v.raw = <<>> THEN <<Zero>> ELSE Parsing(v.raw).comps
  <2> DEFINE rev == IF v.hasRevision THEN v.revision ELSE NoRevision
  <2>1. v = ParseVersion(v.raw, rev)
    BY DEF IsVersion
  <2> HIDE DEF rev
  <2>2. ParseVersion(v.raw, rev).comps = IF v.raw = <<>> THEN <<Zero>> ELSE Parsing(v.raw).comps
    BY DEF ParseVersion, Parsed
  <2> QED
    BY <2>1, <2>2
<1>3. PICK g \in [0..Len(v.raw) -> State] :
         /\ g[0] = Start
         /\ \A k \in 1..Len(v.raw) : g[k] = Take(g[k - 1], v.raw[k])
         /\ Parsing(v.raw) = g[Len(v.raw)]
  BY <1>1, ParsingRounds
<1>4. Parsing(v.raw) \in State
  BY <1>1, <1>3
<1>5. Zero \in Component
  BY DEF Zero, Component
<1>6. CASE v.raw = <<>>
  <2>1. Parsing(v.raw) = Start /\ v.comps = <<Zero>>
    BY <1>2, <1>3, <1>6
  <2>2. v.comps \in Seq(Component) /\ Len(v.comps) = 1 /\ DOMAIN v.comps = {1} /\ v.comps[1] = Zero
    BY <1>5, <2>1
  <2>3. \A i \in Position : At(v, i) = Zero
    BY <2>2 DEF At
  <2>4. Len(Parsing(v.raw).comps) = 0
    BY <2>1 DEF Start
  <2> QED
    BY <1>1, <2>2, <2>3, <2>4 DEF Comparable, Position
<1>7. CASE v.raw # <<>>
  <2>1. v.comps = Parsing(v.raw).comps /\ v.comps \in Seq(Component)
    BY <1>2, <1>4, <1>7 DEF State
  <2> DEFINE n == Len(v.raw)
  <2>2. n \in Nat /\ n # 0 /\ v.raw[n] \in Token /\ n \in 1..n /\ n - 1 \in 0..n
    BY <1>1, <1>7
  <2>3. g[n] = Take(g[n - 1], v.raw[n]) /\ g[n - 1] \in State
    BY <1>3, <2>2
  <2>4. Len(g[n].comps) \in Position
    <3> HIDE DEF n
    <3>1. /\ Len(g[n - 1].comps) \in Nat /\ g[n - 1].slot \in Position
          /\ g[n - 1].slot = Len(g[n - 1].comps) \/ g[n - 1].slot = Len(g[n - 1].comps) + 1
      BY <2>3 DEF State
    <3>2. Len(g[n].comps) = IF g[n - 1].slot <= Len(g[n - 1].comps)
                            THEN Len(g[n - 1].comps) ELSE Len(g[n - 1].comps) + 1
      BY <2>2, <2>3, TakeState
    <3> QED
      BY <3>1, <3>2 DEF Position
  <2>5. DOMAIN v.comps = 1..Len(v.comps)
    BY <2>1
  <2> QED
    BY <1>1, <1>3, <2>1, <2>4, <2>5 DEF Comparable, At
<1> QED
  BY <1>6, <1>7

(* A pre-release has the components of its release before the slot its     *)
(* word goes to; there, the word's delta and the number.                   *)
LEMMA PreReleaseAt ==
    ASSUME NEW a, NEW b, IsVersion(a), IsVersion(b), NEW w \in {"alpha", "rc"}, NEW n \in Nat,
           PreRelease(a, b, w, n)
    PROVE  LET s == Parsing(b.raw).slot
           IN /\ s \in Position
              /\ \A i \in Position : i < s => At(a, i) = At(b, i)
              /\ At(a, s) = <<KeywordDelta(w)[1], n>>
<1> DEFINE st == Parsing(b.raw)
           one == Take(st, Word(w))
           two == Take(one, Number(n))
           s == st.slot
<1>1. b.raw \in Seq(Token) /\ Word(w) \in Token /\ Number(n) \in Token
  BY DEF IsVersion, Word, Number, Token, Keywords
<1>2. a.raw = Append(Append(b.raw, Word(w)), Number(n))
  <2> DEFINE p == Word(w)
             q == Number(n)
  <2>1. a.raw = b.raw \o <<p, q>> /\ p \in Token /\ q \in Token
    BY <1>1 DEF PreRelease
  <2> HIDE DEF p, q
  <2>2. b.raw \o <<p, q>> = Append(Append(b.raw, p), q)
    BY <1>1, <2>1
  <2> QED
    BY <2>1, <2>2 DEF p, q
<1>3. Append(b.raw, Word(w)) \in Seq(Token)
  BY <1>1
<1>4. Parsing(a.raw) = two /\ st \in State
  <2>1. st \in State /\ Parsing(Append(b.raw, Word(w))) = one
    BY <1>1, ParsingAppend
  <2>2. Parsing(a.raw) = Take(Parsing(Append(b.raw, Word(w))), Number(n))
    BY <1>1, <1>2, <1>3, ParsingAppend
  <2> QED
    BY <2>1, <2>2
<1>5. /\ s \in Position /\ Len(st.comps) \in Nat
      /\ s = Len(st.comps) \/ s = Len(st.comps) + 1
  BY <1>4 DEF State
<1>6. Word(w).kind = "word" /\ Word(w).value = w /\ Number(n).kind = "number" /\ Number(n).value = n
  BY DEF Word, Number
<1> HIDE DEF st
<1>7. /\ one \in State /\ one.slot = s /\ Len(one.comps) = s
      /\ \A i \in 1..Len(st.comps) : i # s => one.comps[i] = st.comps[i]
      /\ one.comps[s] = Delta(w)
  <2>1. /\ one \in State
        /\ Len(one.comps) = IF st.slot <= Len(st.comps) THEN Len(st.comps) ELSE Len(st.comps) + 1
        /\ one.slot = st.slot
        /\ \A i \in 1..Len(st.comps) : i # st.slot => one.comps[i] = st.comps[i]
        /\ one.comps[st.slot] = Delta(w)
    BY <1>1, <1>4, <1>6, TakeState
  <2> QED
    BY <1>5, <2>1 DEF Position
<1> HIDE DEF one
<1>8. /\ Len(two.comps) = s
      /\ \A i \in 1..s : i # s => two.comps[i] = one.comps[i]
      /\ two.comps[s] = <<Delta(w)[1], Delta(w)[2] + n>>
  <2> DEFINE tok == Number(n)
  <2>1. tok \in Token /\ tok.kind = "number" /\ tok.value = n /\ two = Take(one, tok)
    BY <1>1, <1>6
  <2> HIDE DEF tok, two
  <2>2. /\ Len(two.comps) = IF one.slot <= Len(one.comps) THEN Len(one.comps) ELSE Len(one.comps) + 1
        /\ \A i \in 1..Len(one.comps) : i # one.slot => two.comps[i] = one.comps[i]
        /\ one.slot <= Len(one.comps) =>
              two.comps[one.slot] = <<one.comps[one.slot][1], one.comps[one.slot][2] + n>>
    BY <1>7, <2>1, TakeState
  <2> QED
    BY <1>5, <1>7, <2>2 DEF Position
<1> HIDE DEF two
<1>9. Delta(w) = KeywordDelta(w) /\ KeywordDelta(w)[2] = 0
  BY DEF Delta, KeywordDelta, Keywords
<1>10. At(a, s) = <<KeywordDelta(w)[1], n>>
  <2>1. s \in 1..Len(two.comps)
    BY <1>5, <1>8 DEF Position
  <2>2. At(a, s) = two.comps[s]
    BY <1>4, <1>5, <2>1, VersionAt
  <2> QED
    BY <1>8, <1>9, <2>2
<1>11. ASSUME NEW i \in Position, i < s PROVE At(a, i) = At(b, i)
  <2>1. i \in 1..Len(two.comps) /\ i \in 1..Len(st.comps) /\ i # s /\ i \in 1..s
    BY <1>5, <1>8, <1>11 DEF Position
  <2>2. At(a, i) = two.comps[i]
    BY <1>4, <2>1, VersionAt
  <2>3. At(b, i) = st.comps[i]
    BY <2>1, VersionAt DEF st
  <2> QED
    BY <1>7, <1>8, <2>1, <2>2, <2>3
<1> QED
  BY <1>5, <1>10, <1>11 DEF st

LEMMA PreReleaseBelow ==
    ASSUME NEW a, NEW b, IsVersion(a), IsVersion(b), NEW w \in {"alpha", "rc"}, NEW n \in Nat,
           PreRelease(a, b, w, n), Plain(b)
    PROVE  Compare(a, b) = -1
<1> DEFINE s == Parsing(b.raw).slot
<1>1. /\ s \in Position /\ At(a, s) = <<KeywordDelta(w)[1], n>>
      /\ \A i \in Position : i < s => At(a, i) = At(b, i)
  BY PreReleaseAt
<1> HIDE DEF s
<1>2. Comparable(a) /\ Comparable(b)
  BY VersionAt
<1>3. At(b, s)[1] \in Int /\ At(b, s)[1] >= 0
  <2>1. At(b, s) \in Component
    BY <1>1, <1>2, AtType
  <2> QED
    BY <2>1 DEF Component, Plain, At, Zero
<1>4. KeywordDelta(w)[1] \in Int /\ KeywordDelta(w)[1] < 0
  BY DEF KeywordDelta
<1>5. Below(At(a, s), At(b, s)) /\ At(a, s) # At(b, s)
  BY <1>1, <1>3, <1>4 DEF Below
<1>6. FirstAt(a, b, s)
  BY <1>1, <1>5 DEF FirstAt
<1> QED
  BY <1>2, <1>5, <1>6, CompareAt

LEMMA PreReleasesInOrder ==
    ASSUME NEW a, NEW b, NEW c, IsVersion(a), IsVersion(b), IsVersion(c),
           NEW w \in {"alpha", "rc"}, NEW n \in Nat,
           PreRelease(a, b, w, n), PreRelease(c, b, w, n + 1)
    PROVE  Compare(a, c) = -1
<1> DEFINE s == Parsing(b.raw).slot
<1>1. /\ s \in Position /\ At(a, s) = <<KeywordDelta(w)[1], n>>
      /\ \A i \in Position : i < s => At(a, i) = At(b, i)
  BY PreReleaseAt
<1>2. /\ At(c, s) = <<KeywordDelta(w)[1], n + 1>>
      /\ \A i \in Position : i < s => At(c, i) = At(b, i)
  <2>1. n + 1 \in Nat
    OBVIOUS
  <2> QED
    BY <2>1, PreReleaseAt
<1> HIDE DEF s
<1>3. Below(At(a, s), At(c, s)) /\ At(a, s) # At(c, s)
  BY <1>1, <1>2 DEF Below
<1>4. FirstAt(a, c, s)
  BY <1>1, <1>2, <1>3 DEF FirstAt
<1> QED
  BY <1>3, <1>4, CompareAt, VersionAt

(* Versions with the same components tie.                                  *)
LEMMA EqualTies ==
    ASSUME NEW a, NEW b, IsVersion(a), IsVersion(b), Equal(a, b)
    PROVE  Compare(a, b) = 0
<1>1. Tied(a, b)
  BY DEF Tied, At, Equal
<1>2. BothRevised(a, b) => a.revision = b.revision
  BY DEF Equal
<1> QED
  BY <1>1, <1>2, CompareTied, VersionAt

-----------------------------------------------------------------------------
(* The pessimistic operator.                                               *)

(* A version of numbers is at least one that it begins with.               *)
LEMMA AtLeastItsPrefix ==
    ASSUME NEW v, NEW r, Comparable(v), Comparable(r), Plain(v), ~ r.hasRevision,
           NEW n \in Position,
           \A i \in Position : IF i <= n THEN At(v, i) = At(r, i) ELSE At(r, i) = Zero
    PROVE  Compare(v, r) >= 0
<1>1. CASE Tied(v, r)
  BY <1>1, CompareTied DEF BothRevised
<1>2. ASSUME NEW i \in Position, FirstAt(v, r, i)
      PROVE  Compare(v, r) >= 0
  <2>1. At(v, i) \in Component /\ At(r, i) = Zero
    BY <1>2, AtType DEF FirstAt
  <2>2. At(v, i)[1] >= 0 /\ At(v, i)[2] = 0
    BY DEF Plain, At, Zero
  <2>3. ~ Below(At(v, i), At(r, i))
    BY <2>1, <2>2 DEF Below, Zero, Component
  <2> QED
    BY <1>2, <2>3, CompareAt
<1> QED
  BY <1>1, <1>2, SomeDiffers

LEMMA BumpedAt ==
    ASSUME NEW r, IsVersion(r)
    PROVE  LET n == Len(r.comps)
           IN /\ Comparable(Bumped(r))
              /\ Bumped(r).hasRevision = r.hasRevision
              /\ \A i \in Position : At(Bumped(r), i) =
                    IF i = n THEN <<At(r, n)[1] + 1, At(r, n)[2]>> ELSE At(r, i)
<1> DEFINE n == Len(r.comps)
           up == <<r.comps[n][1] + 1, r.comps[n][2]>>
           comps == [r.comps EXCEPT ![n] = up]
           rev == IF r.hasRevision THEN r.revision ELSE NoRevision
<1>1. Comparable(r) /\ n \in Position
  BY VersionAt
<1>2. r.comps \in Seq(Component) /\ n \in 1..n /\ r.comps[n] \in Component
  BY <1>1 DEF Comparable, Position
<1>3. up \in Component
  BY <1>2 DEF Component
<1>4. [r.comps[n] EXCEPT ![1] = @ + 1] = up
  <2>1. \A c \in Component : [c EXCEPT ![1] = @ + 1] = <<c[1] + 1, c[2]>>
    BY SMTT(20) DEF Component
  <2> QED
    BY <1>2, <2>1
<1>5. Bumped(r) = [r EXCEPT !.comps = comps]
  <2>1. Bumped(r) = [r EXCEPT !.comps = [r.comps EXCEPT ![n] = [r.comps[n] EXCEPT ![1] = @ + 1]]]
    BY DEF Bumped
  <2> QED
    BY <1>4, <2>1
<1>6. r = [raw |-> r.raw, comps |-> r.comps, hasRevision |-> r.hasRevision, revision |-> r.revision]
  <2>1. r = ParseVersion(r.raw, rev)
    BY DEF IsVersion
  <2> HIDE DEF rev
  <2> QED
    BY <2>1 DEF ParseVersion
<1> HIDE DEF comps
<1>7. Bumped(r) = [raw |-> r.raw, comps |-> comps, hasRevision |-> r.hasRevision,
                   revision |-> r.revision]
  BY <1>5, <1>6
<1>8. /\ comps \in Seq(Component) /\ Len(comps) = n /\ comps[n] = up
      /\ DOMAIN comps = 1..n /\ DOMAIN r.comps = 1..n
      /\ \A i \in 1..n : i # n => comps[i] = r.comps[i]
  BY <1>2, <1>3 DEF comps
<1>9. Comparable(Bumped(r)) /\ Bumped(r).hasRevision = r.hasRevision /\ Bumped(r).comps = comps
  BY <1>1, <1>7, <1>8 DEF Comparable
<1>10. At(r, n) = r.comps[n] /\ At(Bumped(r), n) = up
  BY <1>2, <1>8, <1>9 DEF At
<1>11. \A i \in Position : i # n => At(Bumped(r), i) = At(r, i)
  BY <1>8, <1>9 DEF At
<1> QED
  BY <1>9, <1>10, <1>11

LEMMA PessimisticInterval ==
    ASSUME NEW v, NEW r, IsVersion(v), IsVersion(r), Plain(v), Plain(r), ~ r.hasRevision
    PROVE  PartialMatch(v, r) <=> Compare(v, r) >= 0 /\ Compare(v, Bumped(r)) < 0
<1> DEFINE n == Len(r.comps)
           b == Bumped(r)
<1>1. Comparable(v) /\ Comparable(r) /\ n \in Position
  BY VersionAt
<1>2. /\ Comparable(b) /\ ~ b.hasRevision
      /\ \A i \in Position : At(b, i) =
                    IF i = n THEN <<At(r, n)[1] + 1, At(r, n)[2]>> ELSE At(r, i)
  BY BumpedAt
<1> HIDE DEF b
<1>3. DOMAIN r.comps = 1..n /\ n \in Nat
  BY <1>1 DEF Comparable
<1>4. \A i \in Position : i > n => At(r, i) = Zero
  BY <1>3 DEF At, Position
<1>5. \A i \in 1..n : At(r, i) = r.comps[i] /\ i \in Position
  BY <1>3 DEF At, Position
<1>6. PartialMatch(v, r) <=> \A i \in 1..n : At(r, i) = At(v, i)
  BY <1>3, <1>5 DEF PartialMatch
<1> HIDE DEF n
<1>7. \A i \in Position : At(v, i) \in Component /\ At(r, i) \in Component /\ At(b, i) \in Component
  BY <1>1, <1>2, AtType
<1>8. \A i \in Position : At(v, i)[2] = 0 /\ At(r, i)[2] = 0 /\ At(v, i)[1] \in Int /\ At(r, i)[1] \in Int
  BY <1>7 DEF Plain, At, Zero, Component
<1>9. At(b, n) = <<At(r, n)[1] + 1, 0>> /\ At(v, n) = <<At(v, n)[1], 0>> /\ At(r, n) = <<At(r, n)[1], 0>>
  BY <1>1, <1>2, <1>7, <1>8 DEF Component
<1>10. ASSUME \A i \in 1..n : At(r, i) = At(v, i)
       PROVE  Compare(v, r) >= 0 /\ Compare(v, b) < 0
  <2>1. \A i \in Position : IF i <= n THEN At(v, i) = At(r, i) ELSE At(r, i) = Zero
    BY <1>1, <1>4, <1>10 DEF Position
  <2>2. Compare(v, r) >= 0
    BY <1>1, <2>1, AtLeastItsPrefix
  <2>3. At(v, n) = At(r, n) /\ \A i \in Position : i < n => At(v, i) = At(b, i)
    BY <1>1, <1>2, <2>1 DEF Position
  <2>4. Below(At(v, n), At(b, n)) /\ At(v, n) # At(b, n)
    BY <1>1, <1>8, <1>9, <2>3 DEF Below
  <2>5. FirstAt(v, b, n)
    BY <1>1, <2>3, <2>4 DEF FirstAt
  <2> QED
    BY <1>1, <1>2, <2>2, <2>4, <2>5, CompareAt
<1>11. ASSUME NEW k \in 1..n, At(r, k) # At(v, k), Compare(v, r) >= 0
       PROVE  ~ (Compare(v, b) < 0)
  <2>1. k \in Position /\ k <= n
    BY <1>5
  <2>2. PICK i \in Position : FirstAt(v, r, i)
    BY <1>11, <2>1, SomeDiffers DEF Tied
  <2>3. i <= n
    BY <1>11, <2>1, <2>2, <1>1 DEF FirstAt, Position
  <2>4. Below(At(r, i), At(v, i))
    <3>1. ~ Below(At(v, i), At(r, i))
      BY <1>1, <1>11, <2>2, CompareAt
    <3> QED
      BY <1>7, <2>2, <3>1, BelowTotal DEF FirstAt
  <2>5. CASE i < n
    <3>1. At(b, i) = At(r, i) /\ \A j \in Position : j < i => At(v, j) = At(b, j)
      BY <1>1, <1>2, <2>2, <2>5 DEF FirstAt, Position
    <3>2. FirstAt(v, b, i)
      BY <2>2, <3>1 DEF FirstAt
    <3>3. ~ Below(At(v, i), At(b, i))
      BY <1>7, <2>4, <3>1, BelowTotal
    <3> QED
      BY <1>1, <1>2, <3>2, <3>3, CompareAt
  <2>6. CASE i = n
    <3>1. At(v, n)[1] >= At(r, n)[1] + 1
      BY <1>1, <1>8, <2>4, <2>6 DEF Below
    <3>2. \A j \in Position : j < n => At(v, j) = At(b, j)
      BY <1>1, <1>2, <2>2, <2>6 DEF FirstAt, Position
    <3>3. CASE At(v, n) = At(b, n)
      <4>1. \A j \in Position : IF j <= n THEN At(v, j) = At(b, j) ELSE At(b, j) = Zero
        BY <1>1, <1>2, <1>4, <3>2, <3>3 DEF Position
      <4>2. Compare(v, b) >= 0
        BY <1>1, <1>2, <4>1, AtLeastItsPrefix
      <4>3. Compare(v, b) \in {-1, 0, 1}
        BY <1>1, <1>2, CompareAntisymmetric
      <4> QED
        BY <4>2, <4>3
    <3>4. CASE At(v, n) # At(b, n)
      <4>1. FirstAt(v, b, n)
        BY <1>1, <3>2, <3>4 DEF FirstAt
      <4>2. ~ Below(At(v, n), At(b, n))
        BY <1>1, <1>8, <1>9, <3>1 DEF Below
      <4> QED
        BY <1>1, <1>2, <4>1, <4>2, CompareAt
    <3> QED
      BY <3>3, <3>4
  <2> QED
    BY <1>1, <2>3, <2>5, <2>6 DEF Position
<1> QED
  BY <1>6, <1>10, <1>11 DEF b

-----------------------------------------------------------------------------
(* The laws.                                                               *)

(* The candidates of a run.                                                *)
Published ==
    /\ cands \in Seq(Given)
    /\ \A k \in DOMAIN cands : IsVersion(cands[k])
    /\ \A j, k \in DOMAIN cands : cands[j].hasRevision = cands[k].hasRevision

LEMMA InitPublished == Init => Published
<1> SUFFICES ASSUME Init PROVE Published
  OBVIOUS
<1>1. PICK i \in Inputs : in \in [file : i.files, goos : i.hosts, cands : i.lists]
  BY DEF Init
<1>2. cands \in i.lists
  BY <1>1 DEF cands
<1>3. cands \in Seq({cands[k] : k \in DOMAIN cands})
  BY <1>2, InputAssumption
<1>4. \A k \in DOMAIN cands : IsVersion(cands[k]) /\ cands[k].hasRevision = cands[1].hasRevision
  BY <1>2, InputAssumption
<1> QED
  BY <1>3, <1>4 DEF Published, Given

LEMMA StepPublished == Published /\ [Next]_vars => Published'
<1> SUFFICES ASSUME Published, [Next]_vars PROVE Published'
  OBVIOUS
<1>1. in' = in
  BY DEF Next, vars, prepareVars, Prepare, Choose, Scan, Swap, Insert
<1> QED
  BY <1>1 DEF Published, cands, Given

LEMMA PublishedAlways == Spec => []Published
BY InitPublished, StepPublished, PTL DEF Spec

(* Whatever versions a server publishes, Compare orders them, with         *)
(* pre-releases below their release and in the order of their numbers.     *)
THEOREM CompareIsOrder == Spec => []OrderLaws
<1>1. Published => OrderLaws
  <2> SUFFICES ASSUME Published, NEW a \in Given, NEW b \in Given
               PROVE  /\ Compare(a, b) = - Compare(b, a)
                      /\ Equal(a, b) => Compare(a, b) = 0
                      /\ \A c \in Given :
                            Compare(a, b) >= 0 /\ Compare(b, c) >= 0 => Compare(a, c) >= 0
                      /\ \A w \in {"alpha", "rc"} : \A n \in {1, 2} :
                            PreRelease(a, b, w, n) /\ Plain(b) =>
                                /\ Compare(a, b) < 0
                                /\ \A c \in Given : PreRelease(c, b, w, n + 1) => Compare(a, c) < 0
    BY DEF OrderLaws
  <2>1. \A c, d \in Given : IsVersion(c) /\ Comparable(c) /\ c.hasRevision = d.hasRevision
    BY VersionAt DEF Given, Published
  <2>2. Compare(a, b) = - Compare(b, a)
    BY <2>1, CompareAntisymmetric
  <2>3. Equal(a, b) => Compare(a, b) = 0
    BY <2>1, EqualTies
  <2>4. ASSUME NEW c \in Given, Compare(a, b) >= 0, Compare(b, c) >= 0
        PROVE  Compare(a, c) >= 0
    BY <2>1, <2>4, CompareTransitive
  <2>5. ASSUME NEW w \in {"alpha", "rc"}, NEW n \in {1, 2}, PreRelease(a, b, w, n), Plain(b)
        PROVE  /\ Compare(a, b) < 0
               /\ \A c \in Given : PreRelease(c, b, w, n + 1) => Compare(a, c) < 0
    <3>1. n \in Nat
      OBVIOUS
    <3>2. Compare(a, b) = -1
      BY <2>1, <2>5, <3>1, PreReleaseBelow
    <3>3. \A c \in Given : PreRelease(c, b, w, n + 1) => Compare(a, c) = -1
      BY <2>1, <2>5, <3>1, PreReleasesInOrder
    <3> QED
      BY <3>2, <3>3
  <2> QED
    BY <2>2, <2>3, <2>4, <2>5
<1> QED
  BY <1>1, PublishedAlways, PTL

(* For versions of numbers, of any length, "~> r" accepts what is at least *)
(* r and below r with its last component bumped.                           *)
THEOREM PessimisticAlwaysInterval == Spec => []PessimisticIsInterval
<1>1. Published => PessimisticIsInterval
  <2> SUFFICES ASSUME Published, NEW v \in Given, NEW r \in Given,
                      Plain(v), Plain(r), ~ r.hasRevision
               PROVE  PartialMatch(v, r) <=> Compare(v, r) >= 0 /\ Compare(v, Bumped(r)) < 0
    BY DEF PessimisticIsInterval
  <2>1. IsVersion(v) /\ IsVersion(r)
    BY DEF Given, Published
  <2> QED
    BY <2>1, PessimisticInterval
<1> QED
  BY <1>1, PublishedAlways, PTL

-----------------------------------------------------------------------------
(* The two picks.                                                          *)

Width == Len(cands)

Matches(k) == Match(cands[k], cs)

Cmp(j, k) == Compare(cands[j], cands[k])

(* The order of a stable sort, newest first.                               *)
Before(j, k) == Cmp(j, k) > 0 \/ (Cmp(j, k) = 0 /\ j < k)

Idle == seen = 0 /\ best = 0 /\ sorted = <<>> /\ hand = 0 /\ turn = 1

(* The scan has the first of the best it has seen.                         *)
ScanInv ==
    /\ seen \in 0..Width
    /\ \/ best = 0 /\ \A k \in 1..seen : ~ Matches(k)
       \/ /\ best \in 1..seen /\ Matches(best)
          /\ \A k \in 1..seen : Matches(k) /\ k # best => Before(best, k)

Increasing(s) == \A p, q \in 1..Len(s) : p < q => s[p] < s[q]

Lists(s, X) == s \in Seq(X) /\ \A k \in X : \E p \in 1..Len(s) : s[p] = k

(* The matching candidates, once each.  Those up to the turn are in order  *)
(* but for the one in hand, which came after those it has not passed; the  *)
(* others are as they came.                                                *)
SortInv ==
    /\ Lists(sorted, {k \in 1..Width : Matches(k)})
    /\ \A p, q \in 1..Len(sorted) : p # q => sorted[p] # sorted[q]
    /\ turn \in 1..(Len(sorted) + 1)
    /\ hand \in 0..(turn - 1)
    /\ hand = 0 => turn = 1
    /\ \A p, q \in 1..Len(sorted) : p < q /\ turn <= q => sorted[p] < sorted[q]
    /\ \A p, q \in 1..Len(sorted) :
          p < q /\ q < turn /\ q # hand => Before(sorted[p], sorted[q])
    /\ \A p \in 1..Len(sorted) : p < hand => sorted[p] < sorted[hand]

PickInv == IF pc = "pick" THEN ScanInv /\ SortInv ELSE Idle

LEMMA BeforeOrder ==
    ASSUME Published
    PROVE  /\ Width \in Nat
           /\ \A j, k \in 1..Width :
                 /\ Cmp(j, k) \in {-1, 0, 1} /\ Cmp(j, k) = - Cmp(k, j)
                 /\ j # k => Before(j, k) \/ Before(k, j)
                 /\ ~ (Before(j, k) /\ Before(k, j))
           /\ \A j, k, l \in 1..Width : Before(j, k) /\ Before(k, l) => Before(j, l)
<1>1. Width \in Nat /\ DOMAIN cands = 1..Width
  BY DEF Width, Published
<1>2. /\ \A k \in 1..Width : Comparable(cands[k])
      /\ \A j, k \in 1..Width : cands[j].hasRevision = cands[k].hasRevision
  BY <1>1, VersionAt DEF Published
<1>3. \A j, k \in 1..Width : Cmp(j, k) \in {-1, 0, 1} /\ Cmp(j, k) = - Cmp(k, j)
  BY <1>2, CompareAntisymmetric DEF Cmp
<1>4. ASSUME NEW j \in 1..Width, NEW k \in 1..Width, NEW l \in 1..Width, Cmp(j, k) >= 0, Cmp(k, l) >= 0
      PROVE  /\ Cmp(j, l) >= 0
             /\ Cmp(j, k) > 0 \/ Cmp(k, l) > 0 => Cmp(j, l) > 0
  <2>1. Compare(cands[j], cands[k]) >= 0 /\ Compare(cands[k], cands[l]) >= 0
    BY <1>4 DEF Cmp
  <2> QED
    BY <1>2, <2>1, CompareTransitive DEF Cmp
<1>5. \A j, k \in 1..Width : /\ j # k => Before(j, k) \/ Before(k, j)
                         /\ ~ (Before(j, k) /\ Before(k, j))
  BY <1>1, <1>3 DEF Before
<1>6. ASSUME NEW j \in 1..Width, NEW k \in 1..Width, NEW l \in 1..Width, Before(j, k), Before(k, l)
      PROVE  Before(j, l)
  <2>1. Cmp(j, k) >= 0 /\ Cmp(k, l) >= 0
    BY <1>3, <1>6 DEF Before
  <2>2. Cmp(j, l) >= 0 /\ (Cmp(j, k) > 0 \/ Cmp(k, l) > 0 => Cmp(j, l) > 0)
    BY <1>4, <2>1
  <2> QED
    BY <1>1, <1>3, <1>6, <2>1, <2>2 DEF Before
<1> QED
  BY <1>1, <1>3, <1>5, <1>6

(* One more candidate.                                                     *)
LEMMA AppendLists ==
    ASSUME NEW j \in Nat, NEW M, NEW s,
           Lists(s, {k \in 1..j : k \in M}), Increasing(s)
    PROVE  LET t == IF j + 1 \in M THEN Append(s, j + 1) ELSE s
           IN Lists(t, {k \in 1..(j + 1) : k \in M}) /\ Increasing(t)
<1> DEFINE old == {k \in 1..j : k \in M}
           new == {k \in 1..(j + 1) : k \in M}
<1>1. s \in Seq(old) /\ Len(s) \in Nat /\ \A p \in 1..Len(s) : s[p] \in old
  BY DEF Lists
<1>2. \A k \in old : \E p \in 1..Len(s) : s[p] = k
  BY DEF Lists
<1>3. CASE j + 1 \notin M
  <2>1. old = new
    BY <1>3
  <2> QED
    BY <1>3, <2>1
<1>4. CASE j + 1 \in M
  <2> DEFINE t == Append(s, j + 1)
  <2>1. j + 1 \in new /\ old \subseteq new /\ \A k \in new : k \in old \/ k = j + 1
    BY <1>4
  <2>2. \A k \in old : k \in 1..j
    OBVIOUS
  <2> HIDE DEF old, new
  <2>3. s \in Seq(new)
    BY <1>1, <2>1
  <2>4. /\ t \in Seq(new) /\ Len(t) = Len(s) + 1 /\ t[Len(s) + 1] = j + 1
        /\ \A p \in 1..Len(s) : t[p] = s[p]
    BY <1>1, <2>1, <2>3
  <2> HIDE DEF t
  <2>5. ASSUME NEW k \in new PROVE \E p \in 1..Len(t) : t[p] = k
    <3>1. CASE k \in old
      <4>1. PICK p \in 1..Len(s) : s[p] = k
        BY <1>2, <3>1
      <4>2. p \in 1..Len(t) /\ t[p] = k
        BY <1>1, <2>4, <4>1
      <4> QED
        BY <4>2
    <3>2. CASE k = j + 1
      <4>1. Len(s) + 1 \in 1..Len(t) /\ t[Len(s) + 1] = k
        BY <1>1, <2>4, <3>2
      <4> QED
        BY <4>1
    <3> QED
      BY <2>1, <3>1, <3>2
  <2>6. ASSUME NEW p \in 1..Len(t), NEW q \in 1..Len(t), p < q
        PROVE  t[p] < t[q]
    <3>1. p \in 1..Len(s) /\ (q \in 1..Len(s) \/ q = Len(s) + 1)
      BY <1>1, <2>4, <2>6
    <3>2. t[p] = s[p] /\ s[p] \in 1..j
      BY <1>1, <2>2, <2>4, <3>1
    <3> QED
      BY <2>4, <2>6, <3>1, <3>2 DEF Increasing
  <2> QED
    BY <1>4, <2>4, <2>5, <2>6 DEF Lists, Increasing, t, new
<1> QED
  BY <1>3, <1>4

(* deps.pickNewest keeps the candidates that match, in their order.        *)
LEMMA FilteredLists ==
    ASSUME Published, NEW c
    PROVE  /\ Lists(Filtered(c), {k \in 1..Width : Match(cands[k], c)})
           /\ Increasing(Filtered(c))
<1> DEFINE D == Seq(1..Width)
           M == {k \in 1..Width : Match(cands[k], c)}
           step == [ks \in (1..Width) \X D |-> IF ks[1] \in M THEN Append(ks[2], ks[1]) ELSE ks[2]]
           keep == CHOOSE g : g = [k \in 0..Width |->
                       IF k = 0 THEN <<>>
                       ELSE IF Match(cands[k], c) THEN Append(g[k - 1], k) ELSE g[k - 1]]
<1>1. Width \in Nat /\ Filtered(c) = keep[Width]
  BY BeforeOrder DEF Filtered, Width
<1> HIDE DEF Width
<1>2. \A k \in 1..Width : \A s \in D :
         step[<<k, s>>] = IF k \in M THEN Append(s, k) ELSE s
  OBVIOUS
<1>3. step \in Steps(Width, D)
  <2>1. \A k \in 1..Width : \A s \in D : Append(s, k) \in D
    OBVIOUS
  <2> HIDE DEF D, M
  <2> QED
    BY <2>1 DEF Steps
<1>4. <<>> \in D
  OBVIOUS
<1> HIDE DEF step, D
<1>5. PICK g \in [0..Width -> D] :
         g[0] = <<>> /\ \A k \in 1..Width : g[k] = step[<<k, g[k - 1]>>]
  <2>1. Iterates(Width, D, <<>>, step) # {}
    BY <1>1, <1>3, <1>4, IterationExists
  <2> QED
    BY <2>1 DEF Iterates
<1>6. \A k \in 1..Width : g[k] = IF k \in M THEN Append(g[k - 1], k) ELSE g[k - 1]
  <2>1. \A k \in 1..Width : k - 1 \in 0..Width
    BY <1>1
  <2> HIDE DEF M
  <2> QED
    BY <1>2, <1>5, <2>1
<1>7. \A k \in 0..Width : k # 0 => k \in 1..Width
  BY <1>1
<1>8. \A k \in 1..Width : k \in M <=> Match(cands[k], c)
  OBVIOUS
<1> HIDE DEF M
<1>9. g = [k \in 0..Width |->
             IF k = 0 THEN <<>>
             ELSE IF Match(cands[k], c) THEN Append(g[k - 1], k) ELSE g[k - 1]]
  BY <1>5, <1>6, <1>7, <1>8
<1>10. keep = [k \in 0..Width |->
             IF k = 0 THEN <<>>
             ELSE IF Match(cands[k], c) THEN Append(keep[k - 1], k) ELSE keep[k - 1]]
  BY <1>9
<1> HIDE DEF keep
<1>11. keep[0] = <<>> /\ \A k \in 1..Width : keep[k] = IF k \in M THEN Append(keep[k - 1], k) ELSE keep[k - 1]
  <2>1. 0 \in 0..Width /\ \A k \in 1..Width : k \in 0..Width /\ k # 0
    BY <1>1
  <2> QED
    BY <1>8, <1>10, <2>1
<1> DEFINE P == {j \in 0..Width : Lists(keep[j], {k \in 1..j : k \in M}) /\ Increasing(keep[j])}
<1>12. 0 \in P
  <2>1. {k \in 1..0 : k \in M} = {} /\ <<>> \in Seq({}) /\ Len(<<>>) = 0 /\ 1..0 = {}
    OBVIOUS
  <2>2. Lists(<<>>, {k \in 1..0 : k \in M}) /\ Increasing(<<>>)
    BY <2>1 DEF Lists, Increasing
  <2> QED
    BY <1>1, <1>11, <2>2
<1>13. ASSUME NEW k \in 1..Width, k - 1 \in P
       PROVE  k \in P
  <2> DEFINE j == k - 1
             s == keep[j]
             t == IF j + 1 \in M THEN Append(s, j + 1) ELSE s
  <2>1. j \in Nat /\ j + 1 = k /\ k \in 0..Width
    BY <1>1
  <2>2. Lists(s, {i \in 1..j : i \in M}) /\ Increasing(s)
    BY <1>13
  <2>3. keep[k] = t
    BY <1>11, <2>1
  <2> HIDE DEF j, s
  <2>4. Lists(t, {i \in 1..(j + 1) : i \in M}) /\ Increasing(t)
    BY <2>1, <2>2, AppendLists
  <2> HIDE DEF t
  <2> QED
    BY <2>1, <2>3, <2>4
<1> HIDE DEF P
<1>14. Width \in P
  <2>1. \A k \in 0..Width : k \in P
    BY <1>1, <1>12, <1>13, Induction
  <2> QED
    BY <1>1, <2>1
<1>15. {k \in 1..Width : k \in M} = {k \in 1..Width : Match(cands[k], c)}
  BY <1>8
<1> QED
  BY <1>1, <1>14, <1>15 DEF P

LEMMA InitPickInv == Init => PickInv
BY DEF Init, PickInv, Idle

LEMMA PreparePickInv ==
    ASSUME PickInv, Prepare
    PROVE  PickInv'
BY DEF PickInv, Prepare, Idle

LEMMA ChoosePickInv ==
    ASSUME Published, PickInv, Choose
    PROVE  PickInv'
<1>1. /\ pc' = "pick" /\ Idle /\ cands' = cands /\ sorted' = Filtered(cs')
      /\ seen' = 0 /\ best' = 0 /\ hand' = 0 /\ turn' = 1
  BY DEF Choose, PickInv, Idle, cands
<1>2. Width' = Width /\ Width \in Nat
  BY <1>1, BeforeOrder DEF Width
<1>3. \A k \in 1..Width : Matches(k)' <=> Match(cands[k], cs')
  BY <1>1 DEF Matches
<1>4. Lists(sorted', {k \in 1..Width : Match(cands[k], cs')}) /\ Increasing(sorted')
  BY <1>1, FilteredLists
<1>5. {k \in 1..Width' : Matches(k)'} = {k \in 1..Width : Match(cands[k], cs')}
  BY <1>2, <1>3
<1>6. ScanInv'
  BY <1>1, <1>2 DEF ScanInv
<1>7. \A k \in {i \in 1..Width : Match(cands[i], cs')} : k \in Nat
  BY <1>2
<1>8. Len(sorted') \in Nat /\ \A p \in 1..Len(sorted') : sorted'[p] \in Nat
  BY <1>4, <1>7 DEF Lists
<1>9. \A p, q \in 1..Len(sorted') : p # q => sorted'[p] # sorted'[q]
  <2> SUFFICES ASSUME NEW p \in 1..Len(sorted'), NEW q \in 1..Len(sorted'), p # q
               PROVE  sorted'[p] # sorted'[q]
    OBVIOUS
  <2>1. p < q \/ q < p
    BY <1>8
  <2> QED
    BY <1>4, <1>8, <2>1 DEF Increasing
<1>10. SortInv'
  <2>1. Lists(sorted', {k \in 1..Width' : Matches(k)'})
    BY <1>4, <1>5
  <2>2. \A p, q \in 1..Len(sorted') : p < q => sorted'[p] < sorted'[q]
    BY <1>4 DEF Increasing
  <2> QED
    BY <1>1, <1>8, <1>9, <2>1, <2>2 DEF SortInv
<1> QED
  BY <1>1, <1>6, <1>10 DEF PickInv

LEMMA ScanPickInv ==
    ASSUME Published, PickInv, Scan
    PROVE  PickInv'
<1> DEFINE x == seen + 1
<1>1. /\ pc = "pick" /\ pc' = "pick" /\ cands' = cands /\ cs' = cs /\ sorted' = sorted
      /\ hand' = hand /\ turn' = turn /\ seen < Width /\ seen' = x
  BY DEF Scan, prepareVars, cands, Width
<1>2. best' = IF Matches(x) /\ (best = 0 \/ Cmp(x, best) > 0) THEN x ELSE best
  BY DEF Scan, Matches, Cmp
<1>3. ScanInv /\ SortInv
  BY <1>1 DEF PickInv
<1>4. /\ Width' = Width /\ Width \in Nat /\ \A k : Matches(k)' = Matches(k)
      /\ \A j, k : Before(j, k)' = Before(j, k)
  BY <1>1, BeforeOrder DEF Width, Matches, Before, Cmp
<1>5. SortInv'
  BY <1>1, <1>3, <1>4 DEF SortInv
<1>6. seen \in 0..Width /\ x \in 1..Width /\ \A k \in 1..x : k \in 1..seen \/ k = x
  BY <1>1, <1>3, <1>4 DEF ScanInv
<1>7. CASE best = 0 /\ \A k \in 1..seen : ~ Matches(k)
  <2>1. CASE Matches(x)
    <3>1. best' = x /\ \A k \in 1..x : Matches(k) => k = x
      BY <1>2, <1>6, <1>7, <2>1
    <3> QED
      BY <1>1, <1>4, <1>5, <1>6, <2>1, <3>1 DEF PickInv, ScanInv
  <2>2. CASE ~ Matches(x)
    <3>1. best' = 0 /\ \A k \in 1..x : ~ Matches(k)
      BY <1>2, <1>6, <1>7, <2>2
    <3> QED
      BY <1>1, <1>4, <1>5, <1>6, <3>1 DEF PickInv, ScanInv
  <2> QED
    BY <2>1, <2>2
<1>8. CASE /\ best \in 1..seen /\ Matches(best)
           /\ \A k \in 1..seen : Matches(k) /\ k # best => Before(best, k)
  <2>1. best \in 1..Width /\ best # 0 /\ best < x /\ best \in 1..x /\ x \in 1..x
        /\ \A k \in 1..seen : k \in 1..Width
    BY <1>4, <1>6, <1>8
  <2>2. CASE Matches(x) /\ Cmp(x, best) > 0
    <3>1. best' = x /\ Before(x, best)
      BY <1>2, <2>2 DEF Before
    <3>2. \A k \in 1..x : Matches(k) /\ k # x => Before(x, k)
      BY <1>6, <1>8, <2>1, <3>1, BeforeOrder
    <3> QED
      BY <1>1, <1>4, <1>5, <1>6, <2>1, <2>2, <3>1, <3>2 DEF PickInv, ScanInv
  <2>3. CASE ~ (Matches(x) /\ Cmp(x, best) > 0)
    <3>1. best' = best
      BY <1>2, <2>1, <2>3
    <3>2. Matches(x) => Before(best, x)
      BY <1>6, <2>1, <2>3, BeforeOrder DEF Before
    <3>3. \A k \in 1..x : Matches(k) /\ k # best => Before(best, k)
      BY <1>6, <1>8, <3>2
    <3> QED
      BY <1>1, <1>4, <1>5, <1>6, <1>8, <2>1, <3>1, <3>3 DEF PickInv, ScanInv
  <2> QED
    BY <2>2, <2>3
<1> QED
  BY <1>3, <1>7, <1>8 DEF ScanInv

LEMMA SwapPickInv ==
    ASSUME Published, PickInv, Swap
    PROVE  PickInv'
<1> DEFINE h == hand
           N == Len(sorted)
           M == {k \in 1..Width : Matches(k)}
<1>1. /\ pc = "pick" /\ pc' = "pick" /\ cands' = cands /\ cs' = cs
      /\ seen' = seen /\ best' = best /\ turn' = turn /\ h > 1 /\ hand' = h - 1
      /\ Cmp(sorted[h], sorted[h - 1]) > 0
      /\ sorted' = [sorted EXCEPT ![h] = sorted[h - 1], ![h - 1] = sorted[h]]
  BY DEF Swap, MoveUp, prepareVars, cands, Cmp
<1>2. ScanInv /\ SortInv
  BY <1>1 DEF PickInv
<1>3. /\ Width' = Width /\ Width \in Nat /\ \A k : Matches(k)' = Matches(k)
      /\ \A j, k : Before(j, k)' = Before(j, k)
  BY <1>1, BeforeOrder DEF Width, Matches, Before, Cmp
<1>4. ScanInv'
  BY <1>1, <1>2, <1>3 DEF ScanInv
<1>5. Before(sorted[h], sorted[h - 1])
  BY <1>1 DEF Before
<1>6. /\ sorted \in Seq(M) /\ \A k \in M : \E p \in 1..N : sorted[p] = k
      /\ N \in Nat
  BY <1>2 DEF SortInv, Lists
<1>7. /\ turn \in 1..(N + 1) /\ h \in 1..N /\ h - 1 \in 1..N /\ h < turn
  <2>1. turn \in 1..(N + 1) /\ h \in 0..(turn - 1)
    BY <1>2 DEF SortInv
  <2>2. N \in Nat /\ h > 1
    BY <1>1, <1>6
  <2> HIDE DEF N, h
  <2> QED
    BY SMTT(20), <2>1, <2>2
<1> DEFINE was == [p \in 1..N |-> IF p = h THEN h - 1 ELSE IF p = h - 1 THEN h ELSE p]
<1>8. \A p \in 1..N : was[p] \in 1..N /\ was[was[p]] = p
  BY <1>7
<1>9. /\ sorted' \in Seq(M) /\ Len(sorted') = N
      /\ \A p \in 1..N : sorted'[p] = sorted[was[p]]
  <2>1. DOMAIN sorted = 1..N /\ DOMAIN sorted' = 1..N
    BY <1>1, <1>6
  <2>2. \A p \in 1..N : sorted'[p] = sorted[was[p]]
    BY <1>1, <1>7, <2>1
  <2> HIDE DEF M, was
  <2>3. \A p \in 1..N : sorted'[p] \in M
    <3>1. \A p \in 1..N : sorted[p] \in M
      BY <1>6
    <3> QED
      BY <1>8, <2>2, <3>1
  <2>4. sorted' = [p \in 1..N |-> sorted'[p]]
    BY <1>1, <2>1
  <2>5. sorted' \in Seq(M) /\ Len(sorted') = N
    BY SMTT(30), <1>6, <2>3, <2>4
  <2> QED
    BY <2>2, <2>5
<1>10. M' = M
  BY <1>3
<1> HIDE DEF N, M, h
<1>11. Lists(sorted', M)
  <2> SUFFICES ASSUME NEW k \in M PROVE \E p \in 1..N : sorted'[p] = k
    BY <1>9 DEF Lists
  <2>1. PICK p \in 1..N : sorted[p] = k
    BY <1>6
  <2>2. was[p] \in 1..N /\ sorted'[was[p]] = k
    BY ZenonT(40), <1>8, <1>9, <2>1
  <2> QED
    BY <2>2
<1>12. \A p, q \in 1..N : p # q => sorted[p] # sorted[q]
  BY <1>2 DEF SortInv, N
<1>13. \A p, q \in 1..N : p # q => sorted'[p] # sorted'[q]
  <2> HIDE DEF was
  <2> QED
    BY <1>8, <1>9, <1>12
<1>14. /\ \A p, q \in 1..N : p < q /\ turn <= q => sorted[p] < sorted[q]
       /\ \A p, q \in 1..N : p < q /\ q < turn /\ q # h => Before(sorted[p], sorted[q])
       /\ \A p \in 1..N : p < h => sorted[p] < sorted[h]
  BY <1>2 DEF SortInv, N, h
<1>15. ASSUME NEW p \in 1..N, NEW q \in 1..N, p < q, turn <= q
       PROVE  sorted'[p] < sorted'[q]
  <2>1. was[q] = q /\ was[p] < q /\ was[p] \in 1..N
    BY <1>7, <1>15
  <2> QED
    BY <1>9, <1>14, <1>15, <2>1
<1>16. ASSUME NEW p \in 1..N, NEW q \in 1..N, p < q, q < turn, q # h - 1
       PROVE  Before(sorted'[p], sorted'[q])
  <2>1. CASE q = h /\ p = h - 1
    BY <1>5, <1>7, <1>9, <2>1
  <2>2. CASE q = h /\ p # h - 1
    <3>1. sorted'[q] = sorted[h - 1] /\ sorted'[p] = sorted[p] /\ p < h - 1 /\ h - 1 < turn
      BY <1>7, <1>9, <1>16, <2>2
    <3> QED
      BY <1>7, <1>14, <3>1
  <2>3. CASE q # h
    <3>1. was[q] = q /\ was[p] < q /\ was[p] \in 1..N
      BY <1>7, <1>16, <2>3
    <3> QED
      BY <1>9, <1>14, <1>16, <2>3, <3>1
  <2> QED
    BY <2>1, <2>2, <2>3
<1>17. ASSUME NEW p \in 1..N, p < h - 1
       PROVE  sorted'[p] < sorted'[h - 1]
  <2>1. was[p] = p /\ was[h - 1] = h /\ p < h
    BY <1>7, <1>17
  <2> QED
    BY <1>7, <1>9, <1>14, <2>1
<1>18. SortInv'
  <2>1. turn' \in 1..(N + 1) /\ hand' \in 0..(turn' - 1) /\ hand' # 0
    BY <1>1, <1>7 DEF h
  <2>2. Lists(sorted', {k \in 1..Width' : Matches(k)'})
    BY <1>10, <1>11 DEF M
  <2>3. \A p, q \in 1..N : p < q /\ q < turn /\ q # h - 1 => Before(sorted[p], sorted[q])'
    BY <1>1, <1>16 DEF Before, Cmp
  <2> QED
    BY <1>1, <1>9, <1>13, <1>15, <1>17, <2>1, <2>2, <2>3 DEF SortInv
<1> QED
  BY <1>1, <1>4, <1>18 DEF PickInv

(* When the one in hand has its place, all up to the turn are in order.    *)
LEMMA InOrder ==
    ASSUME Published, SortInv, ~ MoveUp
    PROVE  \A p, q \in 1..Len(sorted) : p < q /\ q < turn => Before(sorted[p], sorted[q])
<1> DEFINE h == hand
           N == Len(sorted)
<1>1. /\ N \in Nat /\ Width \in Nat /\ \A p \in 1..N : sorted[p] \in 1..Width
      /\ turn \in 1..(N + 1) /\ h \in 0..(turn - 1)
      /\ \A p, q \in 1..N : p < q /\ q < turn /\ q # h => Before(sorted[p], sorted[q])
      /\ \A p \in 1..N : p < h => sorted[p] < sorted[h]
  BY BeforeOrder DEF SortInv, Lists
<1>2. h > 1 => ~ (Cmp(sorted[h], sorted[h - 1]) > 0)
  BY DEF MoveUp, Cmp
<1> HIDE DEF h, N
<1>3. ASSUME NEW p \in 1..N, p < h PROVE Before(sorted[p], sorted[h])
  <2>1. h \in 1..N /\ h - 1 \in 1..N /\ h > 1 /\ h - 1 < h /\ h - 1 < turn /\ h - 1 # h
    BY <1>1, <1>3
  <2>2. sorted[h - 1] < sorted[h]
    BY <1>1, <2>1
  <2>3. sorted[h] \in 1..Width /\ sorted[h - 1] \in 1..Width /\ sorted[p] \in 1..Width
    BY <1>1, <2>1
  <2>4. Before(sorted[h - 1], sorted[h])
    BY <1>2, <2>1, <2>2, <2>3, BeforeOrder DEF Before
  <2>5. CASE p = h - 1
    BY <2>4, <2>5
  <2>6. CASE p # h - 1
    <3>1. p < h - 1
      BY <1>1, <1>3, <2>6
    <3>2. Before(sorted[p], sorted[h - 1])
      BY <1>1, <2>1, <3>1
    <3> QED
      BY <2>3, <2>4, <3>2, BeforeOrder
  <2> QED
    BY <2>5, <2>6
<1> QED
  BY <1>1, <1>3 DEF N

LEMMA InsertPickInv ==
    ASSUME Published, PickInv, Insert
    PROVE  PickInv'
<1> DEFINE N == Len(sorted)
<1>1. /\ pc = "pick" /\ pc' = "pick" /\ cands' = cands /\ cs' = cs /\ sorted' = sorted
      /\ seen' = seen /\ best' = best /\ hand' = turn /\ turn' = turn + 1
      /\ turn <= N /\ ~ MoveUp
  BY DEF Insert, prepareVars, cands
<1>2. ScanInv /\ SortInv
  BY <1>1 DEF PickInv
<1>3. /\ Width' = Width /\ Width \in Nat /\ \A k : Matches(k)' = Matches(k)
      /\ \A j, k : Before(j, k)' = Before(j, k)
  BY <1>1, BeforeOrder DEF Width, Matches, Before, Cmp
<1>4. ScanInv'
  BY <1>1, <1>2, <1>3 DEF ScanInv
<1>5. \A p, q \in 1..N : p < q /\ q < turn => Before(sorted[p], sorted[q])
  BY <1>1, <1>2, InOrder
<1>6. /\ N \in Nat /\ turn \in 1..N
      /\ Lists(sorted, {k \in 1..Width : Matches(k)})
      /\ \A p, q \in 1..N : p # q => sorted[p] # sorted[q]
      /\ \A p, q \in 1..N : p < q /\ turn <= q => sorted[p] < sorted[q]
  BY <1>1, <1>2 DEF SortInv, Lists
<1> HIDE DEF N
<1>7. SortInv'
  <2>1. \A p, q \in 1..N : p < q /\ q < turn + 1 /\ q # turn => Before(sorted[p], sorted[q])'
    <3>1. \A p, q \in 1..N : p < q /\ q < turn + 1 /\ q # turn => Before(sorted[p], sorted[q])
      BY <1>5, <1>6
    <3> QED
      BY <1>1, <3>1 DEF Before, Cmp
  <2>2. \A p, q \in 1..N : p < q /\ turn + 1 <= q => sorted[p] < sorted[q]
    BY <1>6
  <2>3. \A p \in 1..N : p < turn => sorted[p] < sorted[turn]
    BY <1>6
  <2>4. turn + 1 \in 1..(N + 1) /\ turn \in 0..turn /\ turn # 0
    BY <1>6
  <2>5. Lists(sorted', {k \in 1..Width' : Matches(k)'})
    BY <1>1, <1>3, <1>6
  <2> QED
    BY <1>1, <1>6, <2>1, <2>2, <2>3, <2>4, <2>5 DEF SortInv, N
<1> QED
  BY <1>1, <1>4, <1>7 DEF PickInv

LEMMA StepPickInv == Published /\ PickInv /\ [Next]_vars => PickInv'
<1> SUFFICES ASSUME Published, PickInv, [Next]_vars PROVE PickInv'
  OBVIOUS
<1>1. CASE UNCHANGED vars
  BY <1>1 DEF vars, prepareVars, PickInv, Idle, ScanInv, SortInv, Width, Matches, Before, Cmp, cands
<1> QED
  BY <1>1, PreparePickInv, ChoosePickInv, ScanPickInv, SwapPickInv, InsertPickInv DEF Next

LEMMA PickInvAlways == Spec => []PickInv
BY InitPickInv, StepPickInv, PublishedAlways, PTL DEF Spec

(* Whatever the candidates and constraints, the scan for a maximum and the *)
(* filter, sort and first of the resolver end with the same candidate: the *)
(* first of the highest ones that match.                                   *)
THEOREM PicksAlwaysAgree == Spec => []PicksAgree
<1>1. Published /\ PickInv => PicksAgree
  <2> SUFFICES ASSUME Published, PickInv, Scanned, Sorted
               PROVE  /\ best = IF sorted = <<>> THEN 0 ELSE sorted[1]
                      /\ \A k \in DOMAIN cands : Match(cands[k], cs) =>
                            /\ best # 0
                            /\ Compare(cands[k], cands[best]) <= (IF k < best THEN -1 ELSE 0)
    BY DEF PicksAgree
  <2> DEFINE N == Len(sorted)
  <2>1. ScanInv /\ SortInv /\ seen = Width /\ turn > N /\ ~ MoveUp
    BY DEF PickInv, Scanned, Sorted, Width
  <2>2. /\ Width \in Nat /\ N \in Nat /\ DOMAIN cands = 1..Width
        /\ \A p \in 1..N : sorted[p] \in 1..Width /\ Matches(sorted[p])
        /\ \A k \in 1..Width : Matches(k) => \E p \in 1..N : sorted[p] = k
        /\ sorted = <<>> <=> N = 0
    <3>1. Width \in Nat /\ DOMAIN cands = 1..Width
      BY BeforeOrder DEF Published, Width
    <3> DEFINE M == {k \in 1..Width : Matches(k)}
    <3>2. sorted \in Seq(M) /\ \A k \in M : \E p \in 1..N : sorted[p] = k
      BY <2>1 DEF SortInv, Lists
    <3>3. N \in Nat /\ (\A p \in 1..N : sorted[p] \in M) /\ (sorted = <<>> <=> N = 0)
      <4> HIDE DEF M
      <4> QED
        BY <3>2
    <3> QED
      BY <3>1, <3>2, <3>3
  <2>3. \A p, q \in 1..N : p < q => Before(sorted[p], sorted[q])
    <3>1. \A p, q \in 1..N : p < q /\ q < turn => Before(sorted[p], sorted[q])
      BY <2>1, InOrder
    <3>2. \A q \in 1..N : q < turn
      BY <2>1, <2>2 DEF SortInv
    <3> QED
      BY <3>1, <3>2
  <2>4. \/ best = 0 /\ \A k \in 1..Width : ~ Matches(k)
        \/ /\ best \in 1..Width /\ Matches(best)
           /\ \A k \in 1..Width : Matches(k) /\ k # best => Before(best, k)
    BY <2>1 DEF ScanInv
  <2> HIDE DEF N
  <2>5. best = IF sorted = <<>> THEN 0 ELSE sorted[1]
    <3>1. CASE N = 0
      <4>1. \A p \in 1..N : FALSE
        BY <3>1
      <4> QED
        BY <2>2, <2>4, <3>1, <4>1
    <3>2. CASE N # 0
      <4>1. 1 \in 1..N
        BY <2>2, <3>2
      <4>2. /\ sorted[1] \in 1..Width /\ Matches(sorted[1])
            /\ best \in 1..Width /\ Matches(best)
            /\ best # sorted[1] => Before(best, sorted[1])
        BY <2>2, <2>4, <4>1
      <4>3. PICK p \in 1..N : sorted[p] = best
        BY <2>2, <4>2
      <4>4. p # 1 => Before(sorted[1], best)
        BY <2>2, <2>3, <4>1, <4>3
      <4> QED
        BY <2>2, <3>2, <4>2, <4>3, <4>4, BeforeOrder
    <3> QED
      BY <3>1, <3>2
  <2>6. ASSUME NEW k \in 1..Width, Matches(k)
        PROVE  best # 0 /\ Cmp(k, best) <= (IF k < best THEN -1 ELSE 0)
    <3>1. best \in 1..Width /\ best # 0 /\ (k # best => Before(best, k))
      BY <2>4, <2>6
    <3>2. Cmp(k, best) \in {-1, 0, 1} /\ Cmp(best, k) \in {-1, 0, 1} /\ Cmp(k, best) = - Cmp(best, k)
      BY <3>1, BeforeOrder
    <3>3. CASE k = best
      BY <3>1, <3>2, <3>3
    <3>4. CASE k # best
      BY <3>1, <3>2, <3>4 DEF Before
    <3> QED
      BY <3>3, <3>4
  <2> QED
    BY <2>2, <2>5, <2>6 DEF Matches, Cmp
<1> QED
  BY <1>1, PublishedAlways, PickInvAlways, PTL
=============================================================================
