------------------------------ MODULE Versions ------------------------------
(***************************************************************************)
(* The version algebra of deps: what ParseVersion makes of a version       *)
(* string, the order Compare, the identity Equal, and the constraint       *)
(* operators of Match.                                                     *)
(*                                                                         *)
(* A version string is the sequence of its tokens, numbers and words, and  *)
(* an optional revision.  A component, a float in the code, is a pair: its *)
(* whole part and the 1/100000 parts that componentFraction and            *)
(* asciiFallbackDivisor add to it.                                         *)
(***************************************************************************)
EXTENDS Integers, Sequences, SequencesExt

CONSTANT WordDelta  \* word -> the component it stands for

Component == Int \X Int

ASSUME WordAssumption == WordDelta \in [DOMAIN WordDelta -> Component]

Number(n) == [kind |-> "number", value |-> n]
Word(w)   == [kind |-> "word", value |-> w]

Zero == <<0, 0>>

(* keywordDeltas.                                                          *)
KeywordDelta(w) ==
    CASE w = "dev"   -> <<120000000, 0>>
      [] w = "scm"   -> <<110000000, 0>>
      [] w = "cvs"   -> <<100000000, 0>>
      [] w = "rc"    -> <<-1000, 0>>
      [] w = "pre"   -> <<-10000, 0>>
      [] w = "beta"  -> <<-100000, 0>>
      [] w = "alpha" -> <<-1000000, 0>>

Keywords == {"dev", "scm", "cvs", "rc", "pre", "beta", "alpha"}

(* A keyword's delta, or the first byte of any other word over 1000.       *)
Delta(w) == IF w \in Keywords THEN KeywordDelta(w) ELSE WordDelta[w]

(* One round of ParseVersion's loop.  A number opens the current slot, or   *)
(* merges as a fraction into a slot a word opened, and advances; a word     *)
(* sets the current slot and does not advance.                              *)
Take(st, tok) ==
    LET open  == st.slot <= Len(st.comps)
        value == IF tok.kind = "word" THEN Delta(tok.value)
                 ELSE IF open THEN <<st.comps[st.slot][1], st.comps[st.slot][2] + tok.value>>
                 ELSE <<tok.value, 0>>
    IN [comps |-> IF open THEN [st.comps EXCEPT ![st.slot] = value]
                          ELSE Append(st.comps, value),
        slot  |-> IF tok.kind = "word" THEN st.slot ELSE st.slot + 1]

Parsing(toks) ==
    LET parse[k \in 0..Len(toks)] ==
            IF k = 0 THEN [comps |-> <<>>, slot |-> 1] ELSE Take(parse[k - 1], toks[k])
    IN parse[Len(toks)]

Parsed(toks) == Parsing(toks).comps

(* ParseVersion of the tokens with a revision, or without: NoRevision.  The *)
(* Revision field of a version without one is 0.                            *)
NoRevision == -1

ParseVersion(toks, rev) ==
    [raw         |-> toks,
     comps       |-> IF toks = <<>> THEN <<Zero>> ELSE Parsed(toks),
     hasRevision |-> rev # NoRevision,
     revision    |-> IF rev = NoRevision THEN 0 ELSE rev]

Token == [kind : {"number"}, value : Nat] \cup
         [kind : {"word"}, value : Keywords \cup DOMAIN WordDelta]

(* What ParseVersion makes of some string.                                 *)
IsVersion(v) ==
    /\ v.raw \in Seq(Token)
    /\ v.revision \in Nat
    /\ v.hasRevision \in BOOLEAN
    /\ v = ParseVersion(v.raw, IF v.hasRevision THEN v.revision ELSE NoRevision)

-----------------------------------------------------------------------------
(* Missing trailing components are zero.                                   *)
At(v, i) == IF i \in DOMAIN v.comps THEN v.comps[i] ELSE Zero

Below(p, q) == p[1] < q[1] \/ (p[1] = q[1] /\ p[2] < q[2])

BothRevised(a, b) == a.hasRevision /\ b.hasRevision

Equal(a, b) ==
    /\ a.comps = b.comps
    /\ BothRevised(a, b) => a.revision = b.revision

\* Mutant: only the components both versions have are compared.
CompareShortest(a, b) ==
    LET shared == {i \in DOMAIN a.comps \cap DOMAIN b.comps : At(a, i) # At(b, i)}
        first  == CHOOSE i \in shared : \A j \in shared : i <= j
    IN CASE shared # {} -> IF Below(At(a, first), At(b, first)) THEN -1 ELSE 1
         [] shared = {} /\ BothRevised(a, b) /\ a.revision # b.revision
                        -> IF a.revision < b.revision THEN -1 ELSE 1
         [] OTHER       -> 0

(* -1, 0 or 1: the first component that differs decides, else the revision  *)
(* if both versions have one.                                               *)
Compare(a, b) ==
    LET differ == {i \in DOMAIN a.comps \cup DOMAIN b.comps : At(a, i) # At(b, i)}
        first  == CHOOSE i \in differ : \A j \in differ : i <= j
    IN CASE differ # {} -> IF Below(At(a, first), At(b, first)) THEN -1 ELSE 1
         [] differ = {} /\ BothRevised(a, b) /\ a.revision # b.revision
                        -> IF a.revision < b.revision THEN -1 ELSE 1
         [] OTHER       -> 0

\* Mutant: the last component of the request is not compared.
PartialMatchOpen(v, requested) ==
    /\ \A i \in 1..(Len(requested.comps) - 1) : requested.comps[i] = At(v, i)
    /\ requested.hasRevision => v.revision = requested.revision

(* The "~>" operator.                                                      *)
PartialMatch(v, requested) ==
    /\ \A i \in DOMAIN requested.comps : requested.comps[i] = At(v, i)
    /\ requested.hasRevision => v.revision = requested.revision

Ops == {"==", "~=", ">", "<", ">=", "<=", "~>"}

MatchOne(v, c) ==
    LET cmp == Compare(v, c.version)
    IN CASE c.op = "==" -> Equal(v, c.version)
         [] c.op = "~=" -> ~ Equal(v, c.version)
         [] c.op = ">"  -> cmp > 0
         [] c.op = "<"  -> cmp < 0
         [] c.op = ">=" -> cmp >= 0
         [] c.op = "<=" -> cmp <= 0
         [] c.op = "~>" -> PartialMatch(v, c.version)

(* Every constraint of the list holds.                                     *)
Match(v, cs) == \A k \in DOMAIN cs : MatchOne(v, cs[k])
=============================================================================
