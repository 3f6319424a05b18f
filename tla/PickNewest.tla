----------------------------- MODULE PickNewest -----------------------------
(***************************************************************************)
(* From a rockspec to the version of its dependency: the rockspec is       *)
(* evaluated and prepared, and its first dependency's constraints choose   *)
(* among a server's candidates.  Two functions choose: client.pickNewest,  *)
(* for the rock the user asks for, scans for a maximum; deps.pickNewest,   *)
(* for dependencies, filters, sorts and takes the first.  Both run on the  *)
(* same input; one action is one round of a loop.  sort.SliceStable on at  *)
(* most 20 elements is an insertion sort, with the comparison              *)
(* "Compare(x, y) > 0".                                                    *)
(***************************************************************************)
EXTENDS Rockspec

CONSTANTS
    Inputs  \* records [files, hosts, lists]: rockspecs, each as the globals it reads and
            \* assigns, hosts and lists of candidates, all to be combined

(* A list is what a server publishes of a rock: versions that parse, all    *)
(* with a revision; or, from a hand-made index, all without.                *)
ASSUME InputAssumption ==
    \A i \in Inputs : \A list \in i.lists :
        /\ list \in Seq({list[k] : k \in DOMAIN list})
        /\ \A k \in DOMAIN list :
              IsVersion(list[k]) /\ list[k].hasRevision = list[1].hasRevision

VARIABLES
    in,      \* the input: [file, goos, cands]
    pc,      \* "eval", "prepared", "pick" or "rejected"
    spec,    \* the rockspec evalAndPrepare returned
    cs,      \* the constraints
    seen,    \* client.pickNewest: how many candidates the scan has seen
    best,    \* client.pickNewest: index of the best one so far, 0 if none
    sorted,  \* deps.pickNewest: indices of the matching candidates
    hand,    \* deps.pickNewest: position of the element being inserted
    turn     \* deps.pickNewest: position of the next element to insert

prepareVars == <<in, pc, spec>>

vars == <<prepareVars, cs, seen, best, sorted, hand, turn>>

cands == in.cands

-----------------------------------------------------------------------------
(* evalAndPrepare.                                                         *)
Prepare ==
    LET s == EvalAndPrepare(in.file, in.goos)
    IN /\ pc = "eval"
       /\ pc' = IF s = Rejected THEN "rejected" ELSE "prepared"
       /\ spec' = s
       /\ UNCHANGED <<in, cs, seen, best, sorted, hand, turn>>

(* deps.pickNewest: the candidates that match, as indices.                 *)
Filtered(constraints) ==
    LET keep[k \in 0..Len(cands)] ==
            IF k = 0 THEN <<>>
            ELSE IF Match(cands[k], constraints) THEN Append(keep[k - 1], k) ELSE keep[k - 1]
    IN keep[Len(cands)]

(* The walk comes to the dependency; the index has answered.               *)
Choose ==
    /\ pc = "prepared"
    /\ spec.deps["dependencies"] # <<>>
    /\ pc' = "pick"
    /\ cs' = spec.deps["dependencies"][1].constraints
    /\ sorted' = Filtered(spec.deps["dependencies"][1].constraints)
    /\ UNCHANGED <<in, spec, seen, best, hand, turn>>

-----------------------------------------------------------------------------
\* Mutant: a tie goes to the later candidate.
ScanLatest ==
    /\ pc = "pick"
    /\ seen < Len(cands)
    /\ seen' = seen + 1
    /\ best' = IF /\ Match(cands[seen + 1], cs)
                  /\ best = 0 \/ Compare(cands[seen + 1], cands[best]) >= 0
               THEN seen + 1 ELSE best
    /\ UNCHANGED <<prepareVars, cs, sorted, hand, turn>>

(* A round of the loop of client.pickNewest.                               *)
Scan ==
    /\ pc = "pick"
    /\ seen < Len(cands)
    /\ seen' = seen + 1
    /\ best' = IF /\ Match(cands[seen + 1], cs)
                  /\ best = 0 \/ Compare(cands[seen + 1], cands[best]) > 0
               THEN seen + 1 ELSE best
    /\ UNCHANGED <<prepareVars, cs, sorted, hand, turn>>

(* The less function says the element in hand goes before its neighbour.   *)
MoveUp == hand > 1 /\ Compare(cands[sorted[hand]], cands[sorted[hand - 1]]) > 0

Swap ==
    /\ pc = "pick"
    /\ MoveUp
    /\ sorted' = [sorted EXCEPT ![hand] = sorted[hand - 1], ![hand - 1] = sorted[hand]]
    /\ hand' = hand - 1
    /\ UNCHANGED <<prepareVars, cs, seen, best, turn>>

(* It is in place: take the next one.                                      *)
Insert ==
    /\ pc = "pick"
    /\ ~ MoveUp
    /\ turn <= Len(sorted)
    /\ hand' = turn
    /\ turn' = turn + 1
    /\ UNCHANGED <<prepareVars, cs, seen, best, sorted>>

Init ==
    /\ \E i \in Inputs : in \in [file : i.files, goos : i.hosts, cands : i.lists]
    /\ pc = "eval"
    /\ spec = Rejected
    /\ cs = <<>>
    /\ seen = 0
    /\ best = 0
    /\ sorted = <<>>
    /\ hand = 0
    /\ turn = 1

Next == Prepare \/ Choose \/ Scan \/ Swap \/ Insert

Spec == Init /\ [][Next]_vars

-----------------------------------------------------------------------------
(* Properties.                                                             *)

Scanned == pc = "pick" /\ seen = Len(cands)
Sorted  == pc = "pick" /\ turn > Len(sorted) /\ ~ MoveUp

Given == {cands[k] : k \in DOMAIN cands}

(* The two pickNewest functions pick the same candidate, the first of the   *)
(* highest ones that match, and pick none only if none matches.             *)
PicksAgree ==
    Scanned /\ Sorted =>
        /\ best = IF sorted = <<>> THEN 0 ELSE sorted[1]
        /\ \A k \in DOMAIN cands : Match(cands[k], cs) =>
              best # 0 /\ Compare(cands[k], cands[best]) <= (IF k < best THEN -1 ELSE 0)

Plain(v) == \A i \in DOMAIN v.comps : v.comps[i][1] >= 0 /\ v.comps[i][2] = 0

Bumped(v) == [v EXCEPT !.comps[Len(v.comps)][1] = @ + 1]

PreRelease(a, b, w, n) == a.raw = b.raw \o <<Word(w), Number(n)>>

(* The order Compare gives is one: neither argument order nor a detour over *)
(* a third version changes the verdict, and Equal versions tie.  In it a     *)
(* pre-release is below its release, and pre-releases of one kind are in     *)
(* order of their number, although a word and the number after it share a    *)
(* slot.                                                                     *)
OrderLaws ==
    pc = "eval" => \A a, b \in Given :
        /\ Compare(a, b) = - Compare(b, a)
        /\ Equal(a, b) => Compare(a, b) = 0
        /\ \A c \in Given :
              Compare(a, b) >= 0 /\ Compare(b, c) >= 0 => Compare(a, c) >= 0
        /\ \A w \in {"alpha", "rc"} : \A n \in {1, 2} :
              PreRelease(a, b, w, n) /\ Plain(b) =>
                  /\ Compare(a, b) < 0
                  /\ \A c \in Given : PreRelease(c, b, w, n + 1) => Compare(a, c) < 0

(* "~> 1.2" is ">= 1.2, < 1.3": on versions made of numbers the prefix      *)
(* match and the order agree.                                               *)
PessimisticIsInterval ==
    pc = "eval" => \A v, r \in Given :
        Plain(v) /\ Plain(r) /\ ~ r.hasRevision =>
            (PartialMatch(v, r) <=> Compare(v, r) >= 0 /\ Compare(v, Bumped(r)) < 0)
=============================================================================
