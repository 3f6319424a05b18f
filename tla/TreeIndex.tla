----------------------------- MODULE TreeIndex ------------------------------
(***************************************************************************)
(* What a rock tree promises to a reader of its manifest: a set of         *)
(* installed rocks and, for every module, at most one active provider.     *)
(* Installing a rock and removing versions of one rock are single steps;   *)
(* an operation that fails changes nothing a reader can see.  RockTree     *)
(* implements this with a snapshot, file by file changes and one rename.   *)
(***************************************************************************)
EXTENDS Naturals

CONSTANTS Rocks, Name, Ver, Items, Ships(_, _), NoRock

VARIABLES
    installed,  \* the rocks the manifest lists
    active      \* module -> its active provider, or NoRock

indexVars == <<installed, active>>

Init ==
    /\ installed = {}
    /\ active = [i \in Items |-> NoRock]

(* An incumbent keeps a module unless the new rock has the lesser name, or *)
(* the same name and a greater version.                                    *)
Outranks(r, q) ==
    \/ Name[r] < Name[q]
    \/ Name[r] = Name[q] /\ Ver[r] > Ver[q]

Install(r) ==
    /\ installed' = installed \cup {r}
    /\ active' \in [Items -> Rocks \cup {NoRock}]
    /\ \A i \in Items :
          \/ active'[i] = active[i]
          \/ active'[i] = r /\ Ships(r, i)
    /\ \A i \in Items :
          active[i] # NoRock /\ Ships(r, i) =>
              (active'[i] = r <=> r = active[i] \/ Outranks(r, active[i]))

(* The modules of the removed versions pass to an installed rock, or to    *)
(* none; every other module keeps its provider.                            *)
Remove(R) ==
    /\ R # {}
    /\ \A q, r \in R : Name[q] = Name[r]
    /\ installed' = installed \ R
    /\ active' \in [Items -> Rocks \cup {NoRock}]
    /\ \A i \in Items :
          IF active[i] \in R THEN active'[i] \in installed' \cup {NoRock}
                             ELSE active'[i] = active[i]

Next ==
    \/ \E r \in Rocks : Install(r)
    \/ \E R \in SUBSET installed : Remove(R)

Spec == Init /\ [][Next]_indexVars
=============================================================================
