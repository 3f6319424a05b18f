---------------------------- MODULE RemoteIndex -----------------------------
(***************************************************************************)
(* Query: how a client finds the versions of a rock on its rock servers.   *)
(* An index asks groups of servers in order and takes the first that has   *)
(* the rock (OrderedIndex); within a group it merges what the servers      *)
(* offer (HTTPRemoteIndex).  The client's own index has one server per     *)
(* group.  A server publishes its manifest in several variants, probed in  *)
(* order; what was loaded is kept in the index and in the client's         *)
(* ManifestCache, which every call shares.  Servers change and fail while  *)
(* queries run.                                                            *)
(*                                                                         *)
(* The model follows one rock name.  What a manifest says of it is the     *)
(* list of arches every version is offered in.                             *)
(***************************************************************************)
EXTENDS Naturals, Sequences

CONSTANTS
    Servers,     \* the rock servers
    Local,       \* those that are directories
    Groups,      \* the servers in configuration order, grouped per index
    Namespaces,  \* the manifests of a server
    Variants,    \* the names of a manifest, in probing order
    Versions,    \* version strings
    Unparsable,  \* those that deps.ParseVersion rejects
    Host,        \* the arch of this host
    Manifests,   \* what may be published, besides "absent" and "broken"
    Offered,     \* manifest -> version -> the arches it is offered in
    Callers,     \* the calls that query
    Sessions     \* [store, updates, queries]: what the servers hold at the start, the
                 \* files they may publish later, and a bound: queries per caller

Place   == Servers \X Namespaces
Content == {"absent", "broken"} \cup Manifests
Nothing == "nothing"
NoItem  == [server |-> Nothing, arch |-> Nothing]

(* An index without servers, or an ordered index without indexes, answers   *)
(* every query with an error: it is left out.                               *)
ASSUME IndexAssumption ==
    /\ Local \subseteq Servers
    /\ Nothing \notin Servers
    /\ Groups \in Seq(Seq(Servers) \ {<<>>}) \ {<<>>}
    /\ \A s \in Servers : \E g \in DOMAIN Groups : \E k \in DOMAIN Groups[g] : Groups[g][k] = s
    /\ Variants \in Seq(STRING) \ {<<>>}
    /\ Namespaces # {}
    /\ Unparsable \subseteq Versions
    /\ Manifests \cap {"absent", "broken", Nothing} = {}
    /\ \A m \in Manifests : \A v \in Versions : Offered[m][v] \in Seq(STRING)
    /\ \A s \in Sessions :
          /\ s.store \in [Place -> [DOMAIN Variants -> Content]]
          /\ s.queries \in [Callers -> Nat]
          /\ s.updates \subseteq Place \X (DOMAIN Variants) \X Content

VARIABLES
    store,      \* place -> variant -> what is published
    published,  \* place -> every manifest that was ever there
    updates,    \* what servers may still publish
    queries,    \* caller -> queries to come, at most
    shared,     \* the client's ManifestCache: key -> manifest
    own,        \* caller -> the cache of its index: key -> manifest
    q           \* caller -> its query

vars == <<store, published, updates, queries, shared, own, q>>

Fresh == [pc |-> "idle", ns |-> CHOOSE n \in Namespaces : TRUE, group |-> 1, at |-> 1,
          probe |-> 1, items |-> [v \in Versions |-> <<>>], failed |-> {},
          lastErr |-> FALSE, answer |-> [v \in Versions |-> NoItem]]

-----------------------------------------------------------------------------
Group(c)  == Groups[q[c].group]
Server(c) == Group(c)[q[c].at]

\* Mutant: the namespace is left out of the key.
CacheKeyOfServer(s, ns) == <<s, CHOOSE n \in Namespaces : TRUE>>

(* The key of both caches.                                                 *)
CacheKey(s, ns) == <<s, ns>>

Key(c) == CacheKey(Server(c), q[c].ns)

(* acceptedArches.                                                         *)
Accepted(arches) ==
    LET keep[k \in 0..Len(arches)] ==
            IF k = 0 THEN <<>>
            ELSE IF arches[k] \in {"src", "all", "rockspec", "installed", Host}
                 THEN Append(keep[k - 1], arches[k]) ELSE keep[k - 1]
    IN keep[Len(arches)]

(* What the loop of pickMergedItem ends with: a binary arch always wins,    *)
(* src wins over rockspec.                                                  *)
PickMergedItem(items) ==
    LET src    == {k \in DOMAIN items : items[k].arch = "src"}
        binary == {k \in DOMAIN items : items[k].arch \notin {"src", "rockspec"}}
    IN IF binary # {} THEN CHOOSE k \in binary : \A j \in binary : j <= k
       ELSE IF src # {} THEN CHOOSE k \in src : \A j \in src : k <= j
       ELSE 1

(* mergedRocks: one item per version; a version that does not parse is      *)
(* skipped.                                                                 *)
MergedRocks(items) ==
    [v \in Versions |->
        IF items[v] = <<>> \/ v \in Unparsable
        THEN NoItem ELSE items[v][PickMergedItem(items[v])]]

NoAnswer == [v \in Versions |-> NoItem]
ParseErr(items) == \E v \in Unparsable : items[v] # <<>>

-----------------------------------------------------------------------------
(* A call queries through the client's index, or through a fresh one for a  *)
(* server list of its own.                                                  *)
Start(c, ns, fresh) ==
    /\ q[c].pc \in {"idle", "found", "none", "error"}
    /\ queries[c] > 0
    /\ queries' = [queries EXCEPT ![c] = @ - 1]
    /\ q' = [q EXCEPT ![c] = [Fresh EXCEPT !.pc = "load", !.ns = ns]]
    /\ own' = IF fresh THEN [own EXCEPT ![c] = [k \in Place |-> Nothing]] ELSE own
    /\ UNCHANGED <<store, published, updates, shared>>

(* The manifest of the current server is in the index.                     *)
Cached(c) ==
    /\ q[c].pc = "load"
    /\ own[c][Key(c)] # Nothing
    /\ q' = [q EXCEPT ![c].pc = "merge"]
    /\ UNCHANGED <<store, published, updates, queries, shared, own>>

CachedShared(c) ==
    /\ q[c].pc = "load"
    /\ own[c][Key(c)] = Nothing
    /\ shared[Key(c)] # Nothing
    /\ own' = [own EXCEPT ![c][Key(c)] = shared[Key(c)]]
    /\ q' = [q EXCEPT ![c].pc = "merge"]
    /\ UNCHANGED <<store, published, updates, queries, shared>>

Miss(c) ==
    /\ q[c].pc = "load"
    /\ own[c][Key(c)] = Nothing
    /\ shared[Key(c)] = Nothing
    /\ q' = [q EXCEPT ![c] = [q[c] EXCEPT !.pc = "probe", !.probe = 1]]
    /\ UNCHANGED <<store, published, updates, queries, shared, own>>

Probed(c) == store[<<Server(c), q[c].ns>>][q[c].probe]

(* The variant is there and decodes: both caches get it.                   *)
ProbeLoads(c) ==
    /\ q[c].pc = "probe"
    /\ Probed(c) \in Manifests
    /\ own' = [own EXCEPT ![c][Key(c)] = Probed(c)]
    /\ shared' = [shared EXCEPT ![Key(c)] = Probed(c)]
    /\ q' = [q EXCEPT ![c].pc = "merge"]
    /\ UNCHANGED <<store, published, updates, queries>>

\* Mutant: the same variant is asked for again.
ProbeRetries(c) ==
    /\ q[c].pc = "probe"
    /\ Probed(c) \notin Manifests \/ Server(c) \notin Local
    /\ q' = [q EXCEPT ![c].pc = "load"]
    /\ UNCHANGED <<store, published, updates, queries, shared, own>>

(* It is absent or does not decode, or a server other than a directory did  *)
(* not answer: the next variant, or after the last one the server counts as *)
(* failed.                                                                  *)
ProbeFails(c) ==
    /\ q[c].pc = "probe"
    /\ Probed(c) \notin Manifests \/ Server(c) \notin Local
    /\ q' = IF q[c].probe < Len(Variants)
            THEN [q EXCEPT ![c].probe = @ + 1]
            ELSE [q EXCEPT ![c] = [q[c] EXCEPT !.pc = "next", !.failed = @ \cup {Server(c)}]]
    /\ UNCHANGED <<store, published, updates, queries, shared, own>>

(* The accepted offers of the server join those of its group.              *)
Merge(c) ==
    LET offers(v) == Accepted(Offered[own[c][Key(c)]][v])
    IN /\ q[c].pc = "merge"
       /\ q' = [q EXCEPT ![c] = [q[c] EXCEPT
                    !.pc = "next",
                    !.items = [v \in Versions |->
                        @[v] \o [k \in DOMAIN offers(v) |->
                                    [server |-> Server(c), arch |-> offers(v)[k]]]]]]
       /\ UNCHANGED <<store, published, updates, queries, shared, own>>

NextServer(c) ==
    /\ q[c].pc = "next"
    /\ q[c].at < Len(Group(c))
    /\ q' = [q EXCEPT ![c] = [q[c] EXCEPT !.pc = "load", !.at = @ + 1]]
    /\ UNCHANGED <<store, published, updates, queries, shared, own>>

(* The group's index returns: its rocks, or an error if it has none and a   *)
(* server of it failed or a version did not parse.                          *)
GroupErr(c) ==
    \/ \E k \in DOMAIN Group(c) : Group(c)[k] \in q[c].failed
    \/ ParseErr(q[c].items)

\* Mutant: an error of an index ends the query.
GroupEmptyStops(c) ==
    /\ q[c].pc = "next"
    /\ q[c].at = Len(Group(c))
    /\ MergedRocks(q[c].items) = NoAnswer
    /\ LET err == q[c].lastErr \/ GroupErr(c)
       IN q' = IF q[c].group < Len(Groups) /\ ~ err
               THEN [q EXCEPT ![c].pc = "load", ![c].group = @ + 1, ![c].at = 1,
                              ![c].items = Fresh.items, ![c].lastErr = err]
               ELSE [q EXCEPT ![c].pc = IF err THEN "error" ELSE "none",
                              ![c].lastErr = err]
    /\ UNCHANGED <<store, published, updates, queries, shared, own>>

\* Mutant: the next index is asked although this one has the rock.
GroupPassed(c) ==
    /\ q[c].pc = "next"
    /\ q[c].at = Len(Group(c))
    /\ LET err == q[c].lastErr \/ GroupErr(c)
       IN q' = IF q[c].group < Len(Groups)
               THEN [q EXCEPT ![c].pc = "load", ![c].group = @ + 1, ![c].at = 1,
                              ![c].items = Fresh.items, ![c].lastErr = err]
               ELSE [q EXCEPT ![c].pc = IF err THEN "error" ELSE "none",
                              ![c].lastErr = err]
    /\ UNCHANGED <<store, published, updates, queries, shared, own>>

(* OrderedIndex goes on to the next index, and remembers an error.         *)
GroupEmpty(c) ==
    /\ q[c].pc = "next"
    /\ q[c].at = Len(Group(c))
    /\ MergedRocks(q[c].items) = NoAnswer
    /\ LET err == q[c].lastErr \/ GroupErr(c)
       IN q' = IF q[c].group < Len(Groups)
               THEN [q EXCEPT ![c] = [q[c] EXCEPT !.pc = "load", !.group = @ + 1, !.at = 1,
                                                  !.items = Fresh.items, !.lastErr = err]]
               ELSE [q EXCEPT ![c] = [q[c] EXCEPT !.pc = IF err THEN "error" ELSE "none",
                                                  !.lastErr = err]]
    /\ UNCHANGED <<store, published, updates, queries, shared, own>>

GroupFinds(c) ==
    /\ q[c].pc = "next"
    /\ q[c].at = Len(Group(c))
    /\ MergedRocks(q[c].items) # NoAnswer
    /\ q' = [q EXCEPT ![c] = [q[c] EXCEPT !.pc = "found", !.answer = MergedRocks(q[c].items)]]
    /\ UNCHANGED <<store, published, updates, queries, shared, own>>

(* A server publishes, withdraws or breaks a variant of a manifest.        *)
Change(u) ==
    /\ u \in updates
    /\ updates' = updates \ {u}
    /\ store' = [store EXCEPT ![u[1]][u[2]] = u[3]]
    /\ published' = [published EXCEPT ![u[1]] = @ \cup {u[3]}]
    /\ UNCHANGED <<queries, shared, own, q>>

Init ==
    /\ \E s \in Sessions : store = s.store /\ updates = s.updates /\ queries = s.queries
    /\ published = [p \in Place |-> {store[p][k] : k \in DOMAIN Variants}]
    /\ shared = [k \in Place |-> Nothing]
    /\ own = [c \in Callers |-> [k \in Place |-> Nothing]]
    /\ q = [c \in Callers |-> Fresh]

Query(c) ==
    \/ Cached(c) \/ CachedShared(c) \/ Miss(c) \/ ProbeLoads(c) \/ ProbeFails(c)
    \/ Merge(c) \/ NextServer(c) \/ GroupEmpty(c) \/ GroupFinds(c)

Next ==
    \/ \E c \in Callers : Query(c) \/ \E ns \in Namespaces : \E f \in BOOLEAN : Start(c, ns, f)
    \/ \E u \in updates : Change(u)

(* A query is a loop of its caller and takes its next step: a GET has a     *)
(* timeout.                                                                 *)
Spec == Init /\ [][Next]_vars /\ \A c \in Callers : WF_vars(Query(c))

-----------------------------------------------------------------------------
(* Properties.                                                             *)

(* A cache holds, under a server and a namespace, only what that server     *)
(* published for that namespace.                                            *)
CacheHonest ==
    \A p \in Place : \A m \in {shared[p]} \cup {own[c][p] : c \in Callers} :
        m # Nothing => m \in published[p]

Offers(m, v) == v \notin Unparsable /\ Accepted(Offered[m][v]) # <<>>

Knows(c, s) == own[c][CacheKey(s, q[c].ns)] # Nothing

(* First found wins: of the servers whose manifest the index has, none that *)
(* comes before the group the answer is from has the rock.                  *)
FirstFoundWins ==
    \A c \in Callers : q[c].pc = "found" =>
        \A g \in 1..(q[c].group - 1) : \A k \in DOMAIN Groups[g] :
            LET s == Groups[g][k]
            IN s \notin q[c].failed =>
                  /\ Knows(c, s)
                  /\ \A v \in Versions : ~ Offers(own[c][CacheKey(s, q[c].ns)], v)

(* A dead or broken server hides no rock another server has, and a query    *)
(* ends in an error or with no rock only if every server it could load      *)
(* lacks the rock; "no rock" also says that every server was loaded.        *)
NoRockHidden ==
    \A c \in Callers : q[c].pc \in {"none", "error"} =>
        /\ \A s \in Servers \ q[c].failed :
              Knows(c, s) /\ \A v \in Versions : ~ Offers(own[c][CacheKey(s, q[c].ns)], v)
        /\ q[c].pc = "none" => q[c].failed = {}

(* Every query ends.                                                       *)
QueryEnds ==
    \A c \in Callers : (q[c].pc = "load") ~> (q[c].pc \in {"found", "none", "error"})
=============================================================================
