---------------------------- MODULE MCRemoteIndex ---------------------------
(***************************************************************************)
(* Servers for RemoteIndex: "dir" is a directory, "web" and "alt" are HTTP *)
(* servers.  A manifest is named after what it offers of the rock: "none"; *)
(* "spec", version 1 as a rockspec; "full", version 1 as a source rock, a  *)
(* rockspec and a rock for this host; "other", version 1 for another host; *)
(* "odd", a version that does not parse; "both", version 1 and that one.   *)
(***************************************************************************)
EXTENDS RemoteIndex

Six == {"none", "spec", "full", "other", "odd", "both"}

Arches(m, v) ==
    CASE m = "spec" /\ v = "1"           -> <<"rockspec">>
      [] m = "full" /\ v = "1"           -> <<"src", "linux", "rockspec">>
      [] m = "other" /\ v = "1"          -> <<"macosx">>
      [] m \in {"odd", "both"} /\ v = "x" -> <<"rockspec">>
      [] m = "both" /\ v = "1"           -> <<"rockspec", "src">>
      [] OTHER                           -> <<>>

Catalog == [m \in Manifests |-> [v \in Versions |-> Arches(m, v)]]

TwoVariants == <<"manifest-5.1", "manifest">>

Merged  == <<<<"web", "alt">>, <<"dir">>>>

Of(S, U, n1, n2) ==
    {[store |-> st, updates |-> U,
      queries |-> [c \in Callers |-> IF c = "c1" THEN n1 ELSE n2]] : st \in S}

OnlyBase(f) == [p \in Place |-> IF p[2] = "base" THEN f[p[1]] ELSE <<"none", "absent">>]

\* One query.  Anything in the first variant; the second is a manifest or is not there.
Falling ==
    {OnlyBase(f) : f \in [Servers -> {<<a, b>> : a \in Content, b \in {"absent", "full"}}]}

\* Two callers.  The base manifest of one server offers the rock, those of the
\* namespace do not; then the rock moves to another server.
Split == {OnlyBase([s \in Servers |-> <<IF s = "web" THEN "full" ELSE "none", "absent">>])}
Moves == {<<<<"web", "base">>, 1, "none">>, <<<<"dir", "base">>, 1, "spec">>}

All == Of(Falling, {}, 1, 0) \cup Of(Split, Moves, 2, 1)
=============================================================================
