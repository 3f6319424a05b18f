--------------------------- MODULE UpstreamMerge ----------------------------
(***************************************************************************)
(* The platform overlays of a rockspec as upstream LuaRocks merges them,   *)
(* and the comparison with what PickNewest prepares.                       *)
(***************************************************************************)
EXTENDS PickNewest

(* What upstream LuaRocks does, for comparison: the overlays are merged     *)
(* into the Lua tables before anything is taken from them.                  *)

RECURSIVE DeepMerge(_, _)
DeepMerge(dst, src) ==
    LET over(old, new) == IF IsTable(old) /\ IsTable(new) THEN DeepMerge(old, new) ELSE new
        len == IF Len(src.seq) > Len(dst.seq) THEN Len(src.seq) ELSE Len(dst.seq)
    IN T([i \in 1..len |->
             IF i \notin DOMAIN src.seq THEN dst.seq[i]
             ELSE IF i \notin DOMAIN dst.seq THEN src.seq[i] ELSE over(dst.seq[i], src.seq[i])],
         [k \in DOMAIN dst.key \cup DOMAIN src.key |->
             IF k \notin DOMAIN src.key THEN dst.key[k]
             ELSE IF k \notin DOMAIN dst.key THEN src.key[k] ELSE over(dst.key[k], src.key[k])])

PlatformOverrides(t, plats) ==
    LET all == FoldLeft(LAMBDA acc, p : IF p \in Overlaid(t)
                                        THEN DeepMerge(acc, Overlay(t, p)) ELSE acc,
                        t, plats)
    IN T(all.seq, [k \in DOMAIN all.key \ {"platforms"} |-> all.key[k]])

Upstream(file, goos) ==
    LET g == file.globals
        merged == DepFields \cup {"build", "source", "external_dependencies"}
    IN Harvest(T(g.seq, [k \in DOMAIN g.key |->
                 IF k \in merged THEN PlatformOverrides(g.key[k], RuntimePlatformsFor(goos))
                                 ELSE g.key[k]]))

-----------------------------------------------------------------------------
(* What merging leaves out; the external dependencies are overwritten entry *)
(* by entry, where upstream merges their fields.                            *)
Compared(s) ==
    [s EXCEPT !.external = NoKeys,
              !.build.passes = [f \in PassFields |-> Nil],
              !.build.fields = [@ EXCEPT !["makefile"] = NoText]]

(* "mirroring upstream rockspecs.from_persisted_table": to harvest the      *)
(* overlays into structs and fold the structs, least specific platform      *)
(* first, gives the rockspec that upstream gets by merging Lua tables; only *)
(* makefile, build_pass, install_pass and external dependencies may differ. *)
MergedAsUpstream ==
    pc = "prepared" => Compared(spec) = Compared(Upstream(in.file, in.goos))
=============================================================================
