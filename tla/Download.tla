------------------------------ MODULE Download ------------------------------
(***************************************************************************)
(* Download: of the rows a search finds it saves the best one, or all of   *)
(* them, in the working directory.  An artifact of an HTTP server is       *)
(* written to a .part file and renamed; one of a local server is copied    *)
(* over the file of that name.  Calls that run at the same time share the  *)
(* working directory.                                                      *)
(*                                                                         *)
(* A file's content is Pieces pieces, each of the server it came from, or  *)
(* a hole.                                                                 *)
(***************************************************************************)
EXTENDS Search

CONSTANTS
    Pieces,   \* an artifact is written in this many steps
    Inodes    \* identities of files, enough for every file that is created

ASSUME DownloadAssumption == Pieces \in Nat \ {0} /\ Inodes \subseteq Nat \ {0}

VARIABLES
    dir,      \* file there is -> its inode
    part,     \* file there is a .part file of -> the inode of that
    content,  \* inode -> piece -> <<server>>, or Hole
    save,     \* caller -> the saving in progress
    shaken    \* names two transfers were writing at once, or a copy wrote

vars == <<searchVars, dir, part, content, save, shaken>>

files == <<dir, part, content, shaken>>

Hole  == <<>>
Empty == [p \in 1..Pieces |-> Hole]

(* The base name of a row's URL.                                           *)
File(r) == <<r.name, r.version, r.arch>>

NotSaving == [pc |-> "none", todo |-> <<>>, at |-> 1, inode |-> 0, piece |-> 1,
              failures |-> 0, before |-> {}, returned |-> <<>>, alone |-> TRUE]

R(c) == save[c].todo[save[c].at]

Busy(c) == save[c].pc \in {"save", "write", "close"}

-----------------------------------------------------------------------------
(* What to save.                                                           *)

(* downloadArch: the three flags exclude each other.                       *)
Flags(call) ==
    {f \in {<<"source", "src">>, <<"rockspec", "rockspec">>, <<"arch", call.arch>>} :
        CASE f[1] = "source" -> call.source
          [] f[1] = "rockspec" -> call.rockspec
          [] f[1] = "arch" -> call.arch # NoName}

DownloadArch(call) == {f[2] : f \in Flags(call)}

BadDownload(call) ==
    \/ Cardinality(Flags(call)) > 1
    \/ call.arg = EmptyArg /\ ~ call.all
    \/ ~ world.workingDir
    \/ ~ call.version.parses
    \/ SearchServers(call) = <<>>

RejectDownload(c) ==
    /\ Call(c).what = "download"
    /\ walk[c].pc = "idle"
    /\ BadDownload(Call(c))
    /\ Refuse(c)
    /\ UNCHANGED <<world, luajit, files, save>>

DownloadQuery(call) ==
    Query(call, call.all /\ SplitNamespacedName(call.arg)[1] = NoName, DownloadArch(call), {})

(* One rock: not one that the VM provides.                                 *)
StartOne(c) ==
    /\ Call(c).what = "download"
    /\ walk[c].pc = "idle"
    /\ ~ BadDownload(Call(c))
    /\ ~ Call(c).all
    /\ \E jit \in {"known", "none"} :
          /\ Probe(jit)
          /\ IF DownloadQuery(Call(c)).name \in RocksProvided(jit)
             THEN Refuse(c) ELSE BeginWalk(c, DownloadQuery(Call(c)))
    /\ UNCHANGED <<world, files, save>>

StartAll(c) ==
    /\ Call(c).what = "download"
    /\ walk[c].pc = "idle"
    /\ ~ BadDownload(Call(c))
    /\ Call(c).all
    /\ BeginWalk(c, DownloadQuery(Call(c)))
    /\ UNCHANGED <<world, luajit, files, save>>

\* Mutant: the first row of the best version.
PickFirst(rows) ==
    LET best[k \in 1..Len(rows)] ==
            IF k = 1 THEN 1
            ELSE LET b == best[k - 1]
                 IN IF Compare(Strings[rows[k].version].version,
                               Strings[rows[b].version].version) > 0 THEN k ELSE b
    IN rows[best[Len(rows)]]

(* pickLatestVersion: the first of the highest versions, then of its rows   *)
(* the last binary one, else a source rock before a rockspec.               *)
PickLatestVersion(rows) ==
    LET best[k \in 1..Len(rows)] ==
            IF k = 1 THEN rows[1].version
            ELSE LET b == best[k - 1]
                 IN IF Compare(Strings[rows[k].version].version, Strings[b].version) > 0
                    THEN rows[k].version ELSE b
        of == SelectSeq(rows, LAMBDA r : r.version = best[Len(rows)])
        wins(a, b) == \/ a.arch = "src" /\ b.arch = "rockspec"
                      \/ a.arch \notin {"src", "rockspec"}
        pick[k \in 1..Len(of)] ==
            IF k = 1 THEN of[1] ELSE IF wins(of[k], pick[k - 1]) THEN of[k] ELSE pick[k - 1]
    IN pick[Len(of)]

SaveNothing(c) ==
    /\ walk' = [walk EXCEPT ![c].pc = "error"]
    /\ UNCHANGED save

(* downloadOne, with the rows at hand.                                     *)
ChooseOne(c) ==
    /\ Call(c).what = "download" /\ ~ Call(c).all
    /\ walk[c].pc = "walked"
    /\ LET rows == walk[c].found
       IN IF rows = <<>> \/ \E k \in DOMAIN rows : rows[k].name # rows[1].name
          THEN SaveNothing(c)
          ELSE /\ save' = [save EXCEPT ![c] = [NotSaving EXCEPT
                                !.pc = "save", !.todo = <<PickLatestVersion(rows)>>]]
               /\ walk' = [walk EXCEPT ![c].pc = "done"]
    /\ UNCHANGED <<world, luajit, files>>

(* dirFiles: the regular files, a .part file included.                     *)
DirFiles == {<<"file", f>> : f \in DOMAIN dir} \cup {<<"part", f>> : f \in DOMAIN part}

(* downloadAll: every row but the installed ones, after a look at the       *)
(* directory.                                                               *)
ChooseAll(c) ==
    /\ Call(c).what = "download" /\ Call(c).all
    /\ walk[c].pc = "walked"
    /\ LET found == walk[c].found
           rows  == Joined([k \in DOMAIN found |->
                        IF found[k].arch = "installed" THEN <<>> ELSE <<found[k]>>])
       IN IF rows = <<>> THEN SaveNothing(c)
          ELSE /\ save' = [save EXCEPT ![c] = [NotSaving EXCEPT
                                !.pc = "save", !.todo = rows, !.before = DirFiles,
                                !.alone = \A d \in Callers : ~ Busy(d)]]
               /\ walk' = [walk EXCEPT ![c].pc = "done"]
    /\ UNCHANGED <<world, luajit, files>>

-----------------------------------------------------------------------------
(* fetch.File.                                                             *)

Http(c) == ~ world.servers[R(c).server].local

(* No other call is alone while this one writes.                           *)
Seen(c, s) ==
    [d \in Callers |-> IF d # c /\ (Busy(d) \/ save[d].pc = "last")
                       THEN [s[d] EXCEPT !.alone = FALSE] ELSE s[d]]

Unused == Inodes \ ({dir[f] : f \in DOMAIN dir} \cup {part[f] : f \in DOMAIN part}
                        \cup {save[c].inode : c \in Callers})

(* The inode of a file that is opened to be rewritten.                     *)
InodeOf(d, f) == IF f \in DOMAIN d THEN d[f] ELSE CHOOSE i \in Unused : TRUE

(* Bound: a new file needs an inode.                                       *)
CanOpen(d, f) == f \in DOMAIN d \/ Unused # {}

Without(d, f) == [g \in DOMAIN d \ {f} |-> d[g]]
With(d, f, i) == [g \in DOMAIN d \cup {f} |-> IF g = f THEN i ELSE d[g]]

Open(c, inode) ==
    /\ content' = [content EXCEPT ![inode] = Empty]
    /\ save' = Seen(c, [save EXCEPT ![c].pc = "write", ![c].inode = inode, ![c].piece = 1])

Writers(f) == {c \in Callers : save[c].pc \in {"write", "close"} /\ File(R(c)) = f}

\* Mutant: the body is written under the final name.
CreateInPlace(c) ==
    LET f == File(R(c))
        i == InodeOf(dir, f)
    IN /\ save[c].pc = "save"
       /\ Http(c)
       /\ CanOpen(dir, f)
       /\ dir' = With(dir, f, i)
       /\ part' = With(part, f, i)
       /\ Open(c, i)
       /\ shaken' = IF Writers(f) # {} THEN shaken \cup {f} ELSE shaken
       /\ UNCHANGED searchVars

(* httpDownload creates the .part file, or truncates the one that is there. *)
CreatePart(c) ==
    LET f == File(R(c))
        i == InodeOf(part, f)
    IN /\ save[c].pc = "save"
       /\ Http(c)
       /\ CanOpen(part, f)
       /\ part' = With(part, f, i)
       /\ Open(c, i)
       /\ shaken' = IF Writers(f) # {} THEN shaken \cup {f} ELSE shaken
       /\ UNCHANGED <<searchVars, dir>>

(* copyFileInto truncates the file itself.                                 *)
CreateCopy(c) ==
    LET f == File(R(c))
        i == InodeOf(dir, f)
    IN /\ save[c].pc = "save"
       /\ ~ Http(c)
       /\ CanOpen(dir, f)
       /\ dir' = With(dir, f, i)
       /\ Open(c, i)
       /\ shaken' = shaken \cup {f}
       /\ UNCHANGED <<searchVars, part>>

WritePiece(c) ==
    /\ save[c].pc = "write"
    /\ content' = [content EXCEPT ![save[c].inode][save[c].piece] = <<R(c).server>>]
    /\ save' = [save EXCEPT ![c].piece = @ + 1,
                            ![c].pc = IF save[c].piece < Pieces THEN "write" ELSE "close"]
    /\ UNCHANGED <<searchVars, dir, part, shaken>>

(* After a row: the next one, or the end.                                  *)
Step(c, failures) ==
    Seen(c, [save EXCEPT ![c].at = @ + 1, ![c].failures = failures, ![c].inode = 0,
                         ![c].pc = IF save[c].at < Len(save[c].todo) THEN "save" ELSE "last"])

(* The rename: what is under the .part name now takes the file's.          *)
Rename(c) ==
    LET f == File(R(c))
    IN /\ save[c].pc = "close"
       /\ Http(c)
       /\ f \in DOMAIN part
       /\ dir' = With(dir, f, part[f])
       /\ part' = Without(part, f)
       /\ save' = Step(c, save[c].failures)
       /\ UNCHANGED <<searchVars, content, shaken>>

EndCopy(c) ==
    /\ save[c].pc = "close"
    /\ ~ Http(c)
    /\ save' = Step(c, save[c].failures)
    /\ UNCHANGED <<searchVars, files>>

\* Mutant: a failure ends the call without an error.
SaveGivesUp(c) ==
    /\ save[c].pc \in {"save", "write", "close"}
    /\ save' = Seen(c, [save EXCEPT ![c].at = Len(save[c].todo) + 1, ![c].pc = "last",
                                    ![c].inode = 0])
    /\ part' = IF Http(c) /\ save[c].pc # "save" THEN Without(part, File(R(c))) ELSE part
    /\ UNCHANGED <<searchVars, dir, content, shaken>>

(* A request, a copy or a rename fails: the .part file is removed.  A       *)
(* rename fails if another call took the file.                              *)
SaveFails(c) ==
    /\ save[c].pc \in {"save", "write", "close"}
    /\ save' = Step(c, save[c].failures + 1)
    /\ part' = IF Http(c) /\ save[c].pc # "save" THEN Without(part, File(R(c))) ELSE part
    /\ UNCHANGED <<searchVars, dir, content, shaken>>

(* The call ends: an error if a file failed; else the path, with All that   *)
(* of the one file that is new or the directory.                            *)
ReturnDownload(c) ==
    LET added == DirFiles \ save[c].before
        ok    == save[c].failures = 0
    IN /\ save[c].pc = "last"
       /\ save' = [save EXCEPT
             ![c].pc = IF ok THEN "done" ELSE "error",
             ![c].returned =
                IF ~ ok THEN <<>>
                ELSE IF ~ Call(c).all THEN <<"file", File(save[c].todo[1])>>
                ELSE IF Cardinality(added) = 1 THEN CHOOSE a \in added : TRUE
                ELSE <<"dir">>]
       /\ UNCHANGED <<searchVars, files>>

(* The process of a caller dies.                                           *)
Killed(c) ==
    /\ Busy(c)
    /\ save' = [save EXCEPT ![c].pc = "killed", ![c].inode = 0]
    /\ UNCHANGED <<searchVars, files>>

Init ==
    /\ SearchInit
    /\ dir = <<>>
    /\ part = <<>>
    /\ content = [i \in Inodes |-> Empty]
    /\ save = [c \in Callers |-> NotSaving]
    /\ shaken = {}

Next ==
    \E c \in Callers :
        \/ SearchStep(c) /\ UNCHANGED <<files, save>>
        \/ RejectDownload(c) \/ StartOne(c) \/ StartAll(c) \/ ChooseOne(c) \/ ChooseAll(c)
        \/ CreatePart(c) \/ CreateCopy(c) \/ WritePiece(c) \/ Rename(c) \/ EndCopy(c)
        \/ SaveFails(c) \/ ReturnDownload(c) \/ Killed(c)

Spec == Init /\ [][Next]_vars

-----------------------------------------------------------------------------
(* Properties.                                                             *)

(* pickMergedItem and pickNewest: what Install takes from the rows of one    *)
(* server.                                                                   *)
InstallPick(mf, name, cs) ==
    LET offered(v) == SelectSeq(Arches(mf, name, v), LAMBDA a : a \in AcceptedArchSet({}))
        vers == SelectSeq([v \in DOMAIN Strings |-> v],
                    LAMBDA v : /\ offered(v) # <<>> /\ Strings[v].parses
                               /\ Match(Strings[v].version, cs))
        best[k \in 1..Len(vers)] ==
            IF k = 1 THEN vers[1]
            ELSE IF Compare(Strings[vers[k]].version, Strings[best[k - 1]].version) > 0
                 THEN vers[k] ELSE best[k - 1]
        items == offered(best[Len(vers)])
        wins(a, b) == (a = "src" /\ b = "rockspec") \/ a \notin {"src", "rockspec"}
        pick[k \in 1..Len(items)] ==
            IF k = 1 THEN items[1]
            ELSE IF wins(items[k], pick[k - 1]) THEN items[k] ELSE pick[k - 1]
    IN <<best[Len(vers)], pick[Len(items)]>>

(* With one server, Download saves the very artifact Install would use.    *)
DownloadsWhatInstallUses ==
    \A c \in Callers :
        /\ save[c].pc = "save" /\ ~ Call(c).all
        /\ Len(walk[c].servers) = 1
        /\ DownloadArch(Call(c)) = {}
        => LET pick == save[c].todo[1]
               mf   == ManifestOf(walk[c].servers[1], walk[c].q)
           IN InstallPick(mf, walk[c].q.name, walk[c].q.cs) = <<pick.version, pick.arch>>

Whole(inode) ==
    \A p \in 1..Pieces : content[inode][p] # Hole /\ content[inode][p] = content[inode][1]

(* A transfer that fails or is killed leaves no truncated artifact under    *)
(* its name, and none of two servers, whatever .part files earlier ones     *)
(* left; only transfers of the same name that overlap, and copies, may.     *)
SavedWhole == \A f \in DOMAIN dir \ shaken : Whole(dir[f])

(* A call that was alone in the directory and reports a file reports one    *)
(* of its own; and one without an error has saved every row.                *)
ReportIsTrue ==
    \A c \in Callers : save[c].pc = "done" /\ save[c].alone =>
        /\ Len(save[c].returned) = 2 =>
              \E k \in DOMAIN save[c].todo : save[c].returned = <<"file", File(save[c].todo[k])>>
        /\ \A k \in DOMAIN save[c].todo : File(save[c].todo[k]) \in DOMAIN dir
=============================================================================
