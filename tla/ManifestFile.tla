---------------------------- MODULE ManifestFile ----------------------------
(***************************************************************************)
(* writeAtomic and the readers of the file it writes, the tree manifest or *)
(* a rock_manifest: create <file>.tmp, write it piece by piece, close it,  *)
(* rename it over the file.  Names and files are apart, as they are on     *)
(* disk: creating a name that exists empties its file, a rename moves the  *)
(* name, and whoever has a file open keeps reading or writing that file.   *)
(***************************************************************************)
EXTENDS Naturals, FiniteSets

CONSTANTS
    Writers,    \* clients that write the manifest
    Readers,    \* clients that read it
    Pieces,     \* write calls per manifest
    MaxWrites   \* bound: manifests written

ASSUME FileAssumption ==
    /\ Pieces \in Nat \ {0}
    /\ MaxWrites \in Nat

(* A file per write, at most; a manifest is identified by the write it is.  *)
Inodes == 1..MaxWrites
None   == 0

VARIABLES
    tmp, dst,   \* the file a name stands for, or None
    data,       \* file -> piece -> the write it is of, None if not written
    writes,     \* writes begun so far
    last,       \* the write renamed last
    w, r        \* writers and readers

vars == <<tmp, dst, data, writes, last, w, r>>

NoPieces == [k \in 1..Pieces |-> None]

Busy   == {c \in Writers : w[c].pc # "idle"}
Opened == {tmp, dst} \cup {w[c].fd : c \in Busy}
              \cup {r[c].fd : c \in {d \in Readers : r[d].pc = "read"}}
Unused == Inodes \ Opened

Halt(c) == w' = [w EXCEPT ![c] = [pc |-> "idle", fd |-> None, at |-> 1, gen |-> None]]

-----------------------------------------------------------------------------
(* os.Create of the tmp name.                                              *)
Create(c) ==
    LET f == IF tmp # None THEN tmp ELSE CHOOSE i \in Unused : TRUE
    IN /\ w[c].pc = "idle"
       /\ writes < MaxWrites
       /\ tmp # None \/ Unused # {}
       /\ writes' = writes + 1
       /\ tmp' = f
       /\ data' = [data EXCEPT ![f] = NoPieces]
       /\ w' = [w EXCEPT ![c] = [pc |-> "write", fd |-> f, at |-> 1, gen |-> writes + 1]]
       /\ UNCHANGED <<dst, last, r>>

(* One write call of the serializer.                                       *)
Write(c) ==
    /\ w[c].pc = "write"
    /\ w[c].at <= Pieces
    /\ data' = [data EXCEPT ![w[c].fd][w[c].at] = w[c].gen]
    /\ w' = [w EXCEPT ![c].at = @ + 1]
    /\ UNCHANGED <<tmp, dst, writes, last, r>>

Close(c) ==
    /\ w[c].pc = "write"
    /\ w[c].at > Pieces
    /\ w' = [w EXCEPT ![c].pc = "rename"]
    /\ UNCHANGED <<tmp, dst, data, writes, last, r>>

\* Mutant: the failed write is renamed all the same.
FailRenames(c) ==
    /\ w[c].pc \in {"write", "rename"}
    /\ tmp' = None
    /\ dst' = tmp
    /\ Halt(c)
    /\ UNCHANGED <<data, writes, last, r>>

(* The write, the close or the rename fails: the tmp name is removed.      *)
FailRemoves(c) ==
    /\ w[c].pc \in {"write", "rename"}
    /\ tmp' = None
    /\ Halt(c)
    /\ UNCHANGED <<dst, data, writes, last, r>>

(* os.Rename.  Without a tmp name it fails, which is FailRemoves.          *)
Rename(c) ==
    /\ w[c].pc = "rename"
    /\ tmp # None
    /\ dst' = tmp
    /\ tmp' = None
    /\ last' = w[c].gen
    /\ Halt(c)
    /\ UNCHANGED <<data, writes, r>>

(* The writer dies: its tmp file stays.                                    *)
Killed(c) ==
    /\ w[c].pc # "idle"
    /\ Halt(c)
    /\ UNCHANGED <<tmp, dst, data, writes, last, r>>

-----------------------------------------------------------------------------
(* ReadTree or ReadRock: os.ReadFile.  A file that is not there is an empty *)
(* manifest to readTreeManifest.                                            *)
Open(c) ==
    /\ r[c].pc \in {"idle", "done"}
    /\ r' = [r EXCEPT ![c] = [pc |-> IF dst = None THEN "idle" ELSE "read",
                              fd |-> dst, at |-> 1, got |-> NoPieces, floor |-> last]]
    /\ UNCHANGED <<tmp, dst, data, writes, last, w>>

\* Mutant: the file is looked up again for every piece.
ReadByName(c) ==
    /\ r[c].pc = "read"
    /\ r' = [r EXCEPT ![c].got[r[c].at] = data[dst][r[c].at],
                      ![c].at = IF r[c].at < Pieces THEN @ + 1 ELSE @,
                      ![c].pc = IF r[c].at < Pieces THEN "read" ELSE "done"]
    /\ UNCHANGED <<tmp, dst, data, writes, last, w>>

Read(c) ==
    /\ r[c].pc = "read"
    /\ r' = [r EXCEPT ![c] =
                 [r[c] EXCEPT !.got[r[c].at] = data[r[c].fd][r[c].at],
                              !.at = IF r[c].at < Pieces THEN @ + 1 ELSE @,
                              !.pc = IF r[c].at < Pieces THEN "read" ELSE "done"]]
    /\ UNCHANGED <<tmp, dst, data, writes, last, w>>

Init ==
    /\ tmp = None
    /\ dst = None
    /\ data = [i \in Inodes |-> NoPieces]
    /\ writes = 0
    /\ last = None
    /\ w = [c \in Writers |-> [pc |-> "idle", fd |-> None, at |-> 1, gen |-> None]]
    /\ r = [c \in Readers |-> [pc |-> "idle", fd |-> None, at |-> 1,
                               got |-> NoPieces, floor |-> None]]

Next ==
    \/ \E c \in Writers :
          Create(c) \/ Write(c) \/ Close(c) \/ FailRemoves(c) \/ Rename(c) \/ Killed(c)
    \/ \E c \in Readers : Open(c) \/ Read(c)

Spec == Init /\ [][Next]_vars

-----------------------------------------------------------------------------
(* Properties.                                                             *)

Whole(pieces, gen) == gen # None /\ \A k \in 1..Pieces : pieces[k] = gen

(* A reader gets one manifest, whole, however many writes, failed writes    *)
(* and deaths of writers overlap its reading; and none older than the one   *)
(* in place when it opened the file.                                        *)
ReadWhole ==
    \A c \in Readers : r[c].pc = "done" =>
        \E gen \in Inodes : gen >= r[c].floor /\ Whole(r[c].got, gen)

(* The manifest in place is the last one whose write succeeded: a failed or *)
(* killed write leaves it alone.                                            *)
LastWriteInPlace ==
    IF last = None THEN dst = None ELSE dst # None /\ Whole(data[dst], last)
=============================================================================
