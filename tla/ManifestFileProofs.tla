------------------------- MODULE ManifestFileProofs -------------------------
(***************************************************************************)
(* The write of a manifest is atomic to its readers, for manifests of any  *)
(* length, any number of readers and any number of writes that fail or are *)
(* killed, as long as there is one writer.                                 *)
(***************************************************************************)
EXTENDS ManifestFile, TLAPS

OneWriter == \A c, d \in Writers : c = d

FileId == Inodes \cup {None}
Piece  == 1..Pieces

WriterType == [pc : {"idle", "write", "rename"}, fd : FileId, at : Nat, gen : Nat]
ReaderType == [pc : {"idle", "read", "done"}, fd : FileId, at : Piece,
               got : [Piece -> Nat], floor : Nat]

FileTypeOK ==
    /\ tmp \in FileId
    /\ dst \in FileId
    /\ data \in [Inodes -> [Piece -> Nat]]
    /\ writes \in Nat
    /\ last \in Nat
    /\ w \in [Writers -> WriterType]
    /\ r \in [Readers -> ReaderType]

(* The two names stand for different files, and the file a writer writes is *)
(* the one the tmp name stands for.                                         *)
NamesApart == tmp # None => tmp # dst

WriterInv ==
    \A c \in Busy :
        /\ w[c].fd = tmp /\ tmp # None
        /\ w[c].gen \in Inodes /\ w[c].gen = writes
        /\ w[c].at \in 1..(Pieces + 1)
        /\ \A k \in Piece : k < w[c].at => data[tmp][k] = w[c].gen
        /\ w[c].pc = "rename" => w[c].at = Pieces + 1

(* The manifest in place is whole, and no older than the last one written.  *)
PlaceInv ==
    /\ last <= writes /\ writes <= MaxWrites
    /\ LastWriteInPlace

(* A reader's file is not the tmp file; it is whole, no older than what was *)
(* in place when it was opened, and what was read so far is of it.          *)
Reading(c) ==
    /\ r[c].fd # None
    /\ tmp # None => r[c].fd # tmp
    /\ \E gen \in Inodes :
          /\ gen >= r[c].floor
          /\ Whole(data[r[c].fd], gen)
          /\ \A k \in Piece : k < r[c].at => r[c].got[k] = gen

ReaderInv == \A c \in Readers : r[c].pc = "read" => Reading(c)

FileInv == FileTypeOK /\ NamesApart /\ WriterInv /\ PlaceInv /\ ReaderInv /\ ReadWhole

LEMMA InitInv == Init => FileInv
<1> USE FileAssumption DEF None, Inodes, Piece, FileId
<1>1. NoPieces \in [Piece -> Nat]
  BY DEF NoPieces
<1>2. 1 \in Piece
  OBVIOUS
<1> SUFFICES ASSUME Init
             PROVE  FileInv
  OBVIOUS
<1>3. FileTypeOK
  BY <1>1, <1>2 DEF Init, FileTypeOK, WriterType, ReaderType
<1>4. NamesApart /\ PlaceInv
  BY DEF Init, NamesApart, PlaceInv, LastWriteInPlace
<1>5. WriterInv /\ ReaderInv /\ ReadWhole
  BY DEF Init, WriterInv, Busy, ReaderInv, ReadWhole
<1> QED
  BY <1>3, <1>4, <1>5 DEF FileInv

-----------------------------------------------------------------------------
(* The writer's steps.                                                     *)

(* An os.Create gets a file nobody has open for reading, and not the one in *)
(* place: the stale tmp file of a killed writer, or an unused one.          *)
LEMMA CreateInv ==
    ASSUME FileInv, OneWriter, NEW c \in Writers, Create(c)
    PROVE  FileInv'
<1> USE FileAssumption DEF None, Inodes, Piece, FileId
<1> DEFINE f == IF tmp # None THEN tmp ELSE CHOOSE i \in Unused : TRUE
<1>1. /\ w[c].pc = "idle"
      /\ writes < MaxWrites
      /\ tmp # None \/ Unused # {}
      /\ writes' = writes + 1
      /\ tmp' = f
      /\ data' = [data EXCEPT ![f] = NoPieces]
      /\ w' = [w EXCEPT ![c] = [pc |-> "write", fd |-> f, at |-> 1, gen |-> writes + 1]]
      /\ UNCHANGED <<dst, last, r>>
  BY DEF Create
<1>2. FileTypeOK
  BY DEF FileInv
<1>3. /\ f \in Inodes
      /\ f # dst
      /\ \A d \in Readers : r[d].pc = "read" => r[d].fd # f
  <2>1. CASE tmp # None
    BY <2>1, <1>2 DEF FileInv, NamesApart, ReaderInv, Reading, FileTypeOK
  <2>2. CASE tmp = None
    <3>1. f \in Unused
      BY <1>1, <2>2
    <3> QED
      BY <3>1 DEF Unused, Opened
  <2> QED
    BY <2>1, <2>2
<1> HIDE DEF f
<1>4. NoPieces \in [Piece -> Nat]
  BY DEF NoPieces
<1>5. FileTypeOK'
  BY SMTT(20), <1>1, <1>2, <1>3, <1>4 DEF FileTypeOK, WriterType
<1>6. NamesApart'
  BY <1>1, <1>3 DEF NamesApart
<1>7. Busy' \subseteq {c}
  BY OneWriter DEF OneWriter, Busy
<1>8. WriterInv'
  <2>1. w'[c] = [pc |-> "write", fd |-> f, at |-> 1, gen |-> writes + 1]
    BY <1>1, <1>2 DEF FileTypeOK
  <2>2. writes + 1 \in Inodes
    BY <1>1, <1>2 DEF FileTypeOK
  <2>3. \A k \in Piece : ~ (k < 1)
    OBVIOUS
  <2> QED
    BY <1>1, <1>3, <1>7, <2>1, <2>2, <2>3 DEF WriterInv
<1>9. \A i \in Inodes : i # f => data'[i] = data[i]
  BY <1>1, <1>2 DEF FileTypeOK
<1>10. PlaceInv'
  BY <1>1, <1>2, <1>3, <1>9 DEF FileInv, FileTypeOK, PlaceInv, LastWriteInPlace, Whole
<1>11. ReaderInv'
  <2> SUFFICES ASSUME NEW d \in Readers, r[d].pc = "read"
               PROVE  Reading(d)'
    BY <1>1 DEF ReaderInv
  <2>1. Reading(d) /\ r[d].fd # f /\ r[d].fd \in Inodes
    BY <1>2, <1>3 DEF FileInv, ReaderInv, Reading, FileTypeOK, ReaderType
  <2>2. data'[r[d].fd] = data[r[d].fd]
    BY <1>9, <2>1
  <2> QED
    BY <1>1, <2>1, <2>2 DEF Reading, Whole
<1>12. ReadWhole'
  BY <1>1 DEF FileInv, ReadWhole, Whole
<1> QED
  BY <1>5, <1>6, <1>8, <1>10, <1>11, <1>12 DEF FileInv

(* A write goes to the tmp file, which is neither in place nor being read. *)
LEMMA WriteInv ==
    ASSUME FileInv, OneWriter, NEW c \in Writers, Write(c)
    PROVE  FileInv'
<1> USE FileAssumption DEF None, Inodes, Piece, FileId
<1>1. FileTypeOK
  BY DEF FileInv
<1>2. /\ c \in Busy
      /\ w[c].at \in Piece
      /\ tmp \in Inodes /\ tmp # dst
      /\ data' = [data EXCEPT ![tmp][w[c].at] = w[c].gen]
      /\ w' = [w EXCEPT ![c] = [w[c] EXCEPT !.at = w[c].at + 1]]
      /\ UNCHANGED <<tmp, dst, writes, last, r>>
  <2>1. c \in Busy
    BY DEF Write, Busy
  <2>2. /\ w[c].fd = tmp /\ tmp # None
        /\ w[c].at \in 1..(Pieces + 1)
    BY <2>1 DEF FileInv, WriterInv
  <2>3. tmp \in Inodes /\ tmp # dst
    BY <1>1, <2>2 DEF FileTypeOK, FileInv, NamesApart
  <2>4. w[c].at \in Piece
    BY <2>2 DEF Write
  <2> QED
    BY <2>1, <2>2, <2>3, <2>4 DEF Write
<1>3. w[c] \in WriterType
  BY <1>1 DEF FileTypeOK
<1>4. w'[c] = [w[c] EXCEPT !.at = w[c].at + 1]
  <2> DEFINE new == [w[c] EXCEPT !.at = w[c].at + 1]
  <2>1. w' = [w EXCEPT ![c] = new]
    BY <1>2
  <2> HIDE DEF new
  <2>2. w'[c] = new
    BY <1>1, <2>1, Zenon DEF FileTypeOK
  <2> QED
    BY <2>2 DEF new
<1>5. FileTypeOK'
  <2> DEFINE new == [w[c] EXCEPT !.at = w[c].at + 1]
  <2>1. new \in WriterType /\ w[c].gen \in Nat
    BY <1>3 DEF WriterType
  <2>2. w' = [w EXCEPT ![c] = new]
    BY <1>2
  <2> HIDE DEF new
  <2>3. w' \in [Writers -> WriterType]
    BY <1>1, <2>1, <2>2 DEF FileTypeOK
  <2>4. data' \in [Inodes -> [Piece -> Nat]]
    BY <1>1, <1>2, <2>1 DEF FileTypeOK
  <2> QED
    BY <1>1, <1>2, <2>3, <2>4 DEF FileTypeOK
<1>6. NamesApart'
  BY <1>2 DEF NamesApart
<1>7. Busy' \subseteq {c}
  BY DEF OneWriter, Busy
<1>8. WriterInv'
  <2>1. /\ w'[c].fd = w[c].fd /\ w'[c].gen = w[c].gen /\ w'[c].pc = "write"
        /\ w'[c].at = w[c].at + 1
    BY <1>3, <1>4 DEF WriterType, Write
  <2>2. /\ w[c].fd = tmp /\ tmp # None
        /\ w[c].gen \in Inodes /\ w[c].gen = writes
        /\ \A k \in Piece : k < w[c].at => data[tmp][k] = w[c].gen
    BY <1>2 DEF FileInv, WriterInv
  <2>3. \A k \in Piece : data'[tmp][k] = IF k = w[c].at THEN w[c].gen ELSE data[tmp][k]
    BY <1>1, <1>2 DEF FileTypeOK
  <2>4. \A k \in Piece : k < w[c].at + 1 => data'[tmp][k] = w[c].gen
    BY <1>2, <2>2, <2>3
  <2> QED
    BY <1>2, <1>7, <2>1, <2>2, <2>4 DEF WriterInv
<1>9. \A i \in Inodes : i # tmp => data'[i] = data[i]
  BY <1>1, <1>2 DEF FileTypeOK
<1>10. PlaceInv'
  BY <1>1, <1>2, <1>9 DEF FileInv, FileTypeOK, PlaceInv, LastWriteInPlace, Whole
<1>11. ReaderInv'
  <2> SUFFICES ASSUME NEW d \in Readers, r[d].pc = "read"
               PROVE  Reading(d)'
    BY <1>2 DEF ReaderInv
  <2>1. Reading(d) /\ r[d].fd # tmp /\ r[d].fd \in Inodes
    BY <1>1, <1>2 DEF FileInv, ReaderInv, Reading, FileTypeOK, ReaderType
  <2>2. data'[r[d].fd] = data[r[d].fd]
    BY <1>9, <2>1
  <2> QED
    BY <1>2, <2>1, <2>2 DEF Reading, Whole
<1>12. ReadWhole'
  BY <1>2 DEF FileInv, ReadWhole, Whole
<1> QED
  BY <1>5, <1>6, <1>8, <1>10, <1>11, <1>12 DEF FileInv

LEMMA CloseInv ==
    ASSUME FileInv, OneWriter, NEW c \in Writers, Close(c)
    PROVE  FileInv'
<1> USE FileAssumption DEF None, Inodes, Piece, FileId
<1>1. FileTypeOK /\ w[c] \in WriterType
  BY DEF FileInv, FileTypeOK
<1>2. /\ c \in Busy
      /\ w[c].at = Pieces + 1
      /\ w' = [w EXCEPT ![c] = [w[c] EXCEPT !.pc = "rename"]]
      /\ UNCHANGED <<tmp, dst, data, writes, last, r>>
  <2>1. c \in Busy
    BY DEF Close, Busy
  <2>2. w[c].at \in 1..(Pieces + 1)
    BY <2>1 DEF FileInv, WriterInv
  <2> QED
    BY <2>1, <2>2 DEF Close
<1>3. w'[c] = [w[c] EXCEPT !.pc = "rename"]
  BY <1>1, <1>2, Zenon DEF FileTypeOK
<1>4. FileTypeOK'
  BY <1>1, <1>2 DEF FileTypeOK, WriterType
<1>5. Busy' \subseteq {c}
  BY DEF OneWriter, Busy
<1>6. WriterInv'
  <2>1. /\ w'[c].fd = w[c].fd /\ w'[c].gen = w[c].gen /\ w'[c].at = w[c].at
    BY <1>1, <1>3 DEF WriterType
  <2> QED
    BY <1>2, <1>5, <2>1 DEF FileInv, WriterInv
<1>7. NamesApart' /\ PlaceInv' /\ ReaderInv' /\ ReadWhole'
  BY <1>2 DEF FileInv, NamesApart, PlaceInv, LastWriteInPlace, ReaderInv, Reading, ReadWhole,
              Whole
<1> QED
  BY <1>4, <1>6, <1>7 DEF FileInv

(* A writer that stops leaves the names, or takes the tmp name away.       *)
LEMMA HaltInv ==
    ASSUME FileInv, OneWriter, NEW c \in Writers, Halt(c), tmp' \in {tmp, None},
           UNCHANGED <<dst, data, writes, last, r>>
    PROVE  FileInv'
<1> USE DEF None, FileId
<1>1. FileTypeOK
  BY DEF FileInv
<1>2. FileTypeOK'
  BY <1>1 DEF FileTypeOK, Halt, WriterType
<1>3. w'[c].pc = "idle"
  BY <1>1 DEF Halt, FileTypeOK
<1>4. WriterInv'
  BY <1>3 DEF WriterInv, Busy, OneWriter
<1>5. NamesApart' /\ PlaceInv' /\ ReadWhole'
  BY DEF FileInv, NamesApart, PlaceInv, LastWriteInPlace, ReadWhole, Whole
<1>6. ReaderInv'
  BY DEF FileInv, ReaderInv, Reading, Whole
<1> QED
  BY <1>2, <1>4, <1>5, <1>6 DEF FileInv

(* The rename puts a complete file in place, and nobody writes to it after. *)
LEMMA RenameInv ==
    ASSUME FileInv, OneWriter, NEW c \in Writers, Rename(c)
    PROVE  FileInv'
<1> USE FileAssumption DEF None, Inodes, Piece, FileId
<1>1. FileTypeOK
  BY DEF FileInv
<1>2. /\ tmp # None /\ tmp \in Inodes
      /\ dst' = tmp /\ tmp' = None /\ last' = w[c].gen
      /\ UNCHANGED <<data, writes, r>>
      /\ Halt(c)
  BY <1>1 DEF Rename, FileTypeOK
<1>3. /\ w[c].gen \in Inodes /\ w[c].gen = writes
      /\ Whole(data[tmp], w[c].gen)
  <2>1. c \in Busy /\ w[c].pc = "rename"
    BY DEF Rename, Busy
  <2>2. /\ w[c].gen \in Inodes /\ w[c].gen = writes
        /\ w[c].at = Pieces + 1
        /\ \A k \in Piece : k < w[c].at => data[tmp][k] = w[c].gen
    BY <2>1 DEF FileInv, WriterInv
  <2>3. \A k \in Piece : data[tmp][k] = w[c].gen
    BY <2>2
  <2> QED
    BY <2>2, <2>3 DEF Whole
<1>4. FileTypeOK'
  BY <1>1, <1>2, <1>3 DEF FileTypeOK, Halt, WriterType
<1>5. w'[c].pc = "idle"
  BY <1>1, <1>2 DEF Halt, FileTypeOK
<1>6. WriterInv' /\ NamesApart'
  BY <1>2, <1>5 DEF WriterInv, Busy, OneWriter, NamesApart
<1>7. PlaceInv'
  BY <1>1, <1>2, <1>3 DEF FileInv, PlaceInv, LastWriteInPlace, Whole, FileTypeOK
<1>8. ReaderInv' /\ ReadWhole'
  BY <1>2 DEF FileInv, ReaderInv, Reading, ReadWhole, Whole
<1> QED
  BY <1>4, <1>6, <1>7, <1>8 DEF FileInv

-----------------------------------------------------------------------------
(* The readers' steps.                                                     *)

LEMMA OpenInv ==
    ASSUME FileInv, NEW c \in Readers, Open(c)
    PROVE  FileInv'
<1> USE FileAssumption DEF None, Inodes, Piece, FileId
<1> DEFINE new == [pc |-> IF dst = None THEN "idle" ELSE "read",
                   fd |-> dst, at |-> 1, got |-> NoPieces, floor |-> last]
<1>1. FileTypeOK
  BY DEF FileInv
<1>2. r' = [r EXCEPT ![c] = new] /\ UNCHANGED <<tmp, dst, data, writes, last, w>>
  BY DEF Open
<1>3. new \in ReaderType
  BY <1>1 DEF ReaderType, FileTypeOK, NoPieces
<1>4. r'[c] = new /\ \A d \in Readers : d # c => r'[d] = r[d]
  BY <1>1, <1>2, Zenon DEF FileTypeOK
<1>5. FileTypeOK'
  BY <1>1, <1>2, <1>3 DEF FileTypeOK
<1>6. NamesApart' /\ WriterInv' /\ PlaceInv'
  BY <1>2 DEF FileInv, NamesApart, WriterInv, Busy, PlaceInv, LastWriteInPlace, Whole
<1>7. dst # None => /\ last \in Inodes
                    /\ Whole(data[dst], last)
                    /\ tmp # None => tmp # dst
  BY <1>1 DEF FileInv, PlaceInv, LastWriteInPlace, NamesApart, FileTypeOK
<1>8. ReaderInv'
  <2>1. CASE dst = None
    BY <1>2, <1>4, <2>1 DEF FileInv, ReaderInv, Reading, Whole
  <2>2. CASE dst # None
    <3>1. Reading(c)'
      BY <1>1, <1>2, <1>4, <1>7, <2>2 DEF Reading, Whole, FileTypeOK
    <3> QED
      BY <1>2, <1>4, <3>1 DEF FileInv, ReaderInv, Reading, Whole
  <2> QED
    BY <2>1, <2>2
<1>9. ReadWhole'
  BY <1>4 DEF FileInv, ReadWhole, Whole
<1> QED
  BY <1>5, <1>6, <1>8, <1>9 DEF FileInv

LEMMA ReadInv ==
    ASSUME FileInv, NEW c \in Readers, Read(c)
    PROVE  FileInv'
<1> USE FileAssumption DEF None, Inodes, Piece, FileId
<1> DEFINE at == r[c].at
           new == [r[c] EXCEPT !.got = [r[c].got EXCEPT ![at] = data[r[c].fd][at]],
                               !.at = IF at < Pieces THEN at + 1 ELSE at,
                               !.pc = IF at < Pieces THEN "read" ELSE "done"]
<1>1. FileTypeOK /\ r[c] \in ReaderType /\ r[c].pc = "read" /\ Reading(c)
  BY DEF FileInv, FileTypeOK, Read, ReaderInv
<1>2. r' = [r EXCEPT ![c] = new] /\ UNCHANGED <<tmp, dst, data, writes, last, w>>
  BY DEF Read
<1>3. /\ new.pc = (IF at < Pieces THEN "read" ELSE "done")
      /\ new.at = (IF at < Pieces THEN at + 1 ELSE at)
      /\ new.got = [r[c].got EXCEPT ![at] = data[r[c].fd][at]]
      /\ new.fd = r[c].fd /\ new.floor = r[c].floor
  BY <1>1 DEF ReaderType
<1>4. r[c].fd \in Inodes /\ data[r[c].fd][at] \in Nat /\ at \in Piece
  BY <1>1 DEF FileTypeOK, ReaderType, Reading
<1>5. new \in ReaderType
  <2>1. r[c].got \in [Piece -> Nat] /\ r[c].fd \in FileId /\ r[c].floor \in Nat
    BY <1>1 DEF ReaderType
  <2>2. [r[c].got EXCEPT ![at] = data[r[c].fd][at]] \in [Piece -> Nat]
    BY <1>4, <2>1
  <2>3. (IF at < Pieces THEN at + 1 ELSE at) \in Piece
    BY <1>4
  <2>4. ASSUME NEW got \in [Piece -> Nat], NEW k \in Piece, NEW pc \in {"read", "done"}
        PROVE  [r[c] EXCEPT !.got = got, !.at = k, !.pc = pc] \in ReaderType
    BY <1>1 DEF ReaderType
  <2> QED
    BY <2>2, <2>3, <2>4
<1>6. r'[c] = new /\ \A d \in Readers : d # c => r'[d] = r[d]
  BY <1>1, <1>2, Zenon DEF FileTypeOK
<1> HIDE DEF new
<1>7. FileTypeOK'
  BY <1>1, <1>2, <1>5 DEF FileTypeOK
<1>8. NamesApart' /\ WriterInv' /\ PlaceInv'
  BY <1>2 DEF FileInv, NamesApart, WriterInv, Busy, PlaceInv, LastWriteInPlace, Whole
<1>9. PICK gen \in Inodes :
         /\ gen >= r[c].floor
         /\ Whole(data[r[c].fd], gen)
         /\ \A k \in Piece : k < at => r[c].got[k] = gen
  BY <1>1 DEF Reading
<1>10. \A k \in Piece : k <= at => new.got[k] = gen
  BY SMTT(20), <1>1, <1>3, <1>4, <1>9 DEF Whole, ReaderType
<1>11. new.pc = "read" => Reading(c)'
  <2> SUFFICES ASSUME new.pc = "read"
               PROVE  Reading(c)'
    OBVIOUS
  <2>1. at < Pieces /\ new.at = at + 1
    BY <1>3
  <2>2. \A k \in Piece : k < new.at => new.got[k] = gen
    BY <1>4, <1>10, <2>1
  <2>3. r[c].fd # None /\ (tmp # None => r[c].fd # tmp)
    BY <1>1 DEF Reading
  <2> QED
    BY ZenonT(40), <1>2, <1>3, <1>6, <1>9, <2>2, <2>3 DEF Reading
<1>12. ReaderInv'
  BY <1>2, <1>6, <1>11 DEF FileInv, ReaderInv, Reading, Whole
<1>13. new.pc = "done" => Whole(new.got, gen) /\ gen >= new.floor
  <2> SUFFICES ASSUME new.pc = "done"
               PROVE  Whole(new.got, gen) /\ gen >= new.floor
    OBVIOUS
  <2>1. \A k \in Piece : k <= at
    BY <1>3, <1>4
  <2> QED
    BY <1>3, <1>9, <1>10, <2>1 DEF Whole
<1>14. ReadWhole'
  BY <1>6, <1>13 DEF FileInv, ReadWhole
<1> QED
  BY <1>7, <1>8, <1>12, <1>14 DEF FileInv

-----------------------------------------------------------------------------
LEMMA StepInv == ASSUME OneWriter PROVE FileInv /\ [Next]_vars => FileInv'
<1> SUFFICES ASSUME FileInv, [Next]_vars
             PROVE  FileInv'
  OBVIOUS
<1>1. ASSUME NEW c \in Writers, FailRemoves(c)
      PROVE  FileInv'
  BY <1>1, HaltInv DEF FailRemoves
<1>2. ASSUME NEW c \in Writers, Killed(c)
      PROVE  FileInv'
  BY <1>2, HaltInv DEF Killed
<1>3. CASE UNCHANGED vars
  BY <1>3 DEF vars, FileInv, FileTypeOK, NamesApart, WriterInv, Busy, PlaceInv,
              LastWriteInPlace, ReaderInv, Reading, ReadWhole, Whole
<1> QED
  BY <1>1, <1>2, <1>3, CreateInv, WriteInv, CloseInv, RenameInv, OpenInv, ReadInv DEF Next

(* Whatever a writer does or fails to do meanwhile, os.ReadFile of the      *)
(* manifest returns one whole manifest, and none older than the one in      *)
(* place when the reading began: writeAtomic with one writer.               *)
THEOREM ReadersSeeWhole == ASSUME OneWriter PROVE Spec => []ReadWhole
<1>1. FileInv => ReadWhole
  BY DEF FileInv
<1> QED
  BY <1>1, InitInv, StepInv, PTL DEF Spec

(* A write that fails or is killed at any step leaves the manifest of the   *)
(* last completed write in place.                                           *)
THEOREM LastWriteStays == ASSUME OneWriter PROVE Spec => []LastWriteInPlace
<1>1. FileInv => LastWriteInPlace
  BY DEF FileInv, PlaceInv
<1> QED
  BY <1>1, InitInv, StepInv, PTL DEF Spec
=============================================================================
