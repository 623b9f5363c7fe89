---------------------------- MODULE DrivesProofs ----------------------------
(***************************************************************************)
(* Proofs about Drives, for every set of drives and image files, of any    *)
(* kind: the members of a drive agree with each other, with what the host  *)
(* knows and with the list of reserved files, a locked medium stays in the *)
(* drive, and detaching a ready drive saves what was written to it.        *)
(***************************************************************************)
EXTENDS Drives, TLAPS

(* The types of the parts of the operations. *)

\* A drive of a newly created device.
LEMMA NewDriveType ==
  ASSUME NEW d \in Drive
  PROVE  NewDrive(d) \in DriveRecord
BY DEF NewDrive, DriveRecord, Maybe, CachingMode

\* SetProtected() touches no other member.
LEMMA SetProtectedType ==
  ASSUME NEW r \in DriveRecord, NEW p \in BOOLEAN
  PROVE  /\ SetProtected(r, p) \in DriveRecord
         /\ SetProtected(r, p) = [r EXCEPT !.protected = SetProtected(r, p).protected]
<1> DEFINE q == IF r.protected # p /\ r.protectable /\ ~r.readOnly THEN p ELSE r.protected
<1>1. q \in BOOLEAN /\ SetProtected(r, p) = [r EXCEPT !.protected = q]
  BY DEF SetProtected, DriveRecord
<1>2. QED
  BY <1>1 DEF DriveRecord

\* A drive with an opened image file is a drive.
LEMMA OpenedType ==
  ASSUME NEW r \in DriveRecord, NEW d \in Drive, NEW f \in File
  PROVE  Opened(r, d, f) \in DriveRecord
<1> DEFINE ro == r.readOnly \/ f \in ReadOnlyFile
           pr == r.protectable /\ f \notin ReadOnlyFile
           at == r.attn \/ Kind[d] \in {"mo", "cd"}
<1>1. ro \in BOOLEAN /\ pr \in BOOLEAN /\ at \in BOOLEAN /\ f \in Maybe
  BY DEF Maybe
<1> DEFINE q == [r EXCEPT !.filename = f, !.medium = f, !.dirty = FALSE, !.ready = TRUE,
                          !.stopped = FALSE, !.removed = FALSE, !.locked = FALSE]
<1>2. q \in DriveRecord
  BY <1>1 DEF DriveRecord
<1>3. Opened(r, d, f) = [q EXCEPT !.readOnly = ro, !.protectable = pr, !.attn = at]
  BY DEF Opened, DriveRecord
<1> HIDE DEF ro, pr, at, q
<1>4. QED
  BY <1>1, <1>2, <1>3 DEF DriveRecord

\* A drive with a flushed cache is a drive.
LEMMA FlushedType ==
  ASSUME NEW r \in DriveRecord
  PROVE  Flushed(r) \in DriveRecord
BY DEF Flushed, DriveRecord

\* A drive without its medium is a drive.
LEMMA EjectedType ==
  ASSUME NEW r \in DriveRecord
  PROVE  Ejected(r) \in DriveRecord
<1> DEFINE e == [r EXCEPT !.ready = FALSE, !.attn = FALSE, !.removed = TRUE,
                          !.protected = FALSE, !.locked = FALSE, !.stopped = TRUE]
<1>1. Flushed(e) \in DriveRecord
  <2>1. e \in DriveRecord
    BY DEF DriveRecord
  <2>2. QED
    BY <2>1, FlushedType
<1>2. Ejected(r) = [Flushed(e) EXCEPT !.last = r.filename, !.filename = NoFile,
                                      !.medium = NoFile, !.dirty = FALSE]
  BY DEF Ejected
<1> HIDE DEF e
<1>3. QED
  BY <1>1, <1>2 DEF DriveRecord, Maybe

\* What the host and the service make of a drive, as far as the properties tell.

\* What Open() sets: the file name, the medium and the status.
LEMMA OpenedMembers ==
  ASSUME NEW r \in DriveRecord, NEW d \in Drive, NEW f \in File
  PROVE  /\ Opened(r, d, f).filename = f /\ Opened(r, d, f).medium = f
         /\ Opened(r, d, f).ready /\ ~Opened(r, d, f).removed
         /\ Opened(r, d, f).attached = r.attached
BY DEF Opened, DriveRecord

\* What FlushCache() changes: the cache, if it can be written.
LEMMA FlushedMembers ==
  ASSUME NEW r \in DriveRecord
  PROVE  /\ Flushed(r) = [r EXCEPT !.dirty = Flushed(r).dirty]
         /\ Flushed(r).dirty => r.dirty /\ ~CanFlush(r)
BY DEF Flushed, DriveRecord

\* What Eject() leaves: no file name, no medium, no cache.
LEMMA EjectedMembers ==
  ASSUME NEW r \in DriveRecord
  PROVE  /\ Ejected(r).filename = NoFile /\ Ejected(r).medium = NoFile
         /\ ~Ejected(r).ready /\ ~Ejected(r).dirty
BY DEF Ejected, Flushed, CanFlush, DriveRecord

\* A step of one drive leaves the other drives alone.
LEMMA SetDrive ==
  ASSUME TypeOK, NEW d \in Drive, NEW r \in DriveRecord, Set(d, r)
  PROVE  /\ drive' \in [Drive -> DriveRecord]
         /\ drive'[d] = r
         /\ \A e \in Drive \ {d} : drive'[e] = drive[e]
BY DEF TypeOK, Set

-------------------------------------------------------------------------------
(* The inductive invariant. *)

\* A drive with a medium has been given its name, and none is in a drive that is
\* not there or whose medium was removed.  Only a cache has writes to lose.
Sound(r) ==
  /\ r.ready => r.attached /\ r.medium # NoFile /\ ~r.removed
  /\ r.medium # NoFile => r.attached /\ r.filename # NoFile /\ ~r.removed
  /\ r.dirty => r.medium # NoFile

\* The medium in the drive is the one its file name says, and the one the host
\* knows if it gets past the drive's change and the caching mode.
Agrees(r, k) ==
  /\ r.filename = r.medium
  /\ r.ready /\ ~r.changed /\ CacheWorks(r.mode, r.medium) => k = r.medium

IInv ==
  /\ TypeOK
  /\ \A d \in Drive : Sound(drive[d])
  /\ ~adrift => \A d \in Drive : Agrees(drive[d], known[d])
  /\ ReservedExactly

\* A step that changes neither the medium of a drive nor its name, and tells the
\* host of the medium if it takes back a change.
Touches(d, r) ==
  /\ Set(d, r)
  /\ \A m \in {"attached", "removed", "filename", "medium", "mode"} : r[m] = drive[d][m]
  /\ r.ready => drive[d].ready
  /\ r.dirty => drive[d].dirty \/ drive[d].ready
  /\ \/ UNCHANGED known /\ (drive[d].changed => r.changed)
     \/ known' = [known EXCEPT ![d] = drive[d].medium]
  /\ UNCHANGED <<reserved, service, lost>>

\* Start, stop and protect, reports, writes and the rest of the commands that leave
\* the medium alone.
LEMMA SmallSteps ==
  ASSUME TypeOK, NEW d \in Drive,
         \/ Start(d) \/ Stop(d) \/ \E p \in BOOLEAN : Protect(d, p)
         \/ ReportChange(d) \/ ReportAttention(d) \/ Write(d) \/ SynchronizeCache(d)
         \/ StartUnit(d) \/ StopUnit(d) \/ Reset(d)
         \/ \E prevent \in BOOLEAN : PreventAllowMediumRemoval(d, prevent)
  PROVE  \E r \in DriveRecord : Touches(d, r)
<1> DEFINE r == drive[d]
<1>1. r \in DriveRecord
  BY DEF TypeOK
<1>2. CASE Start(d)
  <2>1. [r EXCEPT !.stopped = @ /\ ~r.ready] \in DriveRecord
    BY <1>1 DEF DriveRecord
  <2>2. QED
    BY <1>1, <1>2, <2>1 DEF Start, Touches, DriveRecord
<1>3. CASE Stop(d)
  <2>1. [r EXCEPT !.ready = FALSE, !.attn = FALSE, !.stopped = TRUE] \in DriveRecord
    BY <1>1 DEF DriveRecord
  <2>2. QED
    BY <1>1, <1>3, <2>1 DEF Stop, Touches, DriveRecord
<1>4. CASE \E p \in BOOLEAN : Protect(d, p)
  <2>1. PICK p \in BOOLEAN : Protect(d, p)
    BY <1>4
  <2>2. /\ SetProtected(r, p) \in DriveRecord
        /\ SetProtected(r, p) = [r EXCEPT !.protected = SetProtected(r, p).protected]
    BY <1>1, SetProtectedType
  <2>3. QED
    BY <1>1, <2>1, <2>2 DEF Protect, Touches, DriveRecord
<1>5. CASE ReportChange(d)
  <2>1. [r EXCEPT !.changed = FALSE] \in DriveRecord
    BY <1>1 DEF DriveRecord
  <2>2. QED
    BY <1>1, <1>5, <2>1 DEF ReportChange, Touches, DriveRecord
<1>6. CASE ReportAttention(d)
  <2>1. [r EXCEPT !.attn = FALSE] \in DriveRecord
    BY <1>1 DEF DriveRecord
  <2>2. QED
    BY <1>1, <1>6, <2>1 DEF ReportAttention, Touches, DriveRecord
<1>7. CASE Write(d)
  <2>1. r.ready /\ [r EXCEPT !.dirty = @ \/ r.mode # "write_through"] \in DriveRecord
    BY <1>1, <1>7 DEF Write, PassesCheckReady, DriveRecord
  <2>2. QED
    BY <1>1, <1>7, <2>1 DEF Write, Touches, DriveRecord
<1>8. CASE SynchronizeCache(d)
  <2>1. /\ Flushed(r) \in DriveRecord
        /\ Flushed(r) = [r EXCEPT !.dirty = Flushed(r).dirty]
        /\ Flushed(r).dirty => r.dirty
    BY <1>1, FlushedType, FlushedMembers
  <2>2. QED
    BY <1>1, <1>8, <2>1 DEF SynchronizeCache, Touches, DriveRecord
<1>9. CASE StartUnit(d)
  <2>1. [r EXCEPT !.stopped = FALSE] \in DriveRecord
    BY <1>1 DEF DriveRecord
  <2>2. QED
    BY <1>1, <1>9, <2>1 DEF StartUnit, Touches, DriveRecord
<1>10. CASE StopUnit(d)
  <2> DEFINE s == [r EXCEPT !.stopped = TRUE]
  <2>1. s \in DriveRecord
    BY <1>1 DEF DriveRecord
  <2>2. /\ Flushed(s) \in DriveRecord
        /\ Flushed(s) = [s EXCEPT !.dirty = Flushed(s).dirty]
        /\ Flushed(s).dirty => s.dirty
    BY <2>1, FlushedType, FlushedMembers
  <2>3. QED
    BY <1>1, <1>10, <2>1, <2>2 DEF StopUnit, Touches, DriveRecord
<1>11. CASE Reset(d)
  <2>1. [r EXCEPT !.attn = FALSE, !.locked = FALSE] \in DriveRecord
    BY <1>1 DEF DriveRecord
  <2>2. QED
    BY <1>1, <1>11, <2>1 DEF Reset, Touches, DriveRecord
<1>12. CASE \E prevent \in BOOLEAN : PreventAllowMediumRemoval(d, prevent)
  <2>1. PICK prevent \in BOOLEAN : PreventAllowMediumRemoval(d, prevent)
    BY <1>12
  <2>2. [r EXCEPT !.locked = prevent] \in DriveRecord
    BY <1>1 DEF DriveRecord
  <2>3. QED
    BY <1>1, <2>1, <2>2 DEF PreventAllowMediumRemoval, Touches, DriveRecord
<1>13. QED
  BY <1>2, <1>3, <1>4, <1>5, <1>6, <1>7, <1>8, <1>9, <1>10, <1>11, <1>12

\* A step that only changes the state of a medium keeps the invariant.
LEMMA TouchKeepsIInv ==
  ASSUME IInv, NEW d \in Drive, NEW r \in DriveRecord, Touches(d, r)
  PROVE  IInv'
<1>1. /\ TypeOK /\ drive \in [Drive -> DriveRecord] /\ known \in [Drive -> Maybe]
      /\ \A e \in Drive : Sound(drive[e])
      /\ ~adrift => \A e \in Drive : Agrees(drive[e], known[e])
  BY DEF IInv, TypeOK
<1>2. /\ drive' \in [Drive -> DriveRecord]
      /\ drive'[d] = r
      /\ \A e \in Drive \ {d} : drive'[e] = drive[e]
  BY <1>1, SetDrive DEF Touches
<1>3. /\ known' \in [Drive -> Maybe]
      /\ \A e \in Drive \ {d} : known'[e] = known[e]
      /\ \/ known'[d] = known[d] /\ (drive[d].changed => r.changed)
         \/ known'[d] = drive[d].medium
  BY <1>1 DEF Touches, DriveRecord
<1>4. /\ r.attached = drive[d].attached /\ r.removed = drive[d].removed
      /\ r.filename = drive[d].filename /\ r.medium = drive[d].medium
      /\ r.mode = drive[d].mode /\ (r.ready => drive[d].ready)
      /\ r.dirty => drive[d].dirty \/ drive[d].ready
  BY DEF Touches
<1>5. UNCHANGED <<reserved, service, lost>>
  BY DEF Touches
<1>6. TypeOK'
  BY <1>1, <1>2, <1>3, <1>5 DEF TypeOK, service
<1>7. \A e \in Drive : Sound(drive'[e])
  BY <1>1, <1>2, <1>4 DEF Sound
<1>8. ~adrift' => \A e \in Drive : Agrees(drive'[e], known'[e])
  BY <1>1, <1>2, <1>3, <1>4, <1>5 DEF Agrees, service
<1>9. ReservedExactly'
  <2>1. \A e \in Drive : drive'[e].medium = drive[e].medium
    BY <1>2, <1>4
  <2>2. reserved \in [File -> Drive \cup {NoDrive}]
    BY <1>1 DEF TypeOK
  <2>3. QED
    BY <1>5, <2>1, <2>2 DEF IInv, ReservedExactly, UsedIsReserved, ReservedIsUsed, service
<1>10. QED
  BY <1>6, <1>7, <1>8, <1>9 DEF IInv

\* What is dropped with a cache is a write to a file.
LEMMA DroppedType ==
  ASSUME NEW r \in DriveRecord, Sound(r)
  PROVE  /\ Dropped(r) \subseteq File
         /\ Dropped(Flushed(r)) \subseteq File
         /\ Dropped(WrittenByEject(r)) \subseteq File
<1>1. r.medium \in Maybe /\ (r.dirty => r.medium # NoFile)
  BY DEF Sound, DriveRecord
<1>2. Flushed(r) = [r EXCEPT !.dirty = Flushed(r).dirty] /\ (Flushed(r).dirty => r.dirty)
  BY FlushedMembers
<1>3. /\ WrittenByEject(r).medium = r.medium
      /\ WrittenByEject(r).dirty => r.dirty
  <2> DEFINE e == [r EXCEPT !.ready = FALSE]
  <2>1. e \in DriveRecord
    BY DEF DriveRecord
  <2>2. Flushed(e) = [e EXCEPT !.dirty = Flushed(e).dirty] /\ (Flushed(e).dirty => e.dirty)
    BY <2>1, FlushedMembers
  <2>3. QED
    BY <2>1, <2>2 DEF WrittenByEject, DriveRecord
<1>4. Flushed(r).medium = r.medium
  BY <1>2 DEF DriveRecord
<1>5. QED
  BY <1>1, <1>2, <1>3, <1>4 DEF Dropped, LosesWrites, Maybe

\* Attach and Insert: a file nobody has in use, in a drive without a medium.
LEMMA PlacingKeepsIInv ==
  ASSUME IInv, NEW d \in Drive, NEW f \in File, NEW r \in DriveRecord, Set(d, r),
         Available(f), drive[d].medium = NoFile,
         r.attached, ~r.removed, r.filename = f, r.medium = f,
         reserved' = [reserved EXCEPT ![f] = d],
         known' \in [Drive -> Maybe], \A e \in Drive \ {d} : known'[e] = known[e],
         r.changed \/ known'[d] = f,
         UNCHANGED <<service, lost>>
  PROVE  IInv'
<1>1. /\ TypeOK /\ f # NoFile /\ reserved \in [File -> Drive \cup {NoDrive}]
      /\ \A e \in Drive : Sound(drive[e])
      /\ ~adrift => \A e \in Drive : Agrees(drive[e], known[e])
      /\ UNCHANGED adrift
  BY DrivesAssumption DEF IInv, TypeOK, service
<1>2. /\ drive' \in [Drive -> DriveRecord]
      /\ drive'[d] = r
      /\ \A e \in Drive \ {d} : drive'[e] = drive[e]
  BY <1>1, SetDrive
<1>3. TypeOK'
  BY <1>1, <1>2 DEF TypeOK, service
<1>4. \A e \in Drive : Sound(drive'[e])
  BY <1>1, <1>2 DEF Sound
<1>5. ~adrift' => \A e \in Drive : Agrees(drive'[e], known'[e])
  BY <1>1, <1>2 DEF Agrees
<1>6. ReservedExactly'
  <2>1. /\ reserved'[f] = d
        /\ \A g \in File \ {f} : reserved'[g] = reserved[g]
    BY <1>1
  <2>2. UsedIsReserved'
    <3> SUFFICES ASSUME NEW e \in Drive, ~adrift', drive'[e].medium # NoFile
                 PROVE  reserved'[drive'[e].medium] = e
      BY DEF UsedIsReserved
    <3>1. CASE e = d
      BY <1>2, <2>1, <3>1
    <3>2. CASE e # d
      <4>1. reserved[drive[e].medium] = e /\ drive'[e].medium = drive[e].medium
        BY <1>1, <1>2, <3>2 DEF IInv, ReservedExactly, UsedIsReserved
      <4>2. drive[e].medium \in File
        BY <1>1, <1>2, <3>2 DEF TypeOK, DriveRecord, Maybe
      <4>3. drive[e].medium # f
        BY <4>1, DrivesAssumption DEF Available
      <4>4. QED
        BY <2>1, <4>1, <4>2, <4>3
    <3>3. QED
      BY <3>1, <3>2
  <2>3. ReservedIsUsed'
    <3> SUFFICES ASSUME NEW g \in File, ~adrift', reserved'[g] # NoDrive
                 PROVE  drive'[reserved'[g]].medium = g
      BY DEF ReservedIsUsed
    <3>1. CASE g = f
      BY <1>2, <2>1, <3>1
    <3>2. CASE g # f
      <4>1. reserved'[g] = reserved[g] /\ reserved[g] \in Drive /\ drive[reserved[g]].medium = g
        BY <1>1, <2>1, <3>2 DEF IInv, ReservedExactly, ReservedIsUsed
      <4>2. reserved[g] # d
        BY <4>1, DrivesAssumption
      <4>3. QED
        BY <1>2, <4>1, <4>2
    <3>3. QED
      BY <3>1, <3>2
  <2>4. QED
    BY <2>2, <2>3 DEF ReservedExactly
<1>7. QED
  BY <1>3, <1>4, <1>5, <1>6 DEF IInv

\* Eject, and Attach without a file: the drive is empty, and its file free.
LEMMA EmptyingKeepsIInv ==
  ASSUME IInv, NEW d \in Drive, NEW r \in DriveRecord, Set(d, r),
         ~r.ready, ~r.dirty, r.filename = NoFile, r.medium = NoFile,
         reserved' \in {reserved, Unreserved(reserved, drive[d].filename)},
         reserved' = Unreserved(reserved, drive[d].filename) \/ drive[d].medium = NoFile,
         known' \in [Drive -> Maybe], \A e \in Drive \ {d} : known'[e] = known[e],
         lost' \in SUBSET File, UNCHANGED service
  PROVE  IInv'
<1>1. /\ TypeOK /\ reserved \in [File -> Drive \cup {NoDrive}]
      /\ \A e \in Drive : Sound(drive[e])
      /\ ~adrift => \A e \in Drive : Agrees(drive[e], known[e])
      /\ UNCHANGED adrift
  BY DEF IInv, TypeOK, service
<1>2. /\ drive' \in [Drive -> DriveRecord]
      /\ drive'[d] = r
      /\ \A e \in Drive \ {d} : drive'[e] = drive[e]
  BY <1>1, SetDrive
<1>3. /\ reserved' \in [File -> Drive \cup {NoDrive}]
      /\ \A g \in File : reserved'[g] \in {NoDrive, reserved[g]}
      /\ \A g \in File \ {drive[d].filename} : reserved'[g] = reserved[g]
      /\ drive[d].medium = NoFile \/ \A g \in File : g = drive[d].filename => reserved'[g] = NoDrive
  BY <1>1, DrivesAssumption DEF Unreserved
<1>4. TypeOK'
  BY <1>1, <1>2, <1>3 DEF TypeOK, service
<1>5. \A e \in Drive : Sound(drive'[e])
  BY <1>1, <1>2 DEF Sound
<1>6. ~adrift' => \A e \in Drive : Agrees(drive'[e], known'[e])
  BY <1>1, <1>2 DEF Agrees
<1>7. ReservedExactly'
  <2> SUFFICES ASSUME ~adrift
               PROVE  UsedIsReserved' /\ ReservedIsUsed'
    BY <1>1 DEF ReservedExactly, UsedIsReserved, ReservedIsUsed
  <2>1. drive[d].filename = drive[d].medium
    BY <1>1 DEF Agrees
  <2>2. UsedIsReserved'
    <3> SUFFICES ASSUME NEW e \in Drive, drive'[e].medium # NoFile
                 PROVE  reserved'[drive'[e].medium] = e
      BY DEF UsedIsReserved
    <3>1. e # d /\ drive'[e].medium = drive[e].medium
      BY <1>2
    <3>2. drive[e].medium \in File /\ reserved[drive[e].medium] = e
      BY <1>1, <1>2, <3>1 DEF IInv, ReservedExactly, UsedIsReserved, TypeOK, DriveRecord, Maybe
    <3>3. drive[e].medium # drive[d].filename
      BY <2>1, <3>1, <3>2 DEF IInv, ReservedExactly, UsedIsReserved
    <3>4. QED
      BY <1>3, <3>1, <3>2, <3>3
  <2>3. ReservedIsUsed'
    <3> SUFFICES ASSUME NEW g \in File, reserved'[g] # NoDrive
                 PROVE  drive'[reserved'[g]].medium = g
      BY DEF ReservedIsUsed
    <3>1. reserved'[g] = reserved[g] /\ reserved[g] \in Drive /\ drive[reserved[g]].medium = g
      BY <1>1, <1>3 DEF IInv, ReservedExactly, ReservedIsUsed
    <3>2. reserved[g] # d
      BY <1>3, <2>1, <3>1, DrivesAssumption
    <3>3. QED
      BY <1>2, <3>1, <3>2
  <2>4. QED
    BY <2>2, <2>3
<1>8. QED
  BY <1>4, <1>5, <1>6, <1>7 DEF IInv

\* Detach, DetachAll and Terminate.
LEMMA CleanUpKeepsIInv ==
  ASSUME IInv, NEW D \in SUBSET Drive, CleanUp(D), UNCHANGED adrift, running' \in BOOLEAN
  PROVE  IInv'
<1>1. /\ TypeOK
      /\ drive \in [Drive -> DriveRecord] /\ reserved \in [File -> Drive \cup {NoDrive}]
      /\ \A e \in Drive : Sound(drive[e])
      /\ ~adrift => \A e \in Drive : Agrees(drive[e], known[e])
  BY DEF IInv, TypeOK
<1>2. \A d \in Drive :
        /\ NewDrive(d) \in DriveRecord
        /\ ~NewDrive(d).ready /\ ~NewDrive(d).dirty
        /\ NewDrive(d).filename = NoFile /\ NewDrive(d).medium = NoFile
  BY NewDriveType DEF NewDrive
<1>3. /\ drive' \in [Drive -> DriveRecord]
      /\ \A d \in D : drive'[d] = NewDrive(d) /\ known'[d] = NoFile
      /\ \A d \in Drive \ D : drive'[d] = drive[d] /\ known'[d] = known[d]
  BY <1>1, <1>2 DEF CleanUp
<1>4. /\ reserved' \in [File -> Drive \cup {NoDrive}]
      /\ \A f \in File : reserved'[f] = IF \E d \in D : drive[d].filename = f
                                           THEN NoDrive ELSE reserved[f]
  BY <1>1 DEF CleanUp
<1>5. TypeOK'
  <2>1. known' \in [Drive -> Maybe]
    BY <1>1 DEF CleanUp, TypeOK, Maybe
  <2>2. lost' \in SUBSET File
    <3>1. \A d \in D : Dropped(Flushed(drive[d])) \subseteq File
      BY <1>1, DroppedType
    <3>2. QED
      BY <1>1, <3>1 DEF CleanUp, TypeOK
  <2>3. QED
    BY <1>1, <1>3, <1>4, <2>1, <2>2 DEF TypeOK
<1>6. \A d \in Drive : Sound(drive'[d])
  BY <1>1, <1>2, <1>3 DEF Sound
<1>7. ~adrift' => \A d \in Drive : Agrees(drive'[d], known'[d])
  BY <1>1, <1>2, <1>3 DEF Agrees
<1>8. ReservedExactly'
  <2> SUFFICES ASSUME ~adrift
               PROVE  UsedIsReserved' /\ ReservedIsUsed'
    BY DEF ReservedExactly, UsedIsReserved, ReservedIsUsed
  <2>1. \A d \in Drive : drive[d].filename = drive[d].medium
    BY <1>1 DEF Agrees
  <2>2. UsedIsReserved'
    <3> SUFFICES ASSUME NEW e \in Drive, drive'[e].medium # NoFile
                 PROVE  reserved'[drive'[e].medium] = e
      BY DEF UsedIsReserved
    <3>1. e \notin D /\ drive'[e] = drive[e]
      BY <1>2, <1>3
    <3>2. drive[e].medium \in File /\ reserved[drive[e].medium] = e
      BY <1>1, <3>1 DEF IInv, ReservedExactly, UsedIsReserved, DriveRecord, Maybe
    <3>3. \A d \in D : drive[d].filename # drive[e].medium
      BY <2>1, <3>1, <3>2, DrivesAssumption DEF IInv, ReservedExactly, UsedIsReserved
    <3>4. QED
      BY <1>4, <3>1, <3>2, <3>3
  <2>3. ReservedIsUsed'
    <3> SUFFICES ASSUME NEW g \in File, reserved'[g] # NoDrive
                 PROVE  drive'[reserved'[g]].medium = g
      BY DEF ReservedIsUsed
    <3>1. reserved'[g] = reserved[g] /\ reserved[g] \in Drive /\ drive[reserved[g]].medium = g
      BY <1>1, <1>4 DEF IInv, ReservedExactly, ReservedIsUsed
    <3>2. reserved[g] \notin D
      BY <1>4, <2>1, <3>1
    <3>3. QED
      BY <1>3, <3>1, <3>2
  <2>4. QED
    BY <2>2, <2>3
<1>9. QED
  BY <1>5, <1>6, <1>7, <1>8 DEF IInv

\* READ LONG and WRITE LONG open the file the drive has the name of.
LEMMA SwitchingKeepsIInv ==
  ASSUME IInv, NEW d \in Drive, SwitchToLinuxCache(d)
  PROVE  IInv'
<1> DEFINE r == [drive[d] EXCEPT !.mode = "linux", !.medium = drive[d].filename, !.dirty = FALSE]
<1>1. /\ TypeOK /\ drive[d] \in DriveRecord
      /\ Sound(drive[d]) /\ drive[d].ready
      /\ drive[d].mode = "piscsi" /\ drive[d].filename # NoFile
      /\ ~adrift => Agrees(drive[d], known[d])
      /\ UNCHANGED <<reserved, known, adrift>>
  BY DEF IInv, TypeOK, Sound, SwitchToLinuxCache, PassesCheckReady, service
<1>2. /\ r \in DriveRecord
      /\ r.ready = drive[d].ready /\ r.attached = drive[d].attached
      /\ r.removed = drive[d].removed /\ r.changed = drive[d].changed
      /\ r.filename = drive[d].filename /\ r.medium = drive[d].filename /\ ~r.dirty
  BY <1>1 DEF DriveRecord, CachingMode
<1>3. /\ drive' \in [Drive -> DriveRecord]
      /\ drive'[d] = r
      /\ \A e \in Drive \ {d} : drive'[e] = drive[e]
  BY <1>1, <1>2, SetDrive DEF SwitchToLinuxCache
<1> HIDE DEF r
<1>4. TypeOK'
  <2>1. lost' \in SUBSET File
    BY <1>1, DroppedType DEF SwitchToLinuxCache, TypeOK
  <2>2. QED
    BY <1>1, <1>3, <2>1 DEF TypeOK, SwitchToLinuxCache, service
<1>5. \A e \in Drive : Sound(drive'[e])
  BY <1>1, <1>2, <1>3 DEF IInv, Sound
<1>6. ~adrift => \A e \in Drive : drive'[e].medium = drive[e].medium
  BY <1>1, <1>2, <1>3 DEF Agrees
<1>7. ~adrift' => \A e \in Drive : Agrees(drive'[e], known'[e])
  BY <1>1, <1>2, <1>3, <1>6 DEF IInv, Agrees, CacheWorks
<1>8. ReservedExactly'
  <2>1. reserved \in [File -> Drive \cup {NoDrive}]
    BY <1>1 DEF TypeOK
  <2>2. QED
    BY <1>1, <1>6, <2>1 DEF IInv, ReservedExactly, UsedIsReserved, ReservedIsUsed
<1>9. QED
  BY <1>4, <1>5, <1>7, <1>8 DEF IInv

\* A drive is given the name of a file it has not opened.
LEMMA NamingKeepsIInv ==
  ASSUME IInv, NEW d \in Drive, NEW r \in DriveRecord, Set(d, r), Sound(r),
         reserved' \in [File -> Drive \cup {NoDrive}],
         adrift' = TRUE, UNCHANGED <<running, known, lost>>
  PROVE  IInv'
<1>1. TypeOK /\ \A e \in Drive : Sound(drive[e])
  BY DEF IInv
<1>2. /\ drive' \in [Drive -> DriveRecord]
      /\ drive'[d] = r
      /\ \A e \in Drive \ {d} : drive'[e] = drive[e]
  BY <1>1, SetDrive
<1>3. TypeOK'
  BY <1>1, <1>2 DEF TypeOK
<1>4. \A e \in Drive : Sound(drive'[e])
  BY <1>1, <1>2
<1>5. QED
  BY <1>3, <1>4 DEF IInv, ReservedExactly, UsedIsReserved, ReservedIsUsed

-------------------------------------------------------------------------------
(* The steps. *)

\* Attaching a drive, with or without a file, keeps the invariant.
LEMMA AttachKeepsIInv ==
  ASSUME IInv, NEW d \in Drive, NEW f \in Maybe, NEW mode \in AttachMode, NEW p \in BOOLEAN,
         Attach(d, f, mode, p)
  PROVE  IInv'
<1> DEFINE n == [NewDrive(d) EXCEPT !.attached = TRUE, !.mode = mode]
           open == IF f = NoFile THEN [n EXCEPT !.removed = TRUE] ELSE Opened(n, d, f)
           r == SetProtected(open, p)
<1>1. n \in DriveRecord /\ n.attached /\ ~n.ready /\ ~n.dirty
      /\ n.filename = NoFile /\ n.medium = NoFile
  BY DrivesAssumption DEF NewDrive, DriveRecord, Maybe, CachingMode
<1>2. /\ IInv /\ drive[d].medium = NoFile /\ known \in [Drive -> Maybe]
      /\ Set(d, r) /\ lost' \in SUBSET File /\ UNCHANGED <<service, lost>>
      /\ f # NoFile => Available(f)
      /\ reserved' = IF f = NoFile THEN reserved ELSE [reserved EXCEPT ![f] = d]
      /\ known' = [known EXCEPT ![d] = f]
  BY DEF Attach, IInv, TypeOK, Sound
<1> HIDE DEF n
<1>3. known' \in [Drive -> Maybe] /\ known'[d] = f /\ \A e \in Drive \ {d} : known'[e] = known[e]
  BY <1>2
<1>4. CASE f = NoFile
  <2>1. /\ open \in DriveRecord /\ ~open.ready /\ ~open.dirty
        /\ open.filename = NoFile /\ open.medium = NoFile
    BY <1>1, <1>4 DEF DriveRecord
  <2> HIDE DEF open
  <2>2. r \in DriveRecord /\ r = [open EXCEPT !.protected = r.protected]
    BY <2>1, SetProtectedType
  <2> HIDE DEF r
  <2>3. ~r.ready /\ ~r.dirty /\ r.filename = NoFile /\ r.medium = NoFile
    BY <2>1, <2>2 DEF DriveRecord
  <2>4. QED
    BY <1>2, <1>3, <1>4, <2>2, <2>3, EmptyingKeepsIInv
<1>5. CASE f # NoFile
  <2>1. f \in File /\ open = Opened(n, d, f)
    BY <1>5 DEF Maybe
  <2> HIDE DEF open
  <2>2. /\ open \in DriveRecord /\ open.attached /\ ~open.removed
        /\ open.filename = f /\ open.medium = f
    BY <1>1, <2>1, OpenedType, OpenedMembers
  <2>3. r \in DriveRecord /\ r = [open EXCEPT !.protected = r.protected]
    BY <2>2, SetProtectedType
  <2> HIDE DEF r
  <2>4. r.attached /\ ~r.removed /\ r.filename = f /\ r.medium = f
    BY <2>2, <2>3 DEF DriveRecord
  <2>5. QED
    BY <1>2, <1>3, <1>5, <2>1, <2>3, <2>4, PlacingKeepsIInv
<1>6. QED
  BY <1>4, <1>5

\* Inserting a medium keeps the invariant.
LEMMA InsertKeepsIInv ==
  ASSUME IInv, NEW d \in Drive, NEW f \in File, NEW p \in BOOLEAN, Insert(d, f, p)
  PROVE  IInv'
<1> DEFINE o == Opened(drive[d], d, f)
           open == [o EXCEPT !.changed = TRUE]
           r == SetProtected(open, p)
<1>1. /\ TypeOK /\ drive[d] \in DriveRecord /\ known \in [Drive -> Maybe]
      /\ drive[d].attached /\ drive[d].medium = NoFile
      /\ Available(f) /\ Set(d, r)
      /\ reserved' = [reserved EXCEPT ![f] = d]
      /\ UNCHANGED <<service, known, lost>>
  BY DEF Insert, MayInsert, Up, IInv, TypeOK, Sound
<1>2. /\ o \in DriveRecord /\ o.attached /\ ~o.removed
      /\ o.filename = f /\ o.medium = f
  BY <1>1, OpenedType, OpenedMembers
<1> HIDE DEF o
<1>3. /\ open \in DriveRecord /\ open.attached /\ ~open.removed
      /\ open.filename = f /\ open.medium = f /\ open.changed
  BY <1>2 DEF DriveRecord
<1> HIDE DEF open
<1>4. r \in DriveRecord /\ r = [open EXCEPT !.protected = r.protected]
  BY <1>3, SetProtectedType
<1> HIDE DEF r
<1>5. r.attached /\ ~r.removed /\ r.filename = f /\ r.medium = f /\ r.changed
  BY <1>3, <1>4 DEF DriveRecord
<1>6. QED
  BY <1>1, <1>4, <1>5, PlacingKeepsIInv

\* So does an insertion that fails after the reservation of the file.
LEMMA FailedInsertKeepsIInv ==
  ASSUME IInv, NEW d \in Drive, NEW f \in File, InsertOpenFails(d, f) \/ InsertCacheFails(d, f)
  PROVE  IInv'
<1>1. /\ drive[d] \in DriveRecord /\ reserved \in [File -> Drive \cup {NoDrive}]
      /\ Sound(drive[d]) /\ f # NoFile /\ drive[d].attached /\ drive[d].removed
  BY DrivesAssumption DEF IInv, TypeOK, InsertOpenFails, InsertCacheFails, MayInsert, Up
<1>2. CASE InsertOpenFails(d, f)
  <2> DEFINE r == [drive[d] EXCEPT !.filename = f]
  <2>1. r \in DriveRecord /\ Sound(r)
    BY <1>1 DEF DriveRecord, Maybe, Sound
  <2>2. Set(d, r) /\ UNCHANGED <<reserved, running, known, lost>> /\ adrift' = TRUE
    BY <1>2 DEF InsertOpenFails
  <2> HIDE DEF r
  <2>3. QED
    BY <1>1, <2>1, <2>2, NamingKeepsIInv
<1>3. CASE InsertCacheFails(d, f)
  <2> DEFINE o == Opened(drive[d], d, f)
             r == [o EXCEPT !.attn = drive[d].attn]
  <2>1. /\ o \in DriveRecord /\ o.attached /\ ~o.removed /\ o.filename = f /\ o.medium = f
    BY <1>1, OpenedType, OpenedMembers
  <2>2. Set(d, r) /\ UNCHANGED <<reserved, running, known, lost>> /\ adrift' = TRUE
    BY <1>3 DEF InsertCacheFails
  <2> HIDE DEF o
  <2>3. r \in DriveRecord /\ Sound(r)
    BY <1>1, <2>1 DEF DriveRecord, Sound
  <2> HIDE DEF r
  <2>4. QED
    BY <1>1, <2>2, <2>3, NamingKeepsIInv
<1>4. QED
  BY <1>2, <1>3

\* So does an ejection, by the remote interface or by START STOP UNIT.
LEMMA EjectKeepsIInv ==
  ASSUME IInv, NEW d \in Drive, Eject(d) \/ EjectUnit(d)
  PROVE  IInv'
<1> DEFINE r == Ejected(drive[d])
<1>1. /\ drive[d] \in DriveRecord /\ known \in [Drive -> Maybe] /\ lost \in SUBSET File
      /\ Sound(drive[d]) /\ drive[d].ready
  BY DEF IInv, TypeOK, Eject, EjectUnit
<1>2. /\ Set(d, r)
      /\ reserved' = Unreserved(reserved, drive[d].filename)
      /\ lost' = lost \cup Dropped(WrittenByEject(drive[d]))
      /\ UNCHANGED <<service, known>>
  BY DEF Eject, EjectUnit
<1>3. /\ r \in DriveRecord
      /\ ~r.ready /\ ~r.dirty /\ r.filename = NoFile /\ r.medium = NoFile
  BY <1>1, EjectedType, EjectedMembers
<1> HIDE DEF r
<1>4. lost' \in SUBSET File
  BY <1>1, <1>2, DroppedType
<1>5. QED
  BY <1>1, <1>2, <1>3, <1>4, EmptyingKeepsIInv

\* So does the load bit of START STOP UNIT.
LEMMA LoadKeepsIInv ==
  ASSUME IInv, NEW d \in Drive, LoadUnit(d)
  PROVE  IInv'
<1>1. /\ drive[d] \in DriveRecord /\ reserved \in [File -> Drive \cup {NoDrive}]
      /\ Sound(drive[d]) /\ drive[d].last \in File
  BY DEF IInv, TypeOK, DriveRecord, Maybe, LoadUnit
<1>2. PICK r \in {[drive[d] EXCEPT !.filename = drive[d].last, !.changed = TRUE],
                  [drive[d] EXCEPT !.filename = drive[d].last]} : Set(d, r)
  BY DEF LoadUnit
<1>3. r \in DriveRecord /\ Sound(r)
  <2>1. /\ r \in DriveRecord
        /\ r.ready = drive[d].ready /\ r.attached = drive[d].attached
        /\ r.medium = drive[d].medium /\ r.removed = drive[d].removed
        /\ r.dirty = drive[d].dirty /\ r.filename = drive[d].last
    BY <1>1 DEF DriveRecord, Maybe
  <2>2. QED
    BY <1>1, <2>1, DrivesAssumption DEF Sound
<1>4. reserved' \in [File -> Drive \cup {NoDrive}]
  BY <1>1 DEF LoadUnit
<1>5. adrift' = TRUE /\ UNCHANGED <<running, known, lost>>
  BY DEF LoadUnit
<1>6. QED
  BY <1>2, <1>3, <1>4, <1>5, NamingKeepsIInv

\* The invariant is inductive.
LEMMA KeepsIInv ==
  ASSUME IInv, [Next]_vars
  PROVE  IInv'
<1>1. TypeOK
  BY DEF IInv
<1>2. CASE \E d \in Drive :
             \/ Start(d) \/ Stop(d) \/ \E p \in BOOLEAN : Protect(d, p)
             \/ ReportChange(d) \/ ReportAttention(d) \/ Write(d) \/ SynchronizeCache(d)
             \/ StartUnit(d) \/ StopUnit(d) \/ Reset(d)
             \/ \E prevent \in BOOLEAN : PreventAllowMediumRemoval(d, prevent)
  <2>1. PICK d \in Drive : \E r \in DriveRecord : Touches(d, r)
    BY <1>1, <1>2, SmallSteps
  <2>2. QED
    BY <2>1, TouchKeepsIInv
<1>3. CASE \E d \in Drive, f \in Maybe, mode \in AttachMode, p \in BOOLEAN : Attach(d, f, mode, p)
  BY <1>3, AttachKeepsIInv
<1>4. CASE \E d \in Drive, f \in File, p \in BOOLEAN : Insert(d, f, p)
  BY <1>4, InsertKeepsIInv
<1>5. CASE \E d \in Drive, f \in File : InsertOpenFails(d, f) \/ InsertCacheFails(d, f)
  BY <1>5, FailedInsertKeepsIInv
<1>6. CASE \E d \in Drive : Eject(d) \/ EjectUnit(d)
  BY <1>6, EjectKeepsIInv
<1>7. CASE (\E d \in Drive : Detach(d)) \/ DetachAll \/ Terminate
  <2>1. \E D \in SUBSET Drive : CleanUp(D)
    BY <1>7 DEF Detach, DetachAll, Terminate, Attached
  <2>2. UNCHANGED adrift /\ running' \in BOOLEAN
    BY <1>1, <1>7 DEF Detach, DetachAll, Terminate, service, TypeOK
  <2>3. QED
    BY <2>1, <2>2, CleanUpKeepsIInv
<1>8. CASE \E d \in Drive : SwitchToLinuxCache(d)
  BY <1>8, SwitchingKeepsIInv
<1>9. CASE \E d \in Drive : LoadUnit(d)
  BY <1>9, LoadKeepsIInv
<1>10. CASE UNCHANGED vars
  BY <1>10
  DEF vars, service, IInv, TypeOK, ReservedExactly, UsedIsReserved, ReservedIsUsed
<1>11. QED
  BY <1>2, <1>3, <1>4, <1>5, <1>6, <1>7, <1>8, <1>9, <1>10 DEF Next, Remote, HostStep

\* The invariant holds without drives.
LEMMA InitIInv == Init => IInv
<1> SUFFICES ASSUME Init PROVE IInv
  OBVIOUS
<1>1. \A d \in Drive :
        /\ NewDrive(d) \in DriveRecord
        /\ ~NewDrive(d).ready /\ ~NewDrive(d).dirty
        /\ NewDrive(d).filename = NoFile /\ NewDrive(d).medium = NoFile
  BY NewDriveType DEF NewDrive
<1>2. TypeOK
  BY <1>1 DEF Init, TypeOK, Maybe
<1>3. \A d \in Drive : Sound(drive[d]) /\ Agrees(drive[d], known[d])
  BY <1>1 DEF Init, Sound, Agrees
<1>4. ReservedExactly
  BY <1>1 DEF Init, ReservedExactly, UsedIsReserved, ReservedIsUsed
<1>5. QED
  BY <1>2, <1>3, <1>4 DEF IInv

\* The invariant always holds.
LEMMA Invariance == Spec => []IInv
BY InitIInv, KeepsIInv, PTL DEF Spec

-------------------------------------------------------------------------------
(* The theorems. *)

\* A drive that is ready has a medium to serve requests from, and the host knows this
\* medium as soon as the drive accepts its commands.
THEOREM MediaAlwaysAgree == Spec => []MediaAgree
<1>1. IInv => MediaAgree
  BY DEF IInv, MediaAgree, ReadyHasMedium, KnownMedium, Sound, Agrees
<1>2. QED
  BY <1>1, Invariance, PTL

\* The list of image files in use and the media in the drives say the same.
THEOREM FilesReservedExactly == Spec => []ReservedExactly
<1>1. IInv => ReservedExactly
  BY DEF IInv
<1>2. QED
  BY <1>1, Invariance, PTL

\* No command of a host takes a locked medium out of its drive.
THEOREM LockHolds == Spec => LockedStays
<1>1. ASSUME IInv, NEW d \in Drive, drive[d].locked, ~adrift, NEW e \in Drive, HostStep(e)
      PROVE  drive'[d].medium = drive[d].medium
  <2>1. /\ TypeOK /\ drive[d] \in DriveRecord /\ drive[e] \in DriveRecord
        /\ drive[e].filename = drive[e].medium
    BY <1>1 DEF IInv, TypeOK, Agrees
  <2>2. CASE \E r \in DriveRecord : Touches(e, r)
    <3>1. PICK r \in DriveRecord : Touches(e, r)
      BY <2>2
    <3>2. r.medium = drive[e].medium /\ Set(e, r)
      BY <3>1 DEF Touches
    <3>3. QED
      BY <2>1, <3>2, SetDrive
  <2>3. CASE SwitchToLinuxCache(e)
    BY <2>1, <2>3 DEF SwitchToLinuxCache, Set, TypeOK, DriveRecord
  <2>4. CASE EjectUnit(e)
    BY <1>1, <2>1, <2>4 DEF EjectUnit, Set, TypeOK
  <2>5. CASE LoadUnit(e)
    <3>1. PICK r \in {[drive[e] EXCEPT !.filename = drive[e].last, !.changed = TRUE],
                      [drive[e] EXCEPT !.filename = drive[e].last]} : Set(e, r)
      BY <2>5 DEF LoadUnit
    <3>2. r.medium = drive[e].medium
      BY <2>1 DEF DriveRecord
    <3>3. QED
      BY <2>1, <3>1, <3>2 DEF Set, TypeOK
  <2>6. QED
    BY <1>1, <2>1, <2>2, <2>3, <2>4, <2>5, SmallSteps DEF HostStep
<1>2. IInv /\ [Next]_vars =>
        [\A d \in Drive : drive[d].locked /\ ~adrift /\ (\E e \in Drive : HostStep(e))
           => drive'[d].medium = drive[d].medium]_vars
  BY <1>1
<1>3. QED
  BY <1>2, Invariance, PTL DEF Spec, LockedStays

\* Detaching a ready drive writes what the host was told is written.
THEOREM DetachingSaves == Spec => DetachSaves
<1>1. ASSUME IInv, Next, NEW d \in Drive, drive[d].ready, ~drive'[d].attached,
             drive[d].medium \notin ReadOnlyFile,
             \A e \in Drive \ {d} : drive[e].medium # drive[d].medium
      PROVE  drive[d].medium \notin lost' \ lost
  <2>1. /\ TypeOK /\ drive \in [Drive -> DriveRecord]
        /\ drive[d].attached /\ drive[d].medium # NoFile
    BY <1>1 DEF IInv, TypeOK, Sound
  <2>2. CASE \E D \in SUBSET Drive : CleanUp(D)
    <3>1. PICK D \in SUBSET Drive : CleanUp(D)
      BY <2>2
    <3>2. SUFFICES ASSUME NEW e \in D, drive[d].medium \in Dropped(Flushed(drive[e]))
                   PROVE  FALSE
      BY <3>1 DEF CleanUp
    <3>3. /\ Flushed(drive[e]) = [drive[e] EXCEPT !.dirty = Flushed(drive[e]).dirty]
          /\ Flushed(drive[e]).dirty => ~CanFlush(drive[e])
      BY <2>1, FlushedMembers
    <3>4. Flushed(drive[e]).dirty /\ Flushed(drive[e]).medium = drive[d].medium
      BY <3>2 DEF Dropped, LosesWrites
    <3>5. e = d
      BY <1>1, <2>1, <3>3, <3>4 DEF DriveRecord
    <3>6. QED
      BY <1>1, <2>1, <3>3, <3>4, <3>5 DEF CanFlush
  <2>3. CASE UNCHANGED lost
    BY <2>3
  <2>4. CASE \E e \in Drive : Eject(e) \/ EjectUnit(e)
    <3>1. PICK e \in Drive : Set(e, Ejected(drive[e]))
      BY <2>4 DEF Eject, EjectUnit
    <3>2. Ejected(drive[e]).attached = drive[e].attached
      BY <2>1 DEF Ejected, Flushed, CanFlush, DriveRecord
    <3>3. QED
      BY <1>1, <2>1, <3>1, <3>2, EjectedType, SetDrive
  <2>5. CASE \E e \in Drive : SwitchToLinuxCache(e)
    BY <1>1, <2>1, <2>5 DEF SwitchToLinuxCache, Set, DriveRecord
  <2>6. QED
    <3>1. CASE Remote
      BY <2>2, <2>3, <2>4, <3>1
      DEF Remote, Attach, Insert, InsertOpenFails, InsertCacheFails, Start, Stop, Protect, Detach,
          DetachAll, Terminate, Attached
    <3>2. CASE \E e \in Drive : HostStep(e)
      BY <2>3, <2>4, <2>5, <3>2
      DEF HostStep, ReportChange, ReportAttention, Write, SynchronizeCache, StartUnit, StopUnit,
          LoadUnit, PreventAllowMediumRemoval, Reset
    <3>3. QED
      BY <1>1, <3>1, <3>2 DEF Next
<1>2. IInv /\ [Next]_vars =>
        [\A d \in Drive :
           /\ drive[d].ready
           /\ ~drive'[d].attached
           /\ drive[d].medium \notin ReadOnlyFile
           /\ \A e \in Drive \ {d} : drive[e].medium # drive[d].medium
           => drive[d].medium \notin lost' \ lost]_vars
  BY <1>1
<1>3. QED
  BY <1>2, Invariance, PTL DEF Spec, DetachSaves
===============================================================================
