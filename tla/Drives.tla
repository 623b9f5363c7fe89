-------------------------------- MODULE Drives --------------------------------
(***************************************************************************)
(* The life of disk drives and of the image files in them: attached,       *)
(* ejected, re-inserted, started, stopped, locked, write-protected and     *)
(* detached, by the administrator over the remote interface and by the     *)
(* host with SCSI commands (cpp/base/device.cpp,                           *)
(* cpp/devices/storage_device.cpp, disk.cpp, scsi_hd.cpp, scsi_cd.cpp,     *)
(* optical_memory.cpp, cpp/command/command_executor.cpp).                  *)
(*                                                                         *)
(* A request is one step, as both interfaces hold the execution lock.      *)
(* Every drive is LUN 0 of a target ID of its own.  Of a medium the model  *)
(* keeps whether a write the host was told to have succeeded is still only *)
(* in the cache.  Writing a cache to a writable file succeeds here: failing*)
(* files are the subject of DiskCache.                                     *)
(***************************************************************************)
CONSTANTS Drive,          \* the drives that may be attached
          File,           \* the image files
          Kind,           \* drive -> "hd", "scrm", "mo" or "cd"
          ReadOnlyFile,   \* the image files that cannot be written
          AttachMode,     \* the caching modes drives are attached with
          NoFile, NoDrive

ASSUME DrivesAssumption ==
  /\ Kind \in [Drive -> {"hd", "scrm", "mo", "cd"}]
  /\ ReadOnlyFile \subseteq File
  /\ AttachMode \subseteq {"piscsi", "linux", "write_through"}
  /\ NoFile \notin File
  /\ NoDrive \notin Drive

VARIABLES drive,      \* the members of each drive object
          reserved,   \* reserved_files: image file -> the drive that uses it
          running,    \* is the service up?
          known,      \* the medium the host knows to be in the drive
          lost,       \* image files that miss a write acknowledged to the host
          adrift      \* has a drive been given the name of a file it has not opened?

service == <<running, adrift>>
vars == <<drive, reserved, service, known, lost>>

Maybe == File \cup {NoFile}
CachingMode == {"piscsi", "linux", "write_through"}

Removable(d) == Kind[d] # "hd"

\* A drive object that is not there, or has just been constructed.
NewDrive(d) ==
  [attached |-> FALSE, ready |-> FALSE, stopped |-> FALSE, removed |-> FALSE,
   locked |-> FALSE, attn |-> FALSE, readOnly |-> Kind[d] = "cd",
   protectable |-> Kind[d] # "cd", protected |-> FALSE, changed |-> FALSE,
   filename |-> NoFile, last |-> NoFile, mode |-> "piscsi",
   medium |-> NoFile,     \* the file "cache" works on, NoFile if there is no cache
   dirty |-> FALSE]       \* does the cache hold acknowledged writes the file misses?

-------------------------------------------------------------------------------
(* Parts of the operations, as functions of the drive record. *)

\* Device::SetProtected()
SetProtected(r, p) == [r EXCEPT !.protected = IF @ # p /\ r.protectable /\ ~r.readOnly THEN p ELSE @]

\* SetFilename() and Open() of file f, with ValidateFile() and SetUpCache().
Opened(r, d, f) ==
  [r EXCEPT !.filename = f, !.medium = f, !.dirty = FALSE,
            !.ready = TRUE, !.stopped = FALSE, !.removed = FALSE, !.locked = FALSE,
            !.readOnly = @ \/ f \in ReadOnlyFile,
            !.protectable = @ /\ f \notin ReadOnlyFile,
            !.attn = @ \/ Kind[d] \in {"mo", "cd"}]

\* A LinuxCache opens the file for reading and writing.
CacheWorks(mode, f) == mode = "piscsi" \/ f \notin ReadOnlyFile

\* Does dropping the cache of r lose writes?  The LinuxCache stream is flushed
\* when it is closed, the tracks of a DiskCache are only written by Flush().
LosesWrites(r) == r.dirty /\ r.mode = "piscsi"
Dropped(r) == IF LosesWrites(r) THEN {r.medium} ELSE {}

\* Disk::FlushCache(): nothing is written unless the drive is ready.
CanFlush(r) == r.medium # NoFile /\ r.ready /\ r.medium \notin ReadOnlyFile
FlushedNever(r) == r   \* (a mutation: nothing is ever written)
Flushed(r) == IF CanFlush(r) THEN [r EXCEPT !.dirty = FALSE] ELSE r

\* UnreserveFile(): the entry of this file goes, whichever drive it belongs to.
UnreservedNever(files, f) == files   \* (a mutation: the entry stays)
Unreserved(files, f) == IF f = NoFile THEN files ELSE [files EXCEPT ![f] = NoDrive]

\* Device::Eject(), StorageDevice::Eject() and Disk::Eject() after the checks:
\* FlushCache() runs when the drive is not ready any more.
Ejected(r) ==
  LET e == [r EXCEPT !.ready = FALSE, !.attn = FALSE, !.removed = TRUE,
                     !.protected = FALSE, !.locked = FALSE, !.stopped = TRUE]
  IN [Flushed(e) EXCEPT !.last = r.filename, !.filename = NoFile,
                        !.medium = NoFile, !.dirty = FALSE]
WrittenByEject(r) == Flushed([r EXCEPT !.ready = FALSE])

Set(d, r) == drive' = [drive EXCEPT ![d] = r]

Up(d) == running /\ drive[d].attached

-------------------------------------------------------------------------------
Init ==
  /\ drive = [d \in Drive |-> NewDrive(d)]
  /\ reserved = [f \in File |-> NoDrive]
  /\ running = TRUE
  /\ known = [d \in Drive |-> NoFile]
  /\ lost = {}
  /\ adrift = FALSE

(* The remote interface.  A request that is refused changes nothing, unless
   there is an action for it. *)

\* CheckForReservedFile()
Available(f) == reserved[f] = NoDrive

\* CommandExecutor::Attach(), without a file only for removable media.
Attach(d, f, mode, p) ==
  LET r == [NewDrive(d) EXCEPT !.attached = TRUE, !.mode = mode]
      open == IF f = NoFile THEN [r EXCEPT !.removed = TRUE] ELSE Opened(r, d, f) IN
  /\ running
  /\ ~drive[d].attached
  /\ f = NoFile => Removable(d)
  /\ f # NoFile => Available(f) /\ CacheWorks(mode, f)
  /\ Set(d, SetProtected(open, p))
  /\ reserved' = IF f = NoFile THEN reserved ELSE [reserved EXCEPT ![f] = d]
  /\ known' = [known EXCEPT ![d] = f]
  /\ UNCHANGED <<service, lost>>

\* The checks of CommandExecutor::Insert() and ValidateImageFile(): the file
\* asked for, or else the one ejected last.
MayInsert(d, f) ==
  /\ Up(d)
  /\ Removable(d)
  /\ drive[d].removed
  /\ f \in File
  /\ Available(f)

InsertSilently(d, f, p) ==   \* (a mutation: SetMediumChanged is forgotten)
  /\ MayInsert(d, f)
  /\ Set(d, SetProtected(Opened(drive[d], d, f), p))
  /\ reserved' = [reserved EXCEPT ![f] = d]
  /\ UNCHANGED <<service, known, lost>>
Insert(d, f, p) ==
  /\ MayInsert(d, f)
  /\ CacheWorks(drive[d].mode, f)
  /\ Set(d, SetProtected([Opened(drive[d], d, f) EXCEPT !.changed = TRUE], p))
  /\ reserved' = [reserved EXCEPT ![f] = d]
  /\ UNCHANGED <<service, known, lost>>

\* Open() throws: the drive keeps the name of a file it has not reserved.
InsertOpenFails(d, f) ==
  /\ MayInsert(d, f)
  /\ Set(d, [drive[d] EXCEPT !.filename = f])
  /\ UNCHANGED <<reserved, running, known, lost>>
  /\ adrift' = TRUE

\* Open() throws because the LinuxCache cannot be initialised: by then
\* ValidateFile() has set the drive ready.
InsertCacheFails(d, f) ==
  /\ MayInsert(d, f)
  /\ ~CacheWorks(drive[d].mode, f)
  /\ Set(d, [Opened(drive[d], d, f) EXCEPT !.attn = drive[d].attn])
  /\ UNCHANGED <<reserved, running, known, lost>>
  /\ adrift' = TRUE

\* CommandExecutor::Eject() forces, and a drive that is not ready is left as it is.
Eject(d) ==
  LET r == drive[d] IN
  /\ Up(d)
  /\ Removable(d)
  /\ r.ready
  /\ Set(d, Ejected(r))
  /\ reserved' = Unreserved(reserved, r.filename)
  /\ lost' = lost \cup Dropped(WrittenByEject(r))
  /\ UNCHANGED <<service, known>>

\* CommandExecutor::Start(): Device::Start() refuses a drive that is not ready.
Start(d) ==
  /\ Up(d)
  /\ Set(d, [drive[d] EXCEPT !.stopped = @ /\ ~drive[d].ready])
  /\ UNCHANGED <<reserved, service, known, lost>>

\* CommandExecutor::Stop()
Stop(d) ==
  /\ Up(d)
  /\ Set(d, [drive[d] EXCEPT !.ready = FALSE, !.attn = FALSE, !.stopped = TRUE])
  /\ UNCHANGED <<reserved, service, known, lost>>

\* CommandExecutor::Protect() and Unprotect()
Protect(d, p) ==
  /\ Up(d)
  /\ drive[d].protectable
  /\ drive[d].ready
  /\ Set(d, SetProtected(drive[d], p))
  /\ UNCHANGED <<reserved, service, known, lost>>

\* Disk::CleanUp() of the drives in D, which are then destroyed.
CleanUp(D) ==
  /\ drive' = [d \in Drive |-> IF d \in D THEN NewDrive(d) ELSE drive[d]]
  /\ reserved' = [f \in File |->
                    IF \E d \in D : drive[d].filename = f THEN NoDrive ELSE reserved[f]]
  /\ lost' = lost \cup UNION {Dropped(Flushed(drive[d])) : d \in D}
  /\ known' = [d \in Drive |-> IF d \in D THEN NoFile ELSE known[d]]

\* CommandExecutor::Detach() and AbstractController::RemoveDevice()
Detach(d) == Up(d) /\ CleanUp({d}) /\ UNCHANGED service

Attached == {d \in Drive : drive[d].attached}

DetachAll == running /\ Attached # {} /\ CleanUp(Attached) /\ UNCHANGED service

\* S2p::CleanUp() on a signal or a SHUT_DOWN request
Terminate == running /\ CleanUp(Attached) /\ running' = FALSE /\ UNCHANGED adrift

-------------------------------------------------------------------------------
(* The host.  A drive whose medium has changed says so instead of executing
   the command; a CD or MO drive that was opened does the same once in
   CheckReady(). *)

ReportChange(d) ==
  /\ Up(d)
  /\ drive[d].changed
  /\ Set(d, [drive[d] EXCEPT !.changed = FALSE])
  /\ known' = [known EXCEPT ![d] = drive[d].medium]
  /\ UNCHANGED <<reserved, service, lost>>

ReportAttention(d) ==
  /\ Up(d)
  /\ ~drive[d].changed
  /\ drive[d].attn
  /\ Set(d, [drive[d] EXCEPT !.attn = FALSE])
  /\ known' = [known EXCEPT ![d] = drive[d].medium]
  /\ UNCHANGED <<reserved, service, lost>>

\* StorageDevice::Dispatch() passes the command on, CheckReady() lets it through.
Executes(d) == Up(d) /\ ~drive[d].changed
PassesCheckReady(d) == Executes(d) /\ ~drive[d].attn /\ drive[d].ready

\* Write(), WriteSectors()
Write(d) ==
  /\ PassesCheckReady(d)
  /\ ~drive[d].protected
  /\ CacheWorks(drive[d].mode, drive[d].medium)
  /\ Set(d, [drive[d] EXCEPT !.dirty = @ \/ drive[d].mode # "write_through"])
  /\ UNCHANGED <<reserved, service, known, lost>>

\* SYNCHRONIZE CACHE, VERIFY, and START STOP UNIT with neither bit set
SynchronizeCache(d) ==
  /\ Executes(d)
  /\ Set(d, Flushed(drive[d]))
  /\ UNCHANGED <<reserved, service, known, lost>>

\* READ LONG and WRITE LONG leave the PISCSI caching mode: the cache is flushed
\* and set up again, now for the current file name.
SwitchToLinuxCache(d) ==
  LET r == drive[d] IN
  /\ PassesCheckReady(d)
  /\ r.mode = "piscsi"
  /\ Set(d, [r EXCEPT !.mode = "linux", !.medium = r.filename, !.dirty = FALSE])
  /\ lost' = lost \cup Dropped(Flushed(r))
  /\ UNCHANGED <<reserved, service, known>>

\* StartStopUnit() without the LOEJ bit
StartUnit(d) ==
  /\ Executes(d)
  /\ Set(d, [drive[d] EXCEPT !.stopped = FALSE])
  /\ UNCHANGED <<reserved, service, known, lost>>
StopUnit(d) ==
  /\ Executes(d)
  /\ Set(d, Flushed([drive[d] EXCEPT !.stopped = TRUE]))
  /\ UNCHANGED <<reserved, service, known, lost>>

\* StartStopUnit() with LOEJ: eject
EjectUnlocked(d) ==   \* (a mutation: the lock is not checked)
  /\ Executes(d)
  /\ Removable(d)
  /\ drive[d].ready
  /\ Set(d, Ejected(drive[d]))
  /\ reserved' = Unreserved(reserved, drive[d].filename)
  /\ lost' = lost \cup Dropped(WrittenByEject(drive[d]))
  /\ UNCHANGED <<service, known>>
EjectUnit(d) ==
  LET r == drive[d] IN
  /\ Executes(d)
  /\ Removable(d)
  /\ r.ready
  /\ ~r.locked
  /\ Set(d, Ejected(r))
  /\ reserved' = Unreserved(reserved, r.filename)
  /\ lost' = lost \cup Dropped(WrittenByEject(r))
  /\ UNCHANGED <<service, known>>

\* StartStopUnit() with LOEJ and START: the file ejected last is named and
\* reserved again, but not opened.  If the file is reserved, the name stays.
LoadUnit(d) ==
  LET r == drive[d] IN
  /\ Executes(d)
  /\ r.last # NoFile
  /\ IF Available(r.last)
       THEN /\ Set(d, [r EXCEPT !.filename = r.last, !.changed = TRUE])
            /\ reserved' = [reserved EXCEPT ![r.last] = d]
       ELSE /\ Set(d, [r EXCEPT !.filename = r.last])
            /\ UNCHANGED reserved
  /\ UNCHANGED <<running, known, lost>>
  /\ adrift' = TRUE

PreventAllowMediumRemoval(d, prevent) ==
  /\ PassesCheckReady(d)
  /\ Set(d, [drive[d] EXCEPT !.locked = prevent])
  /\ UNCHANGED <<reserved, service, known, lost>>

\* PrimaryDevice::Reset(), on a bus reset
Reset(d) ==
  /\ Up(d)
  /\ Set(d, [drive[d] EXCEPT !.attn = FALSE, !.locked = FALSE])
  /\ UNCHANGED <<reserved, service, known, lost>>

-------------------------------------------------------------------------------
Remote ==
  \/ \E d \in Drive, f \in Maybe, mode \in AttachMode, p \in BOOLEAN : Attach(d, f, mode, p)
  \/ \E d \in Drive, f \in File, p \in BOOLEAN : Insert(d, f, p)
  \/ \E d \in Drive, f \in File : InsertOpenFails(d, f) \/ InsertCacheFails(d, f)
  \/ \E d \in Drive : Eject(d) \/ Start(d) \/ Stop(d) \/ Detach(d)
  \/ \E d \in Drive, p \in BOOLEAN : Protect(d, p)
  \/ DetachAll
  \/ Terminate

HostStep(d) ==
  \/ ReportChange(d)
  \/ ReportAttention(d)
  \/ Write(d)
  \/ SynchronizeCache(d)
  \/ SwitchToLinuxCache(d)
  \/ StartUnit(d)
  \/ StopUnit(d)
  \/ EjectUnit(d)
  \/ LoadUnit(d)
  \/ \E prevent \in BOOLEAN : PreventAllowMediumRemoval(d, prevent)
  \/ Reset(d)

Next == Remote \/ \E d \in Drive : HostStep(d)

Spec == Init /\ [][Next]_vars

-------------------------------------------------------------------------------
DriveRecord ==
  [attached : BOOLEAN, ready : BOOLEAN, stopped : BOOLEAN, removed : BOOLEAN,
   locked : BOOLEAN, attn : BOOLEAN, readOnly : BOOLEAN, protectable : BOOLEAN,
   protected : BOOLEAN, changed : BOOLEAN, filename : Maybe, last : Maybe,
   mode : CachingMode, medium : Maybe, dirty : BOOLEAN]

\* The types of the members of the drives and of reserved_files.
TypeOK ==
  /\ drive \in [Drive -> DriveRecord]
  /\ reserved \in [File -> Drive \cup {NoDrive}]
  /\ running \in BOOLEAN
  /\ known \in [Drive -> Maybe]
  /\ lost \in SUBSET File
  /\ adrift \in BOOLEAN

\* A ready drive has a cache to serve requests from and a medium that was not
\* removed: ReadData() and WriteData() use "cache" after CheckReady() alone.
ReadyHasMedium == \A d \in Drive : drive[d].ready =>
  drive[d].attached /\ drive[d].medium # NoFile /\ ~drive[d].removed

\* A drive that accepts commands serves the medium the host knows of: no write
\* goes to a medium whose change has not been reported (StorageDevice::Dispatch()).
\* After a LOAD only names a file, READ LONG opens that file unannounced.
KnownMedium == \A d \in Drive :
  /\ ~adrift
  /\ drive[d].ready
  /\ ~drive[d].changed
  /\ CacheWorks(drive[d].mode, drive[d].medium)
  => known[d] = drive[d].medium

\* The drives' members agree with each other and with what the host knows: all three.
MediaAgree == TypeOK /\ ReadyHasMedium /\ KnownMedium

\* reserved_files is "the list of image files in use": a file a drive works on is
\* reserved for this drive, until a LOAD or a failed INSERT names a file in a
\* drive that does not open it.
UsedIsReserved == \A d \in Drive :
  ~adrift /\ drive[d].medium # NoFile => reserved[drive[d].medium] = d

\* The other direction: a reserved file is the one its drive has in it.
ReservedIsUsed == \A f \in File :
  ~adrift /\ reserved[f] # NoDrive => drive[reserved[f]].medium = f

\* The list and the drives say the same: both directions.
ReservedExactly == UsedIsReserved /\ ReservedIsUsed

\* PREVENT ALLOW MEDIUM REMOVAL: while the medium is locked, nothing the host
\* does takes it out of the drive (with the same exception).
LockedStays == [][\A d \in Drive :
  drive[d].locked /\ ~adrift /\ (\E e \in Drive : HostStep(e))
    => drive'[d].medium = drive[d].medium]_vars

\* Disk::CleanUp(): detaching a ready drive writes what the host was told is
\* written, if no other drive works on the same file.
DetachSaves == [][\A d \in Drive :
  /\ drive[d].ready
  /\ ~drive'[d].attached
  /\ drive[d].medium \notin ReadOnlyFile
  /\ \A e \in Drive \ {d} : drive[e].medium # drive[d].medium
  => drive[d].medium \notin lost' \ lost]_vars

\* StorageDevice::Eject() flushes the cache: no write is lost by ejecting a medium.
EjectSaves == [][(\E d \in Drive : Eject(d) \/ EjectUnit(d)) => lost' = lost]_vars
===============================================================================
