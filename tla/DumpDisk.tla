------------------------------ MODULE DumpDisk ------------------------------
(***************************************************************************)
(* s2pdump with a disk drive: DumpRestoreDisk() in s2pdump/s2pdump_core.cpp*)
(* copies the sectors of a drive to an image file, or an image file to the *)
(* drive, a buffer at a time, over the bus or with SgAdapter               *)
(* (shared/sg_adapter.cpp).  The drive is external.  A unit is a number of *)
(* bytes; W32 stands for 2^32, W16 for 2^16.                               *)
(***************************************************************************)
EXTENDS Integers, Sequences

CONSTANTS Jobs,      \* [driver, restore, sasi, sector_size, buffer, start, count, image]: what
                     \* s2pdump is asked for; driver: "BOARD" or "SG"; image: the units of an image
                     \* file to restore
          Capacity,  \* sectors of the drive
          W16, W32,
          MAX_TRANSFER_LENGTH, \* of SgAdapter
          SasiLimit  \* sectors in a SASI command

VARIABLES
  job,
  disk,              \* the units of the drive
  image,             \* the units of the image file
  effective_size, sector_offset, rest,
  active,            \* FALSE after a signal
  disk_step,
  disk0              \* history: the drive at the start

diskVars == <<job, disk, image, effective_size, sector_offset, rest, active, disk_step, disk0>>

STALE == [by |-> "BUFFER", n |-> 0]
Of(who, n) == [by |-> who, n |-> n]
Least(a, b) == IF a < b THEN a ELSE b
UpTo(n, u) == [i \in 1..n |-> u[i]]

TypeOK ==
  /\ job \in Jobs
  /\ DOMAIN disk = 1..Capacity * job.sector_size
  /\ effective_size \in 0..W32 - 1 /\ sector_offset \in Nat /\ rest \in Nat
  /\ active \in BOOLEAN
  /\ disk_step \in {"INFO", "SIZE", "COPY", "SYNC", "DONE", "NOTHING", "ERROR"}

Init ==
  /\ job \in Jobs
  /\ disk = [u \in 1..Capacity * job.sector_size |-> Of("DISK", u)] /\ disk0 = disk
  /\ image = [u \in 1..job.image |-> Of("IMAGE", u)]
  /\ effective_size = 0 /\ sector_offset = 0 /\ rest = 0 /\ active = TRUE /\ disk_step = "INFO"

-----------------------------------------------------------------------------
\* GetDeviceInfo(): INQUIRY and READ CAPACITY may fail; then the image file is opened, which empties
\* it for a dump.
DeviceInfo ==
  /\ disk_step = "INFO"
  /\ \/ disk_step' = "ERROR" /\ UNCHANGED image
     \/ disk_step' = "SIZE" /\ image' = IF job.restore THEN image ELSE <<>>
  /\ UNCHANGED <<job, disk, effective_size, sector_offset, rest, active, disk0>>

\* CalculateEffectiveSize(): the size in bytes is a number of 32 bits.  A start or a count out of
\* range, or nothing to copy, ends s2pdump without an error.
SectorCount == IF job.count = 0 THEN Capacity - job.start ELSE job.count

CalculateEffectiveSize ==
  /\ disk_step = "SIZE"
  /\ LET size == (SectorCount * job.sector_size) % W32
         bytes == IF job.restore THEN Least(Len(image), size) ELSE size
     IN  IF Capacity <= job.start \/ Capacity < job.start + SectorCount \/ bytes = 0
         THEN disk_step' = "NOTHING" /\ UNCHANGED <<effective_size, sector_offset, rest>>
         ELSE /\ disk_step' = "COPY"
              /\ effective_size' = bytes /\ rest' = bytes /\ sector_offset' = job.start
  /\ UNCHANGED <<job, disk, image, active, disk0>>

\* The next piece: as much as the buffer holds, in whole sectors as they are counted in the CDB.
CurrentCount == LET n == Least(rest, job.buffer) IN
                IF job.sasi THEN Least(n, SasiLimit * job.sector_size) ELSE n
Sectors == (CurrentCount + job.sector_size - 1) \div job.sector_size
First == sector_offset * job.sector_size
Counted == Sectors % W16                         \* in the CDB of READ(10) and WRITE(10)

\* SgAdapter::SendCommand(): what GetAllocationLength() finds in the CDB is the number of units to
\* transfer, and the number of sectors of each piece is calculated from that.
SgTotal == IF Counted = 0 THEN Sectors * job.sector_size ELSE Counted
Piece(p) == (p - 1) \div MAX_TRANSFER_LENGTH
PieceSectors(i) == Least(MAX_TRANSFER_LENGTH, SgTotal - i * MAX_TRANSFER_LENGTH) \div job.sector_size
SgUnit(p) ==
  LET at == p - Piece(p) * MAX_TRANSFER_LENGTH
      before == Piece(p) * (MAX_TRANSFER_LENGTH \div job.sector_size)
  IN  IF p <= SgTotal /\ at <= PieceSectors(Piece(p)) * job.sector_size
      THEN First + before * job.sector_size + at ELSE 0

\* The unit of the drive that unit p of the buffer is read from or written to, or 0.
Unit(p) == IF job.driver = "SG" THEN SgUnit(p) ELSE IF p <= Counted * job.sector_size THEN First + p ELSE 0
Buffer == 1..Sectors * job.sector_size

\* ReadWrite() of the executor: all of it, or an error, with a write done in part.
Readable == \A p \in Buffer : Unit(p) <= Capacity * job.sector_size
FromDisk == [p \in 1..CurrentCount |-> IF Unit(p) # 0 THEN disk[Unit(p)] ELSE STALE]
FromFile(p) == IF p <= CurrentCount THEN image[effective_size - rest + p] ELSE STALE
Overwritten(n) ==          \* by the first n units of the buffer
  [u \in DOMAIN disk |-> IF \E p \in 1..n : Unit(p) = u
                         THEN FromFile(CHOOSE p \in 1..n : Unit(p) = u) ELSE disk[u]]

\* ReadWrite() of s2pdump: the file or the drive may fail.
Copy ==
  /\ disk_step = "COPY" /\ rest > 0 /\ active
  /\ \/ /\ Readable
        /\ IF job.restore THEN disk' = Overwritten(Sectors * job.sector_size) /\ UNCHANGED image
           ELSE image' = image \o FromDisk /\ UNCHANGED disk
        /\ sector_offset' = sector_offset + Sectors
        /\ rest' = rest - CurrentCount
        /\ UNCHANGED disk_step
     \/ /\ disk_step' = "ERROR"
        /\ \/ UNCHANGED <<disk, image>>
           \/ job.restore /\ Readable /\ UNCHANGED image
                /\ \E k \in 1..Sectors : disk' = Overwritten(k * job.sector_size)
           \/ ~job.restore /\ Readable /\ UNCHANGED disk
                /\ \E k \in 0..CurrentCount : image' = image \o UpTo(k, FromDisk)
        /\ UNCHANGED <<sector_offset, rest>>
  /\ UNCHANGED <<job, effective_size, active, disk0>>

\* The end of the loop; after a restore the drive is asked to write what it caches.
Finish ==
  /\ disk_step = "COPY" /\ (rest = 0 \/ ~active)
  /\ disk_step' = IF job.restore THEN "SYNC" ELSE "DONE"
  /\ UNCHANGED <<job, disk, image, effective_size, sector_offset, rest, active, disk0>>

SynchronizeCache ==
  /\ disk_step = "SYNC" /\ disk_step' = "DONE"
  /\ UNCHANGED <<job, disk, image, effective_size, sector_offset, rest, active, disk0>>

\* TerminationHandler(): the bus is reset and the loop ends with the piece at hand.
Signal ==
  /\ active /\ disk_step \in {"INFO", "SIZE", "COPY", "SYNC"} /\ active' = FALSE
  /\ UNCHANGED <<job, disk, image, effective_size, sector_offset, rest, disk_step, disk0>>

Next == DeviceInfo \/ CalculateEffectiveSize \/ Copy \/ Finish \/ SynchronizeCache \/ Signal

-----------------------------------------------------------------------------
\* With a buffer of whole sectors and sizes that fit their types, s2pdump that comes to the end of
\* the loop has copied exactly the sectors it was asked for, or as much of them as the image has;
\* and a restore has never written to another sector (s2pdump_core.cpp:565-628, 653-676, 779-826).
CopiesAll ==
  LET first == job.start * job.sector_size
      size == SectorCount * job.sector_size
      whole == disk_step = "DONE" /\ rest = 0
  IN  /\ job.buffer % job.sector_size = 0 /\ size < W32 /\ job.buffer \div job.sector_size < W16 =>
           IF job.restore
           THEN /\ \A u \in DOMAIN disk : u <= first \/ u > first + size => disk[u] = disk0[u]
                /\ whole => \A i \in 1..Least(size, Len(image)) : disk[first + i] = image[i]
           ELSE /\ \A i \in 1..Len(image) : disk_step \notin {"INFO", "SIZE"} /\ effective_size > 0 =>
                     image[i] = disk0[first + i]
                /\ whole => Len(image) = size
      /\ ~job.restore => disk = disk0

\* That is so over the bus.
DiskCopied == job.driver = "BOARD" => CopiesAll

\* The manual says it of every driver: "s2pdump will copy all data from a remote drive to an image"
\* (doc/s2pdump.1:29), "Use the Linux SG driver with the specified device file instead of a
\* RaSCSI/PiSCSI board" (doc/s2pdump.1:91).
SgDiskCopied == job.driver = "SG" /\ ~job.restore => CopiesAll
=============================================================================
