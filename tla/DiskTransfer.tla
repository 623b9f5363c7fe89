--------------------------- MODULE DiskTransfer ---------------------------
(***************************************************************************)
(* The transfers of a disk drive (devices/disk.cpp with storage_device.cpp,*)
(* scsi_cd.cpp and linux_cache.cpp, and the part of the controller that    *)
(* moves a transfer on chunk by chunk).  The medium is a row of units, a   *)
(* block is one or more of them.  Numbers have a width: W32 stands for     *)
(* 2^32, W64 for 2^64.  What a cache is to a drive is put as BlockStore    *)
(* has it: contents, what of them is in the file, operations that fail.    *)
(***************************************************************************)
EXTENDS Integers, Sequences

CONSTANTS MediumSize,        \* units of the image file
          DefaultSize,       \* block size, in units, with which it is opened
          Sizes,             \* block sizes a MODE SELECT may ask for
          Cdb6, Cdb10, Cdb16,\* [start, count] of READ, WRITE and VERIFY, by their length
          LongCdb,           \* [sector, length] of READ LONG and WRITE LONG
          W32, W64,
          Count6,            \* the number of blocks a count of 0 stands for in a 6-byte CDB
          MaxCommands        \* commands in a run

VARIABLES
  drive,            \* [type, ready, protected]
  caching_mode,
  block_size,       \* as the drive has it
  blocks,
  sector_size,      \* as the cache has it
  sectors,
  content,          \* what reading a unit of the medium gives
  stable,           \* what the image file holds
  phase, status,
  cdb,              \* the command: [op, start, count]
  next_sector, remaining_length, chunk_size, current_length,
  buffer,           \* the data at hand in a DATA IN phase
  received,         \* history: what the host has received in this command
  sent,             \* history: number of units the host has sent in this command
  before,           \* history: content when the command began
  faulty,           \* history: has a result of Flush() been dropped that was an error?
  commands          \* number of commands, for the bound

medium == <<drive, caching_mode, block_size, blocks, sector_size, sectors, content, stable, faulty>>
transfer == <<next_sector, remaining_length, chunk_size, current_length, buffer>>
history == <<received, sent, before>>
transferVars == <<medium, phase, status, cdb, transfer, history, commands>>

Unit == 0..MediumSize - 1
Mode == {"PISCSI", "LINUX", "WRITE_THROUGH", "LINUX_OPTIMIZED"}
Reads == {"READ_6", "READ_10", "READ_16"}
Writes == {"WRITE_6", "WRITE_10", "WRITE_16"}
Longs == {"READ_LONG", "WRITE_LONG"}
Verifies == {"VERIFY_10", "VERIFY_16"}
STALE == -1                       \* whatever was in the buffer before
Sent(k) == MediumSize + k         \* the k-th unit a host sends in a command

\* Conversion to a signed and to an unsigned integer of 32 bits.
ToInt(n) == LET m == n % W32 IN IF m < W32 \div 2 THEN m ELSE m - W32
ToUint(n) == n % W32
Least(a, b) == IF a < b THEN a ELSE b

TypeOK ==
  /\ drive \in [type : {"HD", "CD"}, ready : BOOLEAN, protected : BOOLEAN]
  /\ caching_mode \in Mode
  /\ block_size \in Nat \ {0} /\ blocks \in Nat /\ sector_size \in Nat \ {0} /\ sectors \in Nat
  /\ content \in [Unit -> Nat] /\ stable \in [Unit -> Nat]
  /\ phase \in {"FREE", "DATA_IN", "DATA_OUT"}
  /\ status \in {"GOOD", "NOT_READY", "DATA_PROTECT", "LBA_OUT_OF_RANGE", "INVALID_FIELD",
                 "READ_ERROR", "WRITE_FAULT", "NONE"}
  /\ next_sector \in 0..W64 - 1
  /\ {remaining_length, chunk_size, current_length} \subseteq -W32..W32
  /\ commands \in 0..MaxCommands /\ faulty \in BOOLEAN

\* Open(): the whole blocks of the image file.
BlocksOf(size) == MediumSize \div size

Init ==
  /\ drive \in {[type |-> "HD", ready |-> r, protected |-> p] : r, p \in BOOLEAN}
                 \cup {[type |-> "CD", ready |-> TRUE, protected |-> TRUE]}
  /\ caching_mode \in Mode
  /\ block_size = DefaultSize /\ blocks = BlocksOf(DefaultSize)
  /\ sector_size = DefaultSize /\ sectors = BlocksOf(DefaultSize)
  /\ content = [u \in Unit |-> u] /\ stable = content
  /\ phase = "FREE" /\ status = "NONE"
  /\ cdb = [op |-> "NONE", start |-> 0, count |-> 0]
  /\ next_sector = 0 /\ remaining_length = 0 /\ chunk_size = 0 /\ current_length = 0
  /\ buffer = <<>> /\ received = <<>> /\ sent = 0 /\ before = content
  /\ faulty = FALSE /\ commands = 0

-----------------------------------------------------------------------------
\* The cache.

Covered(start, count) ==
  LET first == sector_size * start IN {u \in Unit : first <= u /\ u < first + sector_size * count}

\* ReadSectors() of count sectors, for a transfer of n units.
Read(start, count, n) ==
  [i \in 1..n |-> IF i <= sector_size * count THEN content[sector_size * start + i - 1] ELSE STALE]

\* The contents once the units k + 1, ... the host has sent are written from a sector on.
Written(start, us, k) ==
  [u \in Unit |-> IF u \in us THEN Sent(k + 1 + u - sector_size * start) ELSE content[u]]

\* Flush(): it writes everything or fails on the way; nobody looks at the result.
FlushCache ==
  IF ~drive.ready THEN UNCHANGED <<stable, faulty>>
  ELSE \/ stable' = content /\ UNCHANGED faulty
       \/ stable # content /\ faulty' = TRUE /\ UNCHANGED stable

\* Write() and WriteSectors(): a failure may leave the first units written, and a
\* write-through cache reports whether they are in the file.
WriteSectors(start, count, k) ==
  LET us == Covered(start, count)
      all == Written(start, us, k)
  IN  \/ /\ start + count <= sectors
         /\ content' = all
         /\ stable' = IF caching_mode = "WRITE_THROUGH" THEN all ELSE stable
         /\ status' = "GOOD"
      \/ /\ status' = "WRITE_FAULT"
         /\ \E n \in IF start + count <= sectors /\ caching_mode # "PISCSI" THEN {0, 1} ELSE {0} :
              content' = Written(start, {u \in us : u < sector_size * start + n}, k)
         /\ UNCHANGED stable

-----------------------------------------------------------------------------
\* The start of a command.

Begin(op, start, count) ==
  /\ phase = "FREE" /\ commands < MaxCommands
  /\ commands' = commands + 1
  /\ cdb' = [op |-> op, start |-> start, count |-> count]
  /\ received' = <<>> /\ sent' = 0 /\ before' = content

Ends(s) == phase' = "FREE" /\ status' = s /\ UNCHANGED transfer

\* CheckAndGetStartAndCount(): start + count is a number of 64 bits.
InCapacity(start, count) == blocks # 0 /\ (start + count) % W64 <= blocks

\* The sense key or additional sense code an access is rejected with, or GOOD.
Checked(op, start, count) ==
  IF op \in Writes /\ drive.protected THEN "DATA_PROTECT"
  ELSE IF ~drive.ready THEN "NOT_READY"
  ELSE IF ~InCapacity(start, count) THEN "LBA_OUT_OF_RANGE"
  ELSE "GOOD"

\* SetTransferSize(), with sector_transfer_count sectors in a chunk.
TransferCount(count) == IF caching_mode = "LINUX_OPTIMIZED" THEN count ELSE 1

\* As SetTransferSize(), with the whole transfer as a chunk in every caching mode.
SetTransferSizeOneChunk(count) ==
  remaining_length' = ToInt(count * block_size) /\ chunk_size' = ToInt(count * block_size)

SetTransferSize(count) ==
  /\ remaining_length' = ToInt(count * block_size)
  /\ chunk_size' = Least(ToInt(count * block_size), ToInt(TransferCount(count) * block_size))

\* ReadData() of the next chunk at a sector; a CD has one track, its whole capacity.
ReadData(sector, count) ==
  \/ /\ ToUint(sector) + count <= sectors
     /\ sector_size * (ToUint(sector) + count) <= MediumSize
     /\ drive.type = "CD" => ToUint(sector) <= blocks - 1
     /\ buffer' = Read(ToUint(sector), count, block_size * count)
     /\ next_sector' = (sector + count) % W64
     /\ phase' = "DATA_IN" /\ status' = "GOOD"
  \/ /\ status' = IF drive.type = "CD" /\ ToUint(sector) > blocks - 1
                  THEN "LBA_OUT_OF_RANGE" ELSE "READ_ERROR"
     /\ phase' = "FREE" /\ UNCHANGED <<buffer, next_sector>>

Access(op, start, count) ==
  /\ Begin(op, start, count)
  /\ LET s == Checked(op, start, count) IN
     IF s # "GOOD" \/ count = 0 \/ op \in Verifies
     THEN /\ Ends(s)
          /\ IF s = "GOOD" /\ op \in Verifies THEN FlushCache ELSE UNCHANGED <<stable, faulty>>
     ELSE /\ SetTransferSize(count)
          /\ current_length' = block_size * TransferCount(count)
          /\ IF op \in Reads THEN ReadData(start, TransferCount(count))
             ELSE /\ phase' = "DATA_OUT" /\ status' = "GOOD" /\ next_sector' = start
                  /\ UNCHANGED buffer
          /\ UNCHANGED <<stable, faulty>>
  /\ UNCHANGED <<drive, caching_mode, block_size, blocks, sector_size, sectors, content>>

\* A chunk of 2^31 bytes or more has no size.
HasSize(count) == TransferCount(count) * block_size < W32 \div 2

ReadWrite ==
  \/ \E c \in Cdb6, op \in {"READ_6", "WRITE_6"} :
       LET n == IF c.count = 0 THEN Count6 ELSE c.count IN
         (InCapacity(c.start, n) => HasSize(n)) /\ Access(op, c.start, n)
  \/ \E c \in Cdb10, op \in {"READ_10", "WRITE_10", "VERIFY_10"} :
       (InCapacity(c.start, c.count) => HasSize(c.count)) /\ Access(op, c.start, c.count)
  \/ \E c \in Cdb16, op \in {"READ_16", "WRITE_16", "VERIFY_16"} :
       (InCapacity(c.start, c.count) => HasSize(c.count)) /\ Access(op, c.start, c.count)

-----------------------------------------------------------------------------
\* READ LONG and WRITE LONG: one sector, through a Linux cache.

LongChecked(op, c) ==
  IF ~drive.ready THEN "NOT_READY"
  ELSE IF c.sector >= blocks THEN "LBA_OUT_OF_RANGE"
  ELSE IF op = "WRITE_LONG" /\ drive.protected THEN "DATA_PROTECT"
  ELSE IF c.length = 0 THEN "GOOD"
  ELSE IF c.length # block_size THEN "INVALID_FIELD"
  ELSE "TRANSFER"

\* The track cache is flushed and replaced, and what it could not write is gone.
SwitchToLinuxCache ==
  IF caching_mode # "PISCSI"
  THEN UNCHANGED <<caching_mode, sector_size, sectors, content, stable, faulty>>
  ELSE /\ FlushCache
       /\ caching_mode' = "LINUX"
       /\ sector_size' = block_size /\ sectors' = blocks
       /\ content' = stable'

\* A READ LONG whose read fails has no data to send, and no error.
ReadLong(sector) ==
  \/ /\ sector_size' * (sector + 1) <= MediumSize
     /\ buffer' = [i \in 1..block_size |-> content'[sector_size' * sector + i - 1]]
     /\ current_length' = block_size /\ phase' = "DATA_IN" /\ status' = "GOOD"
  \/ current_length' = 0 /\ phase' = "FREE" /\ status' = "GOOD" /\ UNCHANGED buffer

Long(op, c) ==
  /\ Begin(op, c.sector, IF c.length = 0 THEN 0 ELSE 1)
  /\ LET s == LongChecked(op, c) IN
     IF s # "TRANSFER"
     THEN /\ Ends(s)
          /\ UNCHANGED <<caching_mode, sector_size, sectors, content, stable, faulty>>
     ELSE /\ SwitchToLinuxCache
          /\ remaining_length' = block_size /\ chunk_size' = block_size
          /\ IF op = "READ_LONG" THEN ReadLong(c.sector) /\ UNCHANGED next_sector
             ELSE /\ phase' = "DATA_OUT" /\ status' = "GOOD"
                  /\ next_sector' = c.sector /\ current_length' = block_size
                  /\ UNCHANGED buffer
  /\ UNCHANGED <<drive, block_size, blocks>>

-----------------------------------------------------------------------------
\* Commands without sectors.

SynchronizeCache ==
  /\ Begin("SYNCHRONIZE_CACHE", 0, 0)
  /\ FlushCache
  /\ Ends("GOOD")
  /\ UNCHANGED <<drive, caching_mode, block_size, blocks, sector_size, sectors, content>>

\* ChangeBlockSize(): the number of blocks and the cache follow the size.
ChangeBlockSize(old, new) ==
  IF new = old THEN UNCHANGED <<blocks, sector_size, sectors, stable, faulty>>
  ELSE /\ blocks' = (old * blocks) \div new
       /\ FlushCache
       /\ sector_size' = new /\ sectors' = blocks'

\* ModeSelect(): the block descriptor is taken before the pages are looked at, so that
\* ChangeBlockSize() finds the new size in place.  paged: are the pages acceptable?
ModeSelect(size, paged) ==
  /\ Begin("MODE_SELECT", 0, 0)
  /\ block_size' = size
  /\ IF paged THEN Ends("GOOD") /\ ChangeBlockSize(size, size)
     ELSE Ends("INVALID_FIELD") /\ UNCHANGED <<blocks, sector_size, sectors, stable, faulty>>
  /\ UNCHANGED <<drive, caching_mode, content>>

\* READ CAPACITY: the address of the last block and the block size.
ReadCapacity ==
  /\ Begin("READ_CAPACITY", 0, 0)
  /\ IF ~drive.ready THEN Ends("NOT_READY") /\ UNCHANGED buffer
     ELSE IF blocks = 0 THEN Ends("INVALID_FIELD") /\ UNCHANGED buffer
     ELSE /\ buffer' = <<IF blocks - 1 > W32 - 1 THEN W32 - 1 ELSE blocks - 1, block_size>>
          /\ phase' = "DATA_IN" /\ status' = "GOOD"
          /\ remaining_length' = 2 /\ chunk_size' = 2 /\ current_length' = 2
          /\ UNCHANGED next_sector
  /\ UNCHANGED medium

-----------------------------------------------------------------------------
\* The transfer, chunk by chunk.

\* UpdateTransferLength()
Update(length) ==
  LET r == remaining_length - length
      left == IF r < 0 THEN 0 ELSE r
  IN  [remaining |-> left, chunk |-> Least(left, chunk_size)]

\* Send(): the chunk at hand reaches the host, and the next one is read.
Send ==
  /\ phase = "DATA_IN"
  /\ received' = received \o buffer
  /\ LET u == Update(chunk_size) IN
     /\ remaining_length' = u.remaining /\ chunk_size' = u.chunk
     /\ IF u.remaining = 0
        THEN phase' = "FREE" /\ status' = "GOOD" /\ UNCHANGED <<buffer, next_sector, current_length>>
        ELSE /\ ReadData(next_sector, TransferCount(cdb.count))
             /\ current_length' = Least(u.remaining, u.chunk)
  /\ UNCHANGED <<medium, cdb, sent, before, commands>>

\* Receive(): a chunk has come from the host and is written.
Receive ==
  /\ phase = "DATA_OUT"
  /\ sent' = sent + current_length
  /\ LET count == IF cdb.op = "WRITE_LONG" THEN 1 ELSE TransferCount(cdb.count)
         u == Update(Least(chunk_size, remaining_length))
     IN  /\ WriteSectors(ToUint(next_sector), count, sent)
         /\ IF status' = "WRITE_FAULT"
            THEN phase' = "FREE" /\ UNCHANGED transfer
            ELSE /\ next_sector' = (next_sector + count) % W64
                 /\ remaining_length' = u.remaining /\ chunk_size' = u.chunk /\ current_length' = u.chunk
                 /\ phase' = IF u.remaining = 0 THEN "FREE" ELSE "DATA_OUT"
                 /\ UNCHANGED buffer
  /\ UNCHANGED <<drive, caching_mode, block_size, blocks, sector_size, sectors, faulty,
                 cdb, received, before, commands>>

\* A handshake fails or the bus is reset: the chunk at hand is lost.
BreakOff ==
  /\ phase \in {"DATA_IN", "DATA_OUT"}
  /\ phase' = "FREE" /\ status' = "NONE"
  /\ UNCHANGED <<medium, cdb, transfer, history, commands>>

Next ==
  \/ ReadWrite
  \/ \E op \in Longs, c \in LongCdb : Long(op, c)
  \/ SynchronizeCache
  \/ \E s \in Sizes, p \in BOOLEAN : ModeSelect(s, p)
  \/ ReadCapacity
  \/ Send \/ Receive \/ BreakOff

Spec == Init /\ [][Next]_transferVars

-----------------------------------------------------------------------------
\* The units a command is about, in the order of the host's data.
Row(c) == [i \in 1..c.count * DefaultSize |-> c.start * DefaultSize + i - 1]

\* Numbers that fit their types: with others the code computes something else.
Fits(c) == c.start + c.count < W64 /\ c.count * DefaultSize < W32 \div 2

\* The host has received the units it asked for, as far as the transfer has come.
ReadExact ==
  LET row == Row(cdb) IN
    /\ Len(received) <= Len(row)
    /\ \A i \in 1..Len(received) : received[i] = before[row[i]]
    /\ phase = "FREE" /\ status = "GOOD" =>
         (Len(received) = Len(row) \/ (cdb.op = "READ_LONG" /\ received = <<>>))

\* A leading part of the host's data is where it belongs, all of it if the status is GOOD,
\* and nothing else has changed.
WriteExact ==
  LET row == Row(cdb) IN
    \E n \in 0..Len(row) :
      /\ n <= sent /\ (phase = "FREE" /\ status = "GOOD" => n = Len(row))
      /\ content = [u \in Unit |-> IF \E i \in 1..n : row[i] = u
                                   THEN Sent(u - row[1] + 1) ELSE before[u]]
      /\ caching_mode = "WRITE_THROUGH" /\ status = "GOOD" =>
           \A i \in 1..n : stable[row[i]] = content[row[i]]

\* A drive with the block size it was opened with, none of whose flushes has failed, transfers
\* exactly the blocks a command asks for, whatever the caching mode, the chunks, the length of the
\* CDB and the point at which a transfer ends; it rejects a command as out of range only if it is;
\* after SYNCHRONIZE CACHE the image file has everything (disk.cpp:199-295, 384-432, 508-581).
TransferExact ==
  block_size = DefaultSize /\ sector_size = DefaultSize /\ ~faulty /\ Fits(cdb) =>
    /\ cdb.op \in Reads \cup {"READ_LONG"} => content = before /\ ReadExact
    /\ cdb.op \in Writes \cup {"WRITE_LONG"} => received = <<>> /\ WriteExact
    /\ cdb.op \notin Writes \cup {"WRITE_LONG"} => content = before
    /\ status = "LBA_OUT_OF_RANGE" =>
         (cdb.start + (IF cdb.op \in Longs THEN 1 ELSE cdb.count)) * DefaultSize > MediumSize
    /\ cdb.op = "SYNCHRONIZE_CACHE" /\ drive.ready => stable = content
=============================================================================
