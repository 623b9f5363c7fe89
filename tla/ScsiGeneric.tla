---------------------------- MODULE ScsiGeneric ----------------------------
(***************************************************************************)
(* The SCSI generic device (devices/scsi_generic.cpp): commands go through *)
(* the SG driver to a real device, in pieces the driver can take, while    *)
(* the controller moves the same bytes to or from the host chunk by chunk. *)
(* The real device is external: a medium of blocks whose size the code only*)
(* learns from READ CAPACITY, with commands that fail.                     *)
(***************************************************************************)
EXTENDS Integers, Sequences

CONSTANTS MAX_TRANSFER_LENGTH,   \* what the driver takes at once
          RealBlocks,            \* number of blocks of the real device
          RealSizes,             \* block sizes it may have
          DefaultBlock,          \* the block size assumed until READ CAPACITY
          GenericStarts, GenericCounts,
          Lists,                 \* FORMAT UNIT: lengths of the defect list, or -1 for no data at all
          HeaderLength,          \* length of the header before the list
          MaxGeneric             \* commands in a run

VARIABLES
  real,             \* the real device: [size, content], a unit is known by who wrote it
  pads,             \* does the host send fill bytes when it is asked for more than it has?
  block_size,       \* as the code has it
  byte_count, remaining_count,
  local_cdb,        \* the CDB that is sent: [op, start, count]
  deferred_sense,   \* the command whose sense data are kept, or 0
  format_header,    \* the FORMAT UNIT command whose header is kept, or 0
  remaining, chunk, current,    \* the controller's lengths
  gen_phase, gen_status,
  data,             \* in the controller's buffer, for DATA IN
  number,           \* number of commands
  asked,            \* history: the command: [op, six, start, count, list]
  got, put,         \* history: units the host has received, number of units it has sent
  was,              \* history: the real device when the command began
  sense,            \* history: the command whose sense data REQUEST SENSE has returned, or 0
  failed,           \* history: the command before, if it ended with CHECK CONDITION, or 0
  formatted,        \* history: what the device was last formatted with: [header, list]
  broken            \* history: has a FORMAT UNIT been broken off?

lengths == <<remaining, chunk, current>>
pieces == <<byte_count, remaining_count, local_cdb, format_header, data>>
notes == <<asked, was, sense, formatted, broken, number, pads>>
genericVars == <<real, block_size, deferred_sense, lengths, pieces, gen_phase, gen_status, got, put,
                 failed, notes>>

\* The meta data of the commands the model tells apart.
Reads == {"READ_6", "READ_10"}
Writes == {"WRITE_6", "WRITE_10"}
Long(op) == IF op = "READ_6" THEN "READ_10" ELSE IF op = "WRITE_6" THEN "WRITE_10" ELSE op

Least(a, b) == IF a < b THEN a ELSE b
Unwritten(b, i) == [by |-> 0, n |-> b * 16 + i]
STALE == [by |-> -1, n |-> 0]

TypeOK ==
  /\ real.size \in RealSizes /\ block_size \in RealSizes \cup {DefaultBlock}
  /\ gen_phase \in {"FREE", "DATA_IN", "DATA_OUT"}
  /\ gen_status \in {"GOOD", "CHECK_CONDITION", "ABORTED_COMMAND", "NONE"}
  /\ {deferred_sense, format_header, sense, failed, number} \subseteq 0..MaxGeneric
  /\ {byte_count, remaining_count, remaining, chunk, current} \subseteq Nat
  /\ {pads, broken} \subseteq BOOLEAN

Init ==
  /\ real \in {[size |-> s, content |-> [b \in 0..RealBlocks - 1 |-> [i \in 1..s |-> Unwritten(b, i)]]] :
                 s \in RealSizes}
  /\ block_size \in {real.size, DefaultBlock}      \* GetBlockSize() may fail
  /\ pads \in BOOLEAN
  /\ byte_count = 0 /\ remaining_count = 0 /\ remaining = 0 /\ chunk = 0 /\ current = 0
  /\ local_cdb = [op |-> "NONE", start |-> 0, count |-> 0] /\ data = <<>>
  /\ deferred_sense = 0 /\ format_header = 0 /\ gen_phase = "FREE" /\ gen_status = "NONE"
  /\ asked = [op |-> "NONE", six |-> FALSE, start |-> 0, count |-> 0, list |-> -1]
  /\ got = <<>> /\ put = 0 /\ was = real /\ sense = 0 /\ failed = 0 /\ number = 0
  /\ formatted = [header |-> 0, list |-> -1] /\ broken = FALSE

-----------------------------------------------------------------------------
\* ReadWriteData(): one command to the driver, for as much as the controller has room for.

Piece(rest, size) == Least(Least(rest, size), MAX_TRANSFER_LENGTH)
SetBlockCount(cdb, length) == [cdb EXCEPT !.count = length \div block_size]
Reachable(c) == c.start + c.count <= RealBlocks

\* EvaluateStatus(): sense data, which are kept, or no answer at all.
Fails ==
  /\ gen_phase' = "FREE"
  /\ \/ gen_status' = "CHECK_CONDITION" /\ deferred_sense' = number' /\ failed' = number'
     \/ gen_status' = "ABORTED_COMMAND" /\ deferred_sense' = 0 /\ failed' = 0
  /\ UNCHANGED <<real, block_size>>

\* As Works, with sense data that stay.
WorksKeepsSense == UNCHANGED deferred_sense /\ failed' = 0 /\ gen_status' = "GOOD"

Works == deferred_sense' = 0 /\ failed' = 0 /\ gen_status' = "GOOD"

\* What the device sends for a command, in a buffer of some length.
Blocks(c, length) ==
  [i \in 1..Least(c.count * real.size, length) |->
     real.content[c.start + (i - 1) \div real.size][1 + ((i - 1) % real.size)]]

\* The blocks once it has written the units k + 1, k + 2, ... of the host's data.
Stored(c, k) ==
  [b \in DOMAIN real.content |->
     IF c.start <= b /\ b < c.start + c.count
     THEN [i \in 1..real.size |-> [by |-> number, n |-> k + (b - c.start) * real.size + i]]
     ELSE real.content[b]]

ReadPiece(cdb, rest, size) ==
  LET length == Piece(rest, size)
      c == SetBlockCount(cdb, length)
  IN  \/ /\ Reachable(c) /\ Works
         /\ data' = Blocks(c, length)
         /\ remaining_count' = rest - Len(data')
         /\ local_cdb' = [c EXCEPT !.start = @ + c.count]
         /\ UNCHANGED <<real, block_size>>
      \/ Fails /\ local_cdb' = c /\ remaining_count' = rest /\ UNCHANGED data

-----------------------------------------------------------------------------
\* Dispatch()

Begin(op, six, start, count, list) ==
  /\ gen_phase = "FREE" /\ number < MaxGeneric
  /\ number' = number + 1
  /\ asked' = [op |-> op, six |-> six, start |-> start, count |-> count, list |-> list]
  /\ got' = <<>> /\ put' = 0 /\ was' = real
  /\ sense' = IF op = "REQUEST_SENSE" THEN deferred_sense ELSE 0
  /\ UNCHANGED <<formatted, broken, pads>>

SetTransferSize(n) == remaining' = n /\ chunk' = Least(n, MAX_TRANSFER_LENGTH)

\* READ(6) and WRITE(6) become READ(10) and WRITE(10), with the same count.
ReadBlocks(op, start, count) ==
  LET n == count * block_size IN
    /\ Begin("READ", op = "READ_6", start, count, -1)
    /\ byte_count' = n /\ SetTransferSize(n)
    /\ ReadPiece([op |-> Long(op), start |-> start, count |-> count], n, Least(n, MAX_TRANSFER_LENGTH))
    /\ IF gen_status' = "GOOD"
       THEN current' = Len(data') /\ gen_phase' = IF data' = <<>> THEN "FREE" ELSE "DATA_IN"
       ELSE UNCHANGED current
    /\ UNCHANGED format_header

WriteBlocks(op, start, count) ==
  LET n == count * block_size IN
    /\ Begin("WRITE", op = "WRITE_6", start, count, -1)
    /\ Works
    /\ byte_count' = n /\ remaining_count' = n /\ SetTransferSize(n) /\ current' = chunk'
    /\ local_cdb' = [op |-> Long(op), start |-> start, count |-> count]
    /\ gen_phase' = IF n = 0 THEN "FREE" ELSE "DATA_OUT"
    /\ UNCHANGED <<real, block_size, format_header, data>>

\* FORMAT UNIT enters DATA OUT even without data; its header comes first.
FormatUnit(list) ==
  LET n == IF list = -1 THEN 0 ELSE HeaderLength IN
    /\ Begin("FORMAT_UNIT", TRUE, 0, 0, list)
    /\ Works
    /\ byte_count' = n /\ remaining_count' = n /\ SetTransferSize(n) /\ current' = n
    /\ local_cdb' = [op |-> "FORMAT_UNIT", start |-> 0, count |-> 0]
    /\ gen_phase' = "DATA_OUT"
    /\ UNCHANGED <<real, block_size, format_header, data>>

\* READ CAPACITY tells the block size (UpdateInternalBlockSize()).
ReadCapacity ==
  /\ Begin("READ_CAPACITY", FALSE, 0, 0, -1)
  /\ \/ Works /\ block_size' = real.size /\ gen_phase' = "FREE" /\ UNCHANGED real
     \/ Fails
  /\ UNCHANGED <<lengths, pieces>>

\* REQUEST SENSE returns the sense data that were kept, once; otherwise it is a command like others.
RequestSense ==
  /\ Begin("REQUEST_SENSE", FALSE, 0, 0, -1)
  /\ IF deferred_sense # 0
     THEN /\ gen_phase' = "FREE" /\ gen_status' = "GOOD" /\ deferred_sense' = 0
          /\ UNCHANGED <<real, block_size, failed>>
     ELSE \/ Works /\ gen_phase' = "FREE" /\ UNCHANGED <<real, block_size>>
          \/ Fails
  /\ UNCHANGED <<lengths, pieces>>

TestUnitReady ==
  /\ Begin("TEST_UNIT_READY", FALSE, 0, 0, -1)
  /\ \/ Works /\ gen_phase' = "FREE" /\ UNCHANGED <<real, block_size>>
     \/ Fails
  /\ UNCHANGED <<lengths, pieces>>

-----------------------------------------------------------------------------
\* The controller's transfer.

\* Send() and TransferToHost(): the controller counts chunks, whatever ReadData() has read.
Send ==
  /\ gen_phase = "DATA_IN" /\ UNCHANGED <<put, notes>>
  /\ got' = got \o [i \in 1..current |-> IF i <= Len(data) THEN data[i] ELSE STALE]
  /\ LET rest == remaining - chunk
         next == Least(rest, chunk)
     IN  /\ remaining' = rest /\ chunk' = next
         /\ IF rest = 0
            THEN /\ gen_phase' = "FREE"
                 /\ UNCHANGED <<current, pieces, real, block_size, gen_status, deferred_sense, failed>>
            ELSE /\ ReadPiece(local_cdb, remaining_count, next)
                 /\ current' = next
                 /\ gen_status' = "GOOD" => gen_phase' = "DATA_IN"
                 /\ UNCHANGED <<byte_count, format_header>>

\* The units a host has for its command.
Supply ==
  (IF asked.op = "FORMAT_UNIT" THEN HeaderLength + asked.list ELSE asked.count * real.size)
    + (IF pads THEN HeaderLength ELSE 0)

\* UpdateTransferLength() with what WriteData() has taken.
Continue(rest, size) ==
  /\ remaining' = rest /\ chunk' = Least(rest, size) /\ current' = Least(rest, size)
  /\ gen_phase' = IF rest = 0 THEN "FREE" ELSE "DATA_OUT"

\* WriteData() of blocks.
ReceiveBlocks ==
  /\ gen_phase = "DATA_OUT" /\ asked.op = "WRITE" /\ put + current <= Supply
  /\ UNCHANGED <<got, notes, byte_count, format_header, data>>
  /\ put' = put + current
  /\ LET length == Piece(remaining_count, Least(chunk, remaining))
         c == SetBlockCount(local_cdb, length)
         taken == c.count * real.size
     IN  \/ /\ Reachable(c) /\ taken <= length /\ Works
            /\ real' = [real EXCEPT !.content = Stored(c, put)]
            /\ remaining_count' = remaining_count - taken
            /\ local_cdb' = [c EXCEPT !.start = @ + c.count]
            /\ Continue(remaining - taken, chunk)
            /\ UNCHANGED block_size
         \/ Fails /\ local_cdb' = c /\ UNCHANGED <<remaining_count, lengths>>

\* WriteData() of FORMAT UNIT: the first data are the header, after which the controller waits for
\* header and list; the command is sent with the header that was kept.
ReceiveFormat ==
  /\ gen_phase = "DATA_OUT" /\ asked.op = "FORMAT_UNIT"
  /\ current = 0 \/ put + current <= Supply
  /\ UNCHANGED <<got, asked, was, sense, broken, number, pads, local_cdb, data>>
  /\ put' = put + current
  /\ IF asked.list # -1 /\ format_header = 0
     THEN /\ format_header' = number
          /\ byte_count' = asked.list + HeaderLength
          /\ Continue(byte_count', byte_count')
          /\ UNCHANGED <<real, block_size, deferred_sense, failed, gen_status, formatted, remaining_count>>
     ELSE /\ format_header' = 0
          /\ \/ Works /\ formatted' = [header |-> format_header, list |-> byte_count - HeaderLength]
                /\ Continue(0, 0) /\ UNCHANGED <<real, block_size>>
             \/ Fails /\ UNCHANGED <<formatted, lengths>>
          /\ remaining_count' = 0 /\ UNCHANGED byte_count

\* A handshake fails, the host has no more data, or the bus is reset.
BreakOff ==
  /\ gen_phase # "FREE"
  /\ gen_phase' = "FREE" /\ gen_status' = "NONE"
  /\ broken' = (broken \/ asked.op = "FORMAT_UNIT")
  /\ UNCHANGED <<real, block_size, deferred_sense, lengths, pieces, got, put, failed,
                 asked, was, sense, formatted, number, pads>>

\* The real device gets another medium.
Exchange ==
  /\ gen_phase = "FREE" /\ number < MaxGeneric
  /\ \E s \in RealSizes \ {real.size} :
       real' = [size |-> s, content |-> [b \in DOMAIN real.content |-> [i \in 1..s |-> Unwritten(b, i)]]]
  /\ was' = real'
  /\ asked' = [asked EXCEPT !.op = "NONE"]
  /\ UNCHANGED <<block_size, deferred_sense, lengths, pieces, gen_phase, gen_status, got, put, failed,
                 sense, formatted, broken, number, pads>>

Next ==
  \/ \E op \in Reads, s \in GenericStarts, c \in GenericCounts : ReadBlocks(op, s, c)
  \/ \E op \in Writes, s \in GenericStarts, c \in GenericCounts : WriteBlocks(op, s, c)
  \/ \E l \in Lists : FormatUnit(l)
  \/ ReadCapacity \/ RequestSense \/ TestUnitReady
  \/ Send \/ ReceiveBlocks \/ ReceiveFormat \/ BreakOff \/ Exchange

-----------------------------------------------------------------------------
\* As long as the block size is that of the medium and a chunk is a whole number of blocks, a host
\* reads and writes exactly the blocks it names, in order and each once, however the transfer is cut
\* into pieces, up to the piece that fails; except that a count of 0 in READ(6) and WRITE(6) is none.
\* A FORMAT UNIT that ends with GOOD is sent with the header and the list of the host, unless one
\* before it was broken off.  Sense data are those of the command before, and they are returned when
\* it failed (scsi_generic.cpp:61-281).
GenericExact ==
  LET size == real.size
      row == [i \in 1..asked.count * size |-> asked.start * size + i - 1]   \* of the units asked for
      Unit(c, u) == c[u \div size][1 + (u % size)]
      good == gen_phase = "FREE" /\ gen_status = "GOOD"
  IN
    /\ block_size = size /\ MAX_TRANSFER_LENGTH % size = 0 /\ ~(asked.six /\ asked.count = 0) =>
         /\ asked.op = "READ" =>
              /\ Len(got) <= Len(row) /\ (good => Len(got) = Len(row))
              /\ \A i \in 1..Len(got) : got[i] = Unit(was.content, row[i])
         /\ asked.op = "WRITE" =>
              \E n \in 0..Least(put, Len(row)) :
                /\ good => n = Len(row)
                /\ \A u \in 0..RealBlocks * size - 1 :
                     Unit(real.content, u) = IF \E i \in 1..n : row[i] = u
                                             THEN [by |-> number, n |-> u - row[1] + 1]
                                             ELSE Unit(was.content, u)
    /\ asked.op # "WRITE" => real = was
    /\ asked.op = "FORMAT_UNIT" /\ good /\ asked.list # -1 /\ ~broken =>
         formatted = [header |-> number, list |-> asked.list]
    /\ asked.op = "REQUEST_SENSE" /\ sense # 0 => sense = failed
    /\ asked.op \notin {"REQUEST_SENSE", "NONE"} /\ failed # 0 => deferred_sense = failed
=============================================================================
