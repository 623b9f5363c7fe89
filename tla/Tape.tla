-------------------------------- MODULE Tape --------------------------------
(***************************************************************************)
(* The SCSI tape drive SCTP (devices/tape.cpp) on a SIMH image file        *)
(* (shared/simh_util.cpp): the bytes of the file, the position in it, and  *)
(* a transfer that the controller moves in chunks of at most a block,      *)
(* which the host can break off between two of them.                       *)
(*                                                                         *)
(* A byte holds 0..15, a leading or trailing length and a marker has two   *)
(* of them, value and class (in the code 28 and 4 bits, META_DATA_SIZE is  *)
(* 4). Not modelled: .tar files, partitions, MODE SELECT, and what READ    *)
(* POSITION and the statistics return.                                     *)
(***************************************************************************)
EXTENDS Integers, Sequences, FiniteSets, SequencesExt

CONSTANTS BlockSize,   \* of the drive
          Media,       \* the image files a tape may be opened with, and for each
                       \* the "append" parameter, 0: the file keeps its size
          Lengths,     \* transfer lengths of READ and WRITE
          Counts,      \* counts of SPACE and WRITE FILEMARKS
          Identifiers, \* object identifiers of LOCATE, READ(16), WRITE(16)
          Data,        \* first bytes of what a host writes
          MaxDrift     \* how far object_location may get below 0 (in the code it wraps)

ASSUME TapeConstants ==
  /\ BlockSize \in Nat \ {0} /\ BlockSize % 2 = 0
  /\ \A m \in Media : m.image \in Seq(0 .. 15) /\ m.append \in Nat
  /\ Lengths \subseteq 1 .. 13 /\ Counts \subseteq Nat \ {0}
  /\ Identifiers \subseteq Nat \ {0} /\ Data \subseteq 1 .. 12
  /\ MaxDrift \in Nat

VARIABLES image,            \* the bytes of the image file
          append,
          file_size,        \* its size when it was opened
          max_file_size,
          tape_position,
          object_location,
          xfer,             \* the READ or WRITE under way
          result,           \* how the last command ended, "busy" in a transfer
          buffer,           \* data of the block under way
          condition,        \* history: what the host may still rely on
          marked,           \* history: WRITE FILEMARKS since the last absolute positioning
          listed,           \* history: the objects in the image, and how many are in front
          command           \* history: what the host asked for last

medium == <<image, append, file_size, max_file_size>>
vars == <<medium, tape_position, object_location, xfer, result, buffer, condition, marked, listed, command>>

META_DATA_SIZE == 2

None == [op |-> "none", fixed |-> FALSE, sili |-> FALSE, byte_count |-> 0, remaining |-> 0,
         record_length |-> 0, initial |-> FALSE, left |-> 0, ili |-> FALSE]

Idle == xfer.op = "none"

MinOf(a, b) == IF a < b THEN a ELSE b

-----------------------------------------------------------------------------
(* SIMH metadata *)

EndOfData == [cls |-> 7, value |-> 14]
EraseGap == [cls |-> 15, value |-> 14]
EndOfMedium == [cls |-> 15, value |-> 15]
GoodRecord(length) == [cls |-> 0, value |-> length]

ToLittleEndian(meta) == <<meta.value, meta.cls>>
FromLittleEndian(p) == [cls |-> image[p + 2], value |-> image[p + 1]]

InFile(p, n) == 0 <= p /\ p + n <= Len(image)

\* At the end of the file the medium ends
ReadMetaData(p) == IF InFile(p, META_DATA_SIZE) THEN FromLittleEndian(p) ELSE EndOfMedium

IsRecord(meta) == CASE meta.cls = 0 -> meta.value # 0
                    [] meta.cls = 8 -> meta.value # 0
                    [] OTHER -> meta.cls \notin {7, 15}

PadNever(n) == n
Pad(n) == n + (n % 2)

\* What ReadSimhMetaData() makes of metadata, "none" is skipped
Kind(meta) == CASE meta.cls = 0 -> IF meta.value = 0 THEN "filemark" ELSE "block"
                [] meta.cls = 8 -> "block"
                [] meta = EndOfData -> "eod"
                [] meta = EndOfMedium -> "eom"
                [] OTHER -> "none"

IsObjectButMark(meta) == IsRecord(meta) \/ meta.cls = 8
IsObject(meta) == IsRecord(meta) \/ meta.cls \in {0, 8}

\* The metadata next to p, and the position beyond it and its data
Neighbour(p, reverse) ==
  LET at == IF reverse THEN p - META_DATA_SIZE ELSE p
      meta == ReadMetaData(at)
      data == IF IsRecord(meta) THEN Pad(meta.value) + META_DATA_SIZE ELSE 0
  IN [at |-> at, meta |-> meta, next |-> IF reverse THEN at - data ELSE at + META_DATA_SIZE + data]

Place == [pos : Int, loc : Int, count : Int]

\* Whether an object of the type is the last of those still to be passed
ReachedLate(count) == count < 1
Reached(count) == count <= 1

\* Space over the requested count of objects of a type
FindNextObject(type, requested, from) ==
  LET reverse == requested < 0
      walk[s \in Place] ==
        LET n == Neighbour(s.pos, reverse)
            kind == Kind(n.meta)
            loc == s.loc + (IF ~ IsObject(n.meta) THEN 0 ELSE IF reverse THEN -1 ELSE 1)
            there == [pos |-> n.next, loc |-> loc, meta |-> n.meta]
            on(count) == walk[[pos |-> n.next, loc |-> loc, count |-> count]]
        IN CASE reverse /\ n.at < 0 -> [pos |-> 0, loc |-> 0, meta |-> n.meta, result |-> "bop"]
             [] ~ reverse /\ n.at < 0 -> [pos |-> s.pos, loc |-> s.loc, meta |-> n.meta, result |-> "error"]
             [] kind = "none" -> on(s.count)
             [] kind = "eom" -> there @@ [result |-> "eom"]
             [] kind = "eod" -> IF type = "eod" THEN there @@ [result |-> "good"]
                                ELSE [there EXCEPT !.pos = @ - META_DATA_SIZE] @@ [result |-> "blank"]
             [] kind = "filemark" /\ type = "block" -> there @@ [result |-> "filemark"]
             [] kind = type -> IF Reached(s.count) THEN there @@ [result |-> "good"] ELSE on(s.count - 1)
             [] OTHER -> on(s.count)
  IN walk[[from EXCEPT !.count = IF reverse THEN - requested ELSE requested]]

Here == [pos |-> tape_position, loc |-> object_location, count |-> 0]
Start == [pos |-> 0, loc |-> 0, count |-> 0]

\* The position behind an object, counted from the start of the tape
FindObject(identifier) ==
  LET walk[s \in Place] ==
        LET n == Neighbour(s.pos, FALSE)
            kind == Kind(n.meta)
            loc == s.loc + IF IsObject(n.meta) THEN 1 ELSE 0
            there == [pos |-> n.next, loc |-> loc]
        IN CASE kind = "eom" -> there @@ [result |-> "eom"]
             [] kind = "eod" -> there @@ [result |-> "locate"]
             [] kind = "none" -> walk[there @@ [count |-> s.count]]
             [] OTHER -> IF s.count = 1 THEN there @@ [result |-> "good"]
                         ELSE walk[there @@ [count |-> s.count - 1]]
  IN walk[[Start EXCEPT !.count = identifier]]

-----------------------------------------------------------------------------
(* Writing to the file. A writer w is the image, the position and whether  *)
(* everything has been written so far.                                     *)

Put(bytes, file, p) ==
  [i \in 1 .. IF p + Len(bytes) > Len(file) THEN p + Len(bytes) ELSE Len(file) |->
     IF i - p \in DOMAIN bytes THEN bytes[i - p] ELSE IF i <= Len(file) THEN file[i] ELSE 0]

\* Writing at a negative position fails in the file stream
CheckForOverflow(w, length) == w.pos + length > max_file_size \/ w.pos < 0

\* The position is added to a length that includes it already (tape.cpp:958, 1013)
WriteSimhMetaData(w, meta) ==
  IF ~ w.ok THEN w
  ELSE IF CheckForOverflow(w, w.pos + META_DATA_SIZE) THEN [w EXCEPT !.ok = FALSE]
  ELSE [w EXCEPT !.image = Put(ToLittleEndian(meta), @, w.pos)]

Advance(w, n) == IF w.ok THEN [w EXCEPT !.pos = @ + n] ELSE w

\* An end-of-data object behind the last position, unless it is at the end of
\* the file as it was when it was opened
WriteEndOfData(w) ==
  IF file_size >= w.pos + META_DATA_SIZE THEN WriteSimhMetaData(w, EndOfData) ELSE w

\* A leading length or a filemark
WriteMetaData(w, size) ==
  WriteEndOfData(Advance(WriteSimhMetaData(w, GoodRecord(size)), META_DATA_SIZE))

Writer == [image |-> image, pos |-> tape_position, ok |-> TRUE]

\* What the host may rely on after writing: nothing when that failed, when the
\* drive was lost, or when old data follow without an end-of-data object
AfterWriting(w, cond) ==
  IF ~ w.ok \/ cond # "known" \/ (file_size < w.pos + META_DATA_SIZE /\ w.pos < Len(w.image))
  THEN "torn" ELSE "known"

Lost(cond) == IF cond = "torn" THEN "torn" ELSE "lost"
Repositioned == IF condition = "torn" THEN "torn" ELSE "known"

-----------------------------------------------------------------------------
(* Transfers *)

IsAtRecordBoundary(x) == \/ x.fixed \/ x.initial \/ x.remaining = 0
                         \/ x.byte_count - x.remaining = x.record_length

Chunk(x) == MinOf(BlockSize, x.left)

\* CheckBlockLength(): the length to read instead, 0 when the lengths agree
CheckBlockLength(x) ==
  IF /\ x.record_length # x.byte_count
     /\ IF x.fixed THEN x.byte_count % x.record_length # 0
        ELSE ~ x.sili \/ x.byte_count > x.record_length
  THEN MinOf(x.record_length, x.byte_count) ELSE 0

\* The status of a READ whose data have all been sent
Ended(x) == IF x.ili THEN "ili" ELSE IF x.fixed THEN "blocks"
            ELSE IF x.record_length # x.byte_count THEN "silent" ELSE "good"

EndCommand(res) == xfer' = None /\ result' = res

\* The first part of ReadData() with the object f found: check its length. A
\* record with an odd length is read from one byte behind its start (l.202).
Located(x, f) ==
  LET y == [x EXCEPT !.record_length = f.meta.value, !.initial = FALSE]
      short(count) == [y EXCEPT !.byte_count = count, !.remaining = count, !.left = count, !.ili = TRUE]
  IN IF f.result # "good" \/ f.meta.value = 0
     THEN [x |-> x, length |-> 0, pos |-> f.pos, loc |-> f.loc,
           result |-> IF f.result = "good" THEN "error" ELSE f.result]
     ELSE [x |-> IF CheckBlockLength(y) = 0 THEN y ELSE short(MinOf(CheckBlockLength(y), x.byte_count)),
           length |-> IF CheckBlockLength(y) = 0 THEN Chunk(x) ELSE MinOf(CheckBlockLength(y), Chunk(x)),
           pos |-> f.pos - (f.meta.value + META_DATA_SIZE), loc |-> f.loc, result |-> "good"]

Found(x, place) ==
  IF IsAtRecordBoundary(x) THEN Located(x, FindNextObject("block", 0, place))
  ELSE [x |-> x, length |-> Chunk(x), pos |-> place.pos, loc |-> place.loc, result |-> "good"]

Arrive(pos, cond) == tape_position' = pos /\ condition' = cond

\* The last part of ReadData(): at the end of a record its trailing length is
\* checked and skipped
ReadTrailer(y, trailer, cond) ==
  \/ /\ ~ InFile(trailer, META_DATA_SIZE)
     /\ EndCommand("error") /\ Arrive(trailer, Lost(cond))
  \/ /\ InFile(trailer, META_DATA_SIZE)
     /\ Arrive(trailer + META_DATA_SIZE, IF y.record_length % 2 = 1 THEN Lost(cond) ELSE cond)
     /\ IF FromLittleEndian(trailer).value # y.record_length THEN EndCommand("error")
        ELSE IF y.left > 0 THEN xfer' = y /\ result' = "busy"
        ELSE EndCommand(Ended(y))

\* The transfer y after reading what f says
ReadChunk(f, y, cond) ==
  \/ /\ ~ IsAtRecordBoundary(y)
     /\ xfer' = y /\ result' = "busy" /\ Arrive(f.pos + f.length, cond)
  \/ /\ IsAtRecordBoundary(y)
     /\ ReadTrailer(y, f.pos - (IF f.x.fixed THEN 0 ELSE f.x.byte_count - f.x.remaining)
                         + Pad(y.record_length), cond)

\* f with its data in the file, of which more are appended to the block under way
ReadFound(f, sofar, cond) ==
  /\ UNCHANGED medium /\ object_location' = f.loc
  /\ \/ /\ f.result # "good" /\ buffer' = buffer
        /\ EndCommand(f.result) /\ Arrive(f.pos, IF f.result = "eom" THEN Lost(cond) ELSE cond)
     \/ /\ f.result = "good" /\ ~ InFile(f.pos, f.length) /\ buffer' = buffer
        /\ EndCommand("error") /\ Arrive(f.pos, Lost(cond))
     \/ /\ f.result = "good" /\ InFile(f.pos, f.length)
        /\ buffer' = sofar \o SubSeq(image, f.pos + 1, f.pos + f.length)
        /\ ReadChunk(f, [f.x EXCEPT !.remaining = @ - f.length, !.left = @ - Chunk(f.x),
                                    !.initial = FALSE], cond)

\* One call of ReadData() for a transfer x at a place, and sending its data
ReadData(x, place, cond) ==
  ReadFound(Found(x, place), IF IsAtRecordBoundary(x) THEN <<>> ELSE buffer, cond)

\* The data of a chunk, and the byte behind an odd length
WriteBytes(w, bytes) ==
  IF ~ w.ok \/ CheckForOverflow(w, Len(bytes)) THEN [w EXCEPT !.ok = FALSE]
  ELSE [w EXCEPT !.image = Put(bytes, @, w.pos), !.pos = @ + Len(bytes)]

WritePad(w) == IF w.ok /\ w.pos % 2 = 1 THEN [w EXCEPT !.image = Put(<<0>>, @, w.pos), !.pos = @ + 1] ELSE w

\* Writes the metadata in front of and behind the data of a chunk where they belong
WriteLeading(w, x) == IF IsAtRecordBoundary(x) THEN WriteMetaData(w, x.record_length) ELSE w
WriteTrailing(w, y) ==
  IF IsAtRecordBoundary(y)
  THEN Advance(WriteSimhMetaData(WritePad(w), GoodRecord(y.record_length)), META_DATA_SIZE)
  ELSE w
WriteLast(w, y) == IF y.remaining = 0 /\ w.ok THEN WriteEndOfData(w) ELSE w

WriteChunk(y, trailing, end) ==
  /\ image' = end.image /\ tape_position' = end.pos
  /\ UNCHANGED <<append, file_size, max_file_size, marked>>
  /\ object_location' = object_location + IF IsAtRecordBoundary(y) /\ trailing.ok THEN 1 ELSE 0
  /\ IF ~ end.ok THEN EndCommand("overflow") /\ condition' = "torn"
     ELSE IF y.remaining = 0
     THEN EndCommand("good") /\ condition' = AfterWriting(end, condition)
     ELSE xfer' = y /\ result' = "busy" /\ condition' = IF condition = "known" THEN "known" ELSE "torn"

\* One call of WriteData() with the data of a chunk
WriteData(x, first) ==
  LET length == MinOf(x.byte_count, Chunk(x))
      payload == [i \in 1 .. length |-> first + i - 1]
      y == [x EXCEPT !.remaining = @ - length, !.left = @ - Chunk(x), !.initial = FALSE]
      trailing == WriteTrailing(WriteBytes(WriteLeading(Writer, x), payload), y)
  IN /\ WriteChunk(y, trailing, WriteLast(trailing, y))
     /\ buffer' = (IF IsAtRecordBoundary(x) THEN <<>> ELSE buffer) \o payload

-----------------------------------------------------------------------------
(* The commands *)

\* Locate(): the place, the outcome, and what the host may then rely on
Locate(identifier) == IF identifier = 0 THEN Start @@ [result |-> "good"] ELSE FindObject(identifier)

MoveTo(place, cond) ==
  tape_position' = place.pos /\ object_location' = place.loc /\ condition' = cond

Transfer(op, fixed, sili, n) ==
  LET bytes == IF fixed THEN n * BlockSize ELSE n
  IN [op |-> op, fixed |-> fixed, sili |-> sili, byte_count |-> bytes, remaining |-> bytes,
      record_length |-> IF op = "read" THEN 0 ELSE IF fixed THEN BlockSize ELSE bytes,
      initial |-> TRUE, left |-> bytes, ili |-> FALSE]

Read6(fixed, sili, n) ==
  /\ Idle /\ ~ (fixed /\ sili)
  /\ ReadData(Transfer("read", fixed, sili, n), Here, condition)
  /\ UNCHANGED marked

Read16(fixed, sili, n, identifier) ==
  LET place == Locate(identifier)
  IN /\ Idle /\ ~ (fixed /\ sili) /\ marked' = FALSE
     /\ \/ /\ place.result = "good"
           /\ ReadData(Transfer("read", fixed, sili, n),
                       [pos |-> place.pos, loc |-> place.loc, count |-> 0], Repositioned)
        \/ /\ place.result # "good" /\ MoveTo(place, Lost(condition))
           /\ EndCommand(place.result) /\ UNCHANGED medium /\ buffer' = <<>>

ReadMore == xfer.op = "read" /\ ReadData(xfer, Here, condition) /\ UNCHANGED marked

Write6(fixed, n) ==
  /\ Idle
  /\ xfer' = Transfer("write", fixed, FALSE, n) /\ result' = "busy"
  /\ UNCHANGED <<medium, tape_position, object_location, condition, marked>> /\ buffer' = <<>>

Write16(fixed, n, identifier) ==
  LET place == Locate(identifier)
  IN /\ Idle /\ marked' = FALSE /\ UNCHANGED medium /\ buffer' = <<>>
     /\ \/ /\ place.result = "good" /\ MoveTo(place, Repositioned)
           /\ xfer' = Transfer("write", fixed, FALSE, n) /\ result' = "busy"
        \/ /\ place.result # "good" /\ MoveTo(place, Lost(condition)) /\ EndCommand(place.result)

WriteMore(first) == xfer.op = "write" /\ WriteData(xfer, first)

\* The host resets the bus, or a handshake fails: the device is not told
BreakOff ==
  /\ ~ Idle /\ EndCommand("broken")
  /\ condition' = IF xfer.op = "read" THEN IF xfer.fixed THEN condition ELSE Lost(condition)
                  ELSE IF xfer.remaining < xfer.byte_count THEN "torn" ELSE condition
  /\ UNCHANGED <<medium, tape_position, object_location, marked>> /\ buffer' = <<>>

Space6(type, count) ==
  LET f == FindNextObject(type, count, Here)
      back == IF type = "eod" /\ f.result = "good" THEN META_DATA_SIZE ELSE 0
  IN /\ Idle /\ EndCommand(f.result) /\ f.loc >= - MaxDrift
     /\ tape_position' = f.pos - back /\ object_location' = f.loc
     /\ condition' = IF f.result \in {"eom", "error"} THEN Lost(condition) ELSE condition
     /\ UNCHANGED <<medium, marked>> /\ buffer' = <<>>

Rewind == /\ Idle /\ EndCommand("good") /\ MoveTo(Start, Repositioned) /\ marked' = FALSE
          /\ UNCHANGED medium /\ buffer' = <<>>

\* LOCATE ends with GOOD also when the object does not exist (l.80, 85), the
\* position is then behind the end-of-data object
LocateObject(identifier) ==
  LET place == Locate(identifier)
  IN /\ Idle /\ marked' = FALSE /\ UNCHANGED medium /\ buffer' = <<>>
     /\ EndCommand(IF place.result = "eom" THEN "eom" ELSE "good")
     /\ MoveTo(place, IF place.result = "good" THEN Repositioned ELSE Lost(condition))

\* In place with identifier 0. The object location is not updated.
WriteFilemarks(n, identifier) ==
  LET place == IF identifier = 0 THEN Here @@ [result |-> "good"] ELSE FindObject(identifier)
      cond == IF identifier = 0 THEN condition ELSE Repositioned
      w[i \in 0 .. n] == IF i = 0 THEN [Writer EXCEPT !.pos = place.pos] ELSE WriteMetaData(w[i - 1], 0)
  IN /\ Idle /\ UNCHANGED <<append, file_size, max_file_size>> /\ buffer' = <<>>
     /\ object_location' = place.loc
     /\ \/ /\ place.result = "good" /\ marked' = TRUE
           /\ image' = w[n].image /\ tape_position' = w[n].pos
           /\ condition' = AfterWriting(w[n], cond)
           /\ EndCommand(IF w[n].ok THEN "good" ELSE "overflow")
        \/ /\ place.result # "good" /\ marked' = FALSE /\ UNCHANGED image
           /\ tape_position' = place.pos /\ condition' = Lost(condition)
           /\ EndCommand(place.result)

EraseShort ==
  LET w == WriteEndOfData(Writer)
  IN /\ Idle /\ image' = w.image /\ condition' = AfterWriting(w, condition)
     /\ EndCommand(IF w.ok THEN "good" ELSE "overflow")
     /\ UNCHANGED <<append, file_size, max_file_size, tape_position, object_location, marked>> /\ buffer' = <<>>

\* Erase(): gaps from the position to the end of the file, then the tape is
\* rewound and its end-of-data object written
EraseAll ==
  LET rest == file_size - tape_position
      gaps == [i \in 1 .. IF rest < META_DATA_SIZE THEN 0 ELSE rest |->
                 ToLittleEndian(EraseGap)[IF i % 2 = 1 THEN 1 ELSE 2]]
      w == WriteEndOfData([image |-> Put(gaps, image, tape_position), pos |-> 0, ok |-> TRUE])
  IN /\ image' = w.image /\ EndCommand("good")
     /\ MoveTo(Start, AfterWriting(w, "known")) /\ marked' = FALSE
     /\ UNCHANGED <<append, file_size, max_file_size>> /\ buffer' = <<>>

\* Behind the end of the file the unsigned number of bytes to erase wraps (l.862):
\* gaps are written until the disk is full
EraseLong ==
  /\ Idle
  /\ \/ tape_position \in 0 .. file_size /\ EraseAll
     \/ /\ tape_position \notin 0 .. file_size /\ EndCommand("error") /\ condition' = "torn"
        /\ UNCHANGED <<medium, tape_position, object_location, marked>> /\ buffer' = <<>>

FormatMedium == Idle /\ tape_position = 0 /\ EraseAll

\* Open(): in append mode a file shorter than a block is replaced by a block of
\* zeros, but file_size stays
Opened(file, size) ==
  [image |-> IF size > 0 /\ Len(file) < BlockSize THEN [i \in 1 .. BlockSize |-> 0] ELSE file,
   file_size |-> Len(file), max_file_size |-> IF size > 0 THEN size ELSE Len(file)]

\* The medium is ejected and inserted again
Open == /\ Idle /\ EndCommand("good")
        /\ LET new == Opened(image, append)
           IN image' = new.image /\ file_size' = new.file_size /\ max_file_size' = new.max_file_size
        /\ UNCHANGED append
        /\ MoveTo(Start, Repositioned) /\ marked' = FALSE /\ buffer' = <<>>

-----------------------------------------------------------------------------
(* The list of objects that the image encodes *)

\* The objects that start in front of limit and the positions behind them
Recorded(limit) ==
  LET list[p \in Nat] ==
        LET n == Neighbour(p, FALSE)
            length == n.meta.value
            whole == /\ length # 0 /\ InFile(p, n.next - p)
                     /\ FromLittleEndian(n.next - META_DATA_SIZE).value = length
            data == SubSeq(image, p + META_DATA_SIZE + 1, p + META_DATA_SIZE + length)
            object == CASE Kind(n.meta) = "filemark" -> [kind |-> "filemark", data |-> <<>>]
                        [] whole -> [kind |-> "block", data |-> data]
                        [] OTHER -> [kind |-> "bad", data |-> <<>>]
        IN CASE p >= limit \/ Kind(n.meta) \in {"eod", "eom"} -> <<>>
             [] Kind(n.meta) = "none" -> list[n.next]
             [] OTHER -> <<[object |-> object, end |-> n.next]>> \o list[n.next]
  IN list[0]

\* A record that is being written does not count yet
Limit == IF xfer.op # "write" \/ xfer.remaining = xfer.byte_count THEN Len(image)
         ELSE IF xfer.fixed THEN tape_position
         ELSE tape_position - (xfer.byte_count - xfer.remaining) - META_DATA_SIZE

Listed ==
  LET r == Recorded(Limit)
  IN [objects |-> IF condition = "torn" THEN <<>> ELSE [i \in DOMAIN r |-> r[i].object],
      cursor |-> IF condition # "known" THEN 0
                 ELSE Cardinality({i \in DOMAIN r : r[i].end <= tape_position})]

-----------------------------------------------------------------------------
Init == /\ \E m \in Media : LET new == Opened(m.image, m.append) IN
             /\ image = new.image /\ append = m.append
             /\ file_size = new.file_size /\ max_file_size = new.max_file_size
        /\ tape_position = 0 /\ object_location = 0 /\ xfer = None /\ result = "good"
        /\ buffer = <<>> /\ condition = "known" /\ marked = FALSE
        /\ listed = Listed /\ command = [op |-> "LOAD", type |-> "block", count |-> 0, id |-> 0]

\* What the host asks for; -1: where the tape is
Ask(op, type, count, id) == command' = [op |-> op, type |-> type, count |-> count, id |-> id]

Command ==
  \/ \E fixed, sili \in BOOLEAN, n \in Lengths :
       \/ Read6(fixed, sili, n) /\ Ask("READ", "block", n, -1)
       \/ \E id \in Identifiers \cup {0} : Read16(fixed, sili, n, id) /\ Ask("READ", "block", n, id)
  \/ \E fixed \in BOOLEAN, n \in Lengths :
       \/ Write6(fixed, n) /\ Ask("WRITE", "block", n, -1)
       \/ \E id \in Identifiers \cup {0} : Write16(fixed, n, id) /\ Ask("WRITE", "block", n, id)
  \/ ReadMore /\ Ask("READ MORE", "block", 0, -1)
  \/ \E first \in Data : WriteMore(first) /\ Ask("WRITE MORE", "block", 0, -1)
  \/ BreakOff /\ Ask("BREAK", "block", 0, -1)
  \/ \E type \in {"block", "filemark"}, n \in Counts \cup {- c : c \in Counts} :
       Space6(type, n) /\ Ask("SPACE", type, n, -1)
  \/ Space6("eod", 0) /\ Ask("SPACE", "eod", 0, -1)
  \/ Rewind /\ Ask("REWIND", "block", 0, 0)
  \/ \E id \in Identifiers : LocateObject(id) /\ Ask("LOCATE", "block", 0, id)
  \/ \E n \in Counts, id \in Identifiers \cup {0} :
       WriteFilemarks(n, id) /\ Ask("WRITE FILEMARKS", "filemark", n, IF id = 0 THEN -1 ELSE id)
  \/ EraseShort /\ Ask("ERASE SHORT", "eod", 0, -1)
  \/ EraseLong /\ Ask("ERASE LONG", "eod", 0, -1)
  \/ FormatMedium /\ Ask("FORMAT MEDIUM", "eod", 0, -1)
  \/ Open /\ Ask("LOAD", "block", 0, 0)

Next == Command /\ listed' = Listed'

Spec == Init /\ [][Next]_vars

Medium == INSTANCE TapeMedium WITH objects <- listed.objects, cursor <- listed.cursor, growing <- append > 0

-----------------------------------------------------------------------------
(* Properties *)

\* The variables have their types, and no command lets the image file grow
\* beyond max_file_size (CheckForOverflow() before every write), except by the
\* byte behind a block of odd length, which is written without this check.
TypeOK ==
  /\ image \in Seq(0 .. 15) /\ append \in Nat /\ file_size \in Nat /\ max_file_size \in Nat
  /\ \/ Len(image) <= file_size \/ Len(image) = BlockSize
     \/ Len(image) <= max_file_size + (max_file_size % 2)
  /\ tape_position \in Int /\ object_location \in Int
  /\ xfer \in [op : {"none", "read", "write"}, fixed : BOOLEAN, sili : BOOLEAN, byte_count : Nat,
               remaining : Nat, record_length : Nat, initial : BOOLEAN, left : Nat, ili : BOOLEAN]
  /\ buffer \in Seq(0 .. 15) /\ marked \in BOOLEAN
  /\ condition \in {"known", "lost", "torn"}
  /\ command \in [op : STRING, type : {"block", "filemark", "eod"}, count : Int, id : Int]

\* READ POSITION: the object location is the number of objects in front of the
\* position after any sequence of READ, WRITE, SPACE, LOCATE and REWIND commands,
\* so that a later LOCATE with it gets back (UpdateObjectLocation() l.944,
\* WriteData() l.280). WRITE FILEMARKS does not count its filemarks.
LocationCounts == Idle /\ condition = "known" /\ ~ marked => object_location = listed.cursor

\* The members are what they may be, and the location counts: both.
LocationKnown == TypeOK /\ LocationCounts

\* Seen from the host the drive is a list of objects: blocks are read as they
\* were written, SPACE and LOCATE end where SCSI-2 says, a write ends the data,
\* until the drive reports that a command failed.
ImplementsMedium == Medium!Spec
=============================================================================
