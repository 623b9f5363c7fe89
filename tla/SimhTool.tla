------------------------------ MODULE SimhTool ------------------------------
(***************************************************************************)
(* s2psimh (s2psimh/s2psimh_core.cpp with shared/simh_util.cpp): --add     *)
(* writes objects to a SIMH image, and without it the image is analyzed.   *)
(* The model writes an image and then analyzes it.  Length fields have two *)
(* bytes here, W28 stands for the 2^28 values they can hold, and a class is*)
(* the group of classes that the code treats alike: "RECORD" stands for    *)
(* private, reserved and description records, "PRIVATE" and "RESERVED" for *)
(* the markers.                                                            *)
(***************************************************************************)
EXTENDS Integers, Sequences

CONSTANTS Additions,  \* [objects: sequence of [cls, value], data: the bytes of the data file or -1]
          Limits,     \* --dump with a limit, or 0
          W28,
          END_OF_DATA \* the value of the private marker that ends the data of a tape

VARIABLES
  addition,
  limit,
  simh_file,         \* its bytes
  index,             \* objects added so far
  data_index,        \* bytes of the data file written so far
  simh_position,
  listing,           \* what Analyze() has found: [cls, value, data]
  simh_step,
  lost               \* history: has a write failed?

simhVars == <<addition, limit, simh_file, index, data_index, simh_position, listing, simh_step, lost>>

META_DATA_SIZE == 2
END_OF_MEDIUM == W28 - 1
Zero == [is |-> "ZERO", of |-> 0]
Data(k) == [is |-> "DATA", of |-> k]
Undefined == [is |-> "BEYOND", of |-> 0]      \* memory after the data that have been read

TypeOK ==
  /\ limit \in Limits /\ index \in 0..Len(addition.objects)
  /\ {data_index, simh_position} \subseteq Nat
  /\ simh_step \in {"OPEN", "ADD", "ANALYZE", "ADD_ERROR", "ERROR", "SUCCESS"}
  /\ lost \in BOOLEAN

Init ==
  /\ addition \in Additions /\ limit \in Limits
  /\ simh_file = <<Zero>>        \* whatever has been in the file before
  /\ index = 0 /\ data_index = 0 /\ simh_position = 0 /\ listing = <<>> /\ simh_step = "OPEN"
  /\ lost = FALSE

-----------------------------------------------------------------------------
Pad(length) == length + (length % 2)

\* IsRecord() looks at the value as it is given, the file has its low 28 bits.
IsRecord(o) == o.cls = "RECORD" \/ (o.cls \in {"GOOD", "BAD"} /\ o.value # 0)
ToLittleEndian(o) ==
  [i \in 1..META_DATA_SIZE |-> [is |-> "META", of |-> <<o.cls, o.value % W28, i>>]]

HasDataFile == addition.data >= 0
FromDataFile(length) ==
  [i \in 1..length |-> IF data_index + i <= addition.data THEN Data(data_index + i) ELSE Undefined]
Hole(length) == [i \in 1..length |-> Zero]

\* What Add() writes between the length fields: without a data file a hole of the padded length,
\* and after an odd length a pad byte in either case.
RecordBytes(length) ==
  (IF HasDataFile THEN FromDataFile(length) ELSE Hole(Pad(length)))
    \o (IF length # Pad(length) THEN <<Zero>> ELSE <<>>)

\* Run() with --add: opening the file for output empties it, with or without --truncate.
Open ==
  /\ simh_step = "OPEN"
  /\ \/ simh_step' = "ADD_ERROR" /\ UNCHANGED simh_file
     \/ simh_step' = "ADD" /\ simh_file' = <<>>
  /\ UNCHANGED <<addition, limit, index, data_index, simh_position, listing, lost>>

\* Add(), an object: the data must not be used up before a record.
AddObject ==
  /\ simh_step = "ADD" /\ index < Len(addition.objects)
  /\ LET o == addition.objects[index + 1]
         length == o.value % W28
         meta == ToLittleEndian(o)
     IN  IF ~IsRecord(o)
         THEN simh_file' = simh_file \o meta /\ UNCHANGED <<data_index, simh_step>>
         ELSE IF HasDataFile /\ data_index >= addition.data
         THEN simh_file' = simh_file \o meta /\ simh_step' = "ADD_ERROR" /\ UNCHANGED data_index
         ELSE /\ simh_file' = simh_file \o meta \o RecordBytes(length) \o meta
              /\ data_index' = IF HasDataFile THEN data_index + length ELSE data_index
              /\ UNCHANGED simh_step
  /\ index' = index + 1
  /\ UNCHANGED <<addition, limit, simh_position, listing, lost>>

\* The stream writes when its buffer is full or it is closed: an error is noticed by a later write or
\* by nobody, and the end of the file is missing.
WriteFails ==
  /\ simh_step = "ADD" /\ index > 0
  /\ \E n \in 0..Len(simh_file) - 1 : simh_file' = SubSeq(simh_file, 1, n)
  /\ simh_step' \in {"ADD_ERROR", "ANALYZE"}
  /\ lost' = TRUE
  /\ UNCHANGED <<addition, limit, index, data_index, simh_position, listing>>

\* s2psimh ends, and is started again without --add.
Added ==
  /\ \/ simh_step = "ADD" /\ index = Len(addition.objects)
     \/ simh_step = "ADD_ERROR" /\ index > 0
  /\ simh_step' = "ANALYZE"
  /\ UNCHANGED <<addition, limit, simh_file, index, data_index, simh_position, listing, lost>>

-----------------------------------------------------------------------------
\* The length field at a position.  Zeros are a tape mark; other bytes are the middle of something.
MetaAt(p) ==
  LET at == SubSeq(simh_file, p + 1, p + META_DATA_SIZE)
      is == {at[i].is : i \in DOMAIN at}
  IN  IF is = {"META"} /\ at[1].of[3] = 1 THEN [cls |-> at[1].of[1], value |-> at[1].of[2]]
      ELSE IF is = {"ZERO"} THEN [cls |-> "GOOD", value |-> 0]
      ELSE [cls |-> "GARBAGE", value |-> W28]

\* ReadMetaData(): the end of the file is the end of the medium.
ReadMetaData == IF simh_position + META_DATA_SIZE > Len(simh_file)
                THEN [cls |-> "RESERVED", value |-> END_OF_MEDIUM] ELSE MetaAt(simh_position)

List(meta, data) == listing' = Append(listing, [cls |-> meta.cls, value |-> meta.value, data |-> data])

\* PrintRecord(): the data, if they are to be dumped, and the same length again behind the padded
\* data; what is missing at the end of the file counts as zero.
TrailingLength(p) == IF p + META_DATA_SIZE > Len(simh_file) THEN 0 ELSE MetaAt(p).value

PrintRecord(meta) ==
  LET start == simh_position + META_DATA_SIZE
      shown == IF limit < meta.value THEN limit ELSE meta.value
      end == start + Pad(meta.value)
  IN  IF (limit > 0 /\ start + shown > Len(simh_file)) \/ TrailingLength(end) # meta.value
      THEN simh_step' = "ERROR" /\ UNCHANGED <<simh_position, listing>>
      ELSE /\ List(meta, SubSeq(simh_file, start + 1, start + meta.value))
           /\ simh_position' = end + META_DATA_SIZE /\ UNCHANGED simh_step

Ends(meta) == \/ meta.cls = "PRIVATE" /\ meta.value = END_OF_DATA
              \/ meta.cls = "RESERVED" /\ meta.value = END_OF_MEDIUM

\* Analyze(), an object or the end of the file.
AnalyzeObject ==
  /\ simh_step = "ANALYZE"
  /\ IF simh_position >= Len(simh_file)
     THEN simh_step' = "SUCCESS" /\ UNCHANGED <<simh_position, listing>>
     ELSE LET meta == ReadMetaData IN
          IF IsRecord(meta) THEN PrintRecord(meta)
          ELSE /\ List(meta, <<>>)
               /\ simh_step' = IF Ends(meta) THEN "SUCCESS" ELSE "ANALYZE"
               /\ simh_position' = simh_position + META_DATA_SIZE
  /\ UNCHANGED <<addition, limit, simh_file, index, data_index, lost>>

Next == Open \/ AddObject \/ WriteFails \/ Added \/ AnalyzeObject

-----------------------------------------------------------------------------
Objects == addition.objects

\* Where the data of an object begin in the data file.
Offset[i \in 0..Len(Objects)] ==
  IF i = 0 THEN 0 ELSE Offset[i - 1] + (IF IsRecord(Objects[i]) THEN Objects[i].value ELSE 0)

\* The values fit, the data file has enough data, and without one no record has an odd length.
Proper ==
  /\ ~lost
  /\ \A i \in 1..Len(Objects) : Objects[i].value < W28
  /\ IF HasDataFile
     THEN /\ Offset[Len(Objects)] <= addition.data
          /\ \A i \in 1..Len(Objects) : IsRecord(Objects[i]) => Offset[i - 1] < addition.data
     ELSE \A i \in 1..Len(Objects) : IsRecord(Objects[i]) => Objects[i].value % 2 = 0

\* Analyze() follows the lengths through the file.  It accepts what Add() has written, and finds the
\* objects, each with its own part of the data, one by one up to the first that ends the tape
\* (s2psimh_core.cpp:176-425, simh_util.cpp:12-54).
SimhAccepted ==
  simh_step \in {"ANALYZE", "ERROR", "SUCCESS"} /\ Proper =>
    /\ simh_step # "ERROR" /\ Len(listing) <= Len(Objects)
    /\ \A i \in 1..Len(listing) :
         /\ listing[i].cls = Objects[i].cls /\ listing[i].value = Objects[i].value
         /\ IsRecord(Objects[i]) =>
              listing[i].data = [k \in 1..Objects[i].value |-> IF HasDataFile THEN Data(Offset[i - 1] + k) ELSE Zero]
         /\ Ends(Objects[i]) => i = Len(listing)
    /\ simh_step = "SUCCESS" => listing # <<>> \/ Objects = <<>>
    /\ simh_step = "SUCCESS" /\ Len(listing) < Len(Objects) => Ends(Objects[Len(listing)])
=============================================================================
