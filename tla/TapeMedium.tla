----------------------------- MODULE TapeMedium -----------------------------
(***************************************************************************)
(* What a SCSI tape drive promises its host: a tape is a list of objects   *)
(* (blocks and filemarks), the drive stands between two of them, commands  *)
(* move over objects, and writing replaces everything behind the position. *)
(* Tape.tla, where the list is encoded in the bytes of a SIMH image file,  *)
(* implements this specification.                                          *)
(*                                                                         *)
(* The promise ends where the drive has told the host that something went  *)
(* wrong: "lost" when it is not positioned between two objects any more    *)
(* (until it is repositioned), "torn" when a write was cut short (until    *)
(* the medium is erased from its beginning). Unnoticed lists the only      *)
(* cases in which it ends and the host is not told.                        *)
(***************************************************************************)
EXTENDS Integers, Sequences, FiniteSets, SequencesExt

CONSTANT BlockSize

VARIABLES objects,    \* the objects up to the end of the data
          cursor,     \* the number of objects in front of the position
          condition,  \* "known", "lost" or "torn"
          buffer,     \* what the host sent or got of the block under way
          result,     \* the outcome of the last command, or "busy"
          growing,    \* whether the medium grows at its end
          command     \* what the host asked for: [op, type, count, id]

vars == <<objects, cursor, condition, buffer, result, growing, command>>

Block(data) == [kind |-> "block", data |-> data]
Filemark == [kind |-> "filemark", data |-> <<>>]

Known == condition = "known"

\* Commands start at the position, or behind the first id objects
InPlace == -1
Asked(op) == command'.op = op
From == IF command'.id = InPlace THEN cursor ELSE command'.id
CanStart == IF command'.id = InPlace THEN Known ELSE condition # "torn" /\ command'.id <= Len(objects)

Init == /\ cursor = 0 /\ condition = "known" /\ buffer = <<>>
        /\ result = "good"

-----------------------------------------------------------------------------
(* Commands that only move the tape to a place, the end of a transfer      *)

\* The host breaks off between two blocks
Break == Asked("BREAK") /\ result' = "broken" /\ UNCHANGED <<objects, cursor, condition>>

\* REWIND and loading the medium again
Rewind == /\ Asked("REWIND") \/ Asked("LOAD")
          /\ cursor' = 0 /\ UNCHANGED objects /\ result' = "good"
          /\ condition' = IF condition = "torn" THEN "torn" ELSE "known"

\* LOCATE ends behind the first id objects
Locate == /\ Asked("LOCATE") /\ CanStart /\ UNCHANGED objects
          /\ cursor' = From /\ condition' = "known" /\ result' = "good"

-----------------------------------------------------------------------------
(* SPACE *)

IsBlock(i) == objects[i].kind # "filemark"

\* SPACE over n > 0 blocks ends behind the n-th of them or the first filemark,
\* SPACE over n > 0 filemarks behind the n-th; both at the end of the data.
Forward(type, n) ==
  LET marks == {i \in cursor + 1 .. Len(objects) : ~ IsBlock(i)}
      wanted(i) == IF type = "block" THEN IsBlock(i) ELSE ~ IsBlock(i)
      stops == {i \in cursor + 1 .. Len(objects) :
                  \/ type = "block" /\ i \in marks
                  \/ Cardinality({j \in cursor + 1 .. i : wanted(j)}) = n}
  IN IF stops = {} THEN /\ cursor' = Len(objects)
                        /\ \/ result' = "blank" /\ condition' = condition
                           \/ result' = "eom" /\ condition' = "lost"
     ELSE LET stop == CHOOSE i \in stops : \A j \in stops : i <= j
          IN /\ cursor' = stop /\ condition' = condition
             /\ result' = IF wanted(stop) THEN "good" ELSE "filemark"

Backward(type, n) ==
  LET wanted(i) == IF type = "block" THEN IsBlock(i) ELSE ~ IsBlock(i)
      stops == {i \in 1 .. cursor :
                  \/ type = "block" /\ ~ IsBlock(i)
                  \/ Cardinality({j \in i .. cursor : wanted(j)}) = n}
  IN /\ condition' = condition
     /\ IF stops = {} THEN cursor' = 0 /\ result' = "bop"
        ELSE LET stop == CHOOSE i \in stops : \A j \in stops : i >= j
             IN /\ cursor' = stop - 1
                /\ result' = IF wanted(stop) THEN "good" ELSE "filemark"

SpaceToEnd == \/ cursor' = Len(objects) /\ condition' = condition /\ result' = "good"
              \/ cursor' = Len(objects) /\ condition' = "lost" /\ result' = "eom"

Space == /\ Asked("SPACE") /\ Known /\ UNCHANGED objects
         /\ \/ command'.type = "eod" /\ SpaceToEnd
            \/ command'.type # "eod" /\ command'.count > 0 /\ Forward(command'.type, command'.count)
            \/ command'.type # "eod" /\ command'.count < 0 /\ Backward(command'.type, - command'.count)

-----------------------------------------------------------------------------
(* READ: one object in front of the position, found from cursor c *)

ReadFrom(c) ==
  /\ UNCHANGED objects
  /\ IF c = Len(objects)
     THEN /\ cursor' = c
          /\ \/ result' = "blank" /\ condition' = "known"
             \/ result' = "eom" /\ condition' = "lost"
     ELSE LET obj == objects[c + 1]
          IN CASE obj.kind = "filemark" ->
                    cursor' = c + 1 /\ result' = "filemark" /\ condition' = "known"
               [] obj.kind = "bad" ->
                    cursor' = c + 1 /\ result' = "error" /\ condition' = "known"
               [] OTHER ->
                    \* A part of the block, or the block, or the part the host
                    \* wanted. Several blocks of a fixed size are only exact
                    \* when the blocks on the tape have this size.
                    /\ condition' = "known" /\ cursor' \in {c, c + 1}
                    /\ result' \in {"busy", "good", "blocks", "ili", "silent"}
                    /\ cursor' = c => result' = "busy"
                    /\ result' = "good" => buffer' = obj.data
                    /\ \/ IsPrefix(buffer', obj.data)
                       \/ result' \in {"busy", "blocks"} /\ Len(obj.data) # BlockSize

Read == /\ Asked("READ") \/ Asked("READ MORE")
        /\ CanStart /\ ReadFrom(From)

-----------------------------------------------------------------------------
(* WRITE *)

Truncate(c) == SubSeq(objects, 1, c)

\* Data are accepted, nothing is written yet
StartWrite == /\ Asked("WRITE") /\ CanStart /\ UNCHANGED objects
              /\ cursor' = From /\ condition' = "known" /\ result' = "busy"

\* The first part of a block: what was behind the position is gone
WritePart(c) == /\ objects' = Truncate(c) /\ cursor' = c
                /\ condition' = "known" /\ result' = "busy"

\* The last part of a block: the block is there
WriteBlock(c) == /\ objects' = Append(Truncate(c), Block(buffer')) /\ cursor' = c + 1
                 /\ condition' = "known" /\ result' \in {"busy", "good"}

Write == Asked("WRITE MORE") /\ Known /\ (WritePart(cursor) \/ WriteBlock(cursor))

\* WRITE FILEMARKS
WriteFilemarks == /\ Asked("WRITE FILEMARKS") /\ CanStart
                  /\ objects' = Truncate(From) \o [i \in 1 .. command'.count |-> Filemark]
                  /\ cursor' = From + command'.count /\ condition' = "known" /\ result' = "good"

\* ERASE without the long bit
EraseShort == /\ Asked("ERASE SHORT") /\ Known /\ objects' = Truncate(cursor)
              /\ cursor' = cursor /\ condition' = "known" /\ result' = "good"

\* A long ERASE, FORMAT MEDIUM
EraseLong == /\ Asked("ERASE LONG") \/ Asked("FORMAT MEDIUM")
             /\ objects' = <<>> /\ cursor' = 0 /\ condition' = "known" /\ result' = "good"

-----------------------------------------------------------------------------
\* Failures that the host is told
Failures == {"eom", "error", "overflow", "locate", "broken"}

\* A command fails in the middle, or the host breaks it off
Fail == /\ Known /\ result' \in Failures
        /\ condition' \in {"lost", "torn"}

-----------------------------------------------------------------------------
(* What the host is not told                                               *)

\* A medium that grows has no object that ends the data: writing in front of
\* old data leaves them behind what was written.
Overwrite == /\ growing /\ condition' = "torn" /\ result' \in {"good", "busy"}
             /\ \/ command'.op \in {"WRITE MORE", "ERASE SHORT", "ERASE LONG", "FORMAT MEDIUM"}
                \/ Asked("WRITE FILEMARKS") /\ CanStart

\* LOCATE ends with GOOD behind the end of the data when there is no such object
LocateBeyond == /\ Asked("LOCATE") /\ command'.id > Len(objects)
                /\ condition' = "lost" /\ result' = "good"

\* A block of an odd length is read from its second byte on
OddBlock == /\ Asked("READ") \/ Asked("READ MORE")
            /\ CanStart /\ From < Len(objects) /\ Len(objects[From + 1].data) % 2 = 1
            /\ condition' = "lost" /\ UNCHANGED objects

Unnoticed == Known /\ (Overwrite \/ LocateBeyond \/ OddBlock)

\* The drive was lost or its medium torn before
InTrouble == /\ condition # "known" /\ condition' # "known"
             /\ condition = "torn" => condition' = "torn"

Next == \/ Break \/ Rewind \/ Locate \/ Space \/ Read \/ StartWrite \/ Write
        \/ WriteFilemarks \/ EraseShort \/ EraseLong \/ Fail \/ Unnoticed \/ InTrouble

Spec == Init /\ [][Next /\ UNCHANGED growing]_vars
=============================================================================
