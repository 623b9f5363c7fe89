------------------------------ MODULE DumpTape ------------------------------
(***************************************************************************)
(* s2pdump with a tape drive: DumpTape() and RestoreTape() in              *)
(* s2pdump/s2pdump_core.cpp with the READ loop of s2pdump_executor.cpp,    *)
(* which finds out the length of each record from the sense data of the    *)
(* READ that missed it.  The drives are external; the tape that is dumped  *)
(* is a sequence of objects, and the file is a sequence of SIMH objects.   *)
(***************************************************************************)
EXTENDS Integers, Sequences

CONSTANTS Tapes,          \* [kind: "RECORD" | "MARK" | "BAD", length]: sequences of them
          Files,          \* images from elsewhere: [kind: "RECORD" | "MARK" | "OTHER", length]
          DefaultLength,  \* 0xffffff, the length of the first READ
          OddLength,      \* what a status of 0xff is taken for
          MaxGlitches     \* READs that fail for another reason, and answers that do not come

VARIABLES
  driver,           \* "BOARD" or "SG"
  tape,             \* what is dumped
  position,         \* of the tape: objects before the head
  default_length, has_error,
  answer,           \* to the READ: "GOOD", or what REQUEST SENSE says of it
  file,             \* objects written so far, or to be restored
  read_objects,     \* of the file, by RestoreTape()
  target,           \* the tape that is restored to
  tape_step,
  stopped,          \* has there been a signal?
  glitches          \* history

tapeVars == <<driver, tape, position, default_length, has_error, answer, file, read_objects, target,
              tape_step, stopped, glitches>>

Record(n, at) == [kind |-> "RECORD", length |-> n, from |-> at]
Mark == [kind |-> "MARK", length |-> 0, from |-> 0]
BadMark == [kind |-> "BAD", length |-> 0, from |-> 0]      \* a bad data record without data
Garbage(n) == Record(n, 0)

TypeOK ==
  /\ driver \in {"BOARD", "SG"}
  /\ position \in 0..Len(tape) /\ default_length \in Nat /\ has_error \in BOOLEAN
  /\ read_objects \in 0..Len(file)
  /\ tape_step \in {"REWIND", "READ", "SENSE", "SPACE", "BETWEEN", "RESTORE", "DONE", "ERROR"}
  /\ stopped \in BOOLEAN /\ glitches \in 0..MaxGlitches

Init ==
  /\ driver \in {"BOARD", "SG"}
  /\ \/ tape \in Tapes /\ file = <<>> /\ tape_step = "REWIND"
     \/ tape = <<>> /\ tape_step = "BETWEEN"
          /\ file \in {[i \in DOMAIN f |-> [kind |-> f[i].kind, length |-> f[i].length, from |-> i]] : f \in Files}
  /\ position = 0 /\ default_length = DefaultLength /\ has_error = FALSE /\ answer = "NONE"
  /\ read_objects = 0 /\ target = <<>> /\ stopped = FALSE /\ glitches = 0

restoring == <<read_objects, target>>

-----------------------------------------------------------------------------
\* DumpRestoreTape(): the SG driver's result is inverted, so that a tape that has been rewound ends
\* s2pdump.
Rewound(good) == IF driver = "BOARD" THEN good ELSE ~good

Rewind ==
  /\ tape_step = "REWIND"
  /\ \E good \in BOOLEAN : tape_step' = IF Rewound(good) THEN "READ" ELSE "ERROR"
  /\ UNCHANGED <<driver, tape, position, default_length, has_error, answer, file, restoring, stopped,
                 glitches>>

\* The drive's answer to a READ of default_length, with the position after it.  Something else than
\* the object, a unit attention for example, may be in the way.
Answers ==
  {[answer |-> "GLITCH", position |-> position]} \cup
  (IF position = Len(tape) THEN {[answer |-> "BLANK_CHECK", position |-> position]}
   ELSE LET o == tape[position + 1] IN
        (IF o.kind = "MARK" THEN {[answer |-> "FILEMARK", position |-> position + 1]} ELSE {})
        \cup (IF o.kind = "BAD" THEN {[answer |-> "MEDIUM_ERROR", position |-> position + 1]} ELSE {})
        \cup (IF o.kind # "MARK"            \* a bad record may be read in a second attempt
              THEN {[answer |-> IF o.length = default_length THEN "GOOD" ELSE "ILI",
                     position |-> position + 1]} ELSE {}))

\* ReadWrite() of the executor starts: has_error is that of one object.
Read ==
  /\ tape_step = "READ" /\ driver = "BOARD"
  /\ \E a \in Answers :
       /\ a.answer = "GLITCH" => glitches < MaxGlitches
       /\ glitches' = IF a.answer = "GLITCH" THEN glitches + 1 ELSE glitches
       /\ answer' = a.answer /\ position' = a.position
  /\ tape_step' = "SENSE"
  /\ UNCHANGED <<driver, tape, default_length, has_error, file, restoring, stopped>>

\* The READ loop ends with an object, and DumpTape() writes it to the file or fails to.
Object(o) ==
  /\ \/ file' = Append(file, o) /\ tape_step' = IF stopped THEN "DONE" ELSE "READ"
     \/ tape_step' = "ERROR" /\ UNCHANGED file
  /\ has_error' = FALSE

Again == tape_step' = "SPACE" /\ UNCHANGED file

\* The sense data.  Length(): the residue of the READ is what its length differs by.
\* As Missed, with the residue left out.
MissedIgnored == default_length

Missed == tape[position].length

Sense ==
  /\ tape_step = "SENSE"
  /\ \/ answer = "GOOD" /\ Object(Record(default_length, position)) /\ UNCHANGED default_length
     \/ answer = "GLITCH" /\ Object(Garbage(OddLength)) /\ UNCHANGED default_length
     \/ answer = "BLANK_CHECK" /\ tape_step' = "BETWEEN" /\ UNCHANGED <<file, has_error, default_length>>
     \/ answer = "FILEMARK" /\ Object(Mark) /\ UNCHANGED default_length
     \/ /\ answer = "MEDIUM_ERROR" /\ UNCHANGED default_length
        /\ IF has_error THEN Object(BadMark) ELSE has_error' = TRUE /\ Again
     \/ /\ answer = "ILI" /\ default_length' = Missed
        /\ IF Missed < default_length THEN Object(Record(Missed, position))
           ELSE Again /\ UNCHANGED has_error
  /\ UNCHANGED <<driver, tape, position, answer, restoring, stopped, glitches>>

\* As SpaceBack, over one object too many.
SpaceBackTwice ==
  /\ tape_step = "SPACE"
  /\ \/ position' = position - 2 /\ tape_step' = "READ"
     \/ tape_step' = "ERROR" /\ UNCHANGED position
  /\ UNCHANGED <<driver, tape, default_length, has_error, answer, file, restoring, stopped, glitches>>

\* As SpaceBack, without moving.
SpaceBackNever ==
  /\ tape_step = "SPACE" /\ tape_step' = "READ"
  /\ UNCHANGED <<driver, tape, position, default_length, has_error, answer, file, restoring, stopped, glitches>>

\* SpaceBack(), which throws if it fails.
SpaceBack ==
  /\ tape_step = "SPACE"
  /\ \/ position' = position - 1 /\ tape_step' = "READ"
     \/ tape_step' = "ERROR" /\ UNCHANGED position
  /\ UNCHANGED <<driver, tape, default_length, has_error, answer, file, restoring, stopped, glitches>>

\* REQUEST SENSE is not answered: its status is returned like a length.
NoAnswer ==
  /\ tape_step = "SENSE" /\ answer # "GOOD" /\ glitches < MaxGlitches
  /\ glitches' = glitches + 1
  /\ Object(Garbage(OddLength))
  /\ UNCHANGED <<driver, tape, position, default_length, answer, restoring, stopped>>

\* With the SG driver READ(6) has no operation code: the drive is asked whether it is ready.
ReadWithoutCode ==
  /\ tape_step = "READ" /\ driver = "SG" /\ glitches < MaxGlitches
  /\ glitches' = glitches + 1
  /\ Object(Garbage(default_length))
  /\ UNCHANGED <<driver, tape, position, default_length, answer, restoring, stopped>>

\* A signal ends the loop with the object at hand; RestoreTape() does not look at it.
Signal ==
  /\ ~stopped /\ tape_step \in {"READ", "SENSE", "SPACE", "RESTORE"} /\ stopped' = TRUE
  /\ UNCHANGED <<driver, tape, position, default_length, has_error, answer, file, restoring, tape_step,
                 glitches>>

-----------------------------------------------------------------------------
\* The image is restored to another tape.
StartRestore ==
  /\ tape_step = "BETWEEN"
  /\ \E good \in BOOLEAN : tape_step' = IF Rewound(good) THEN "RESTORE" ELSE "ERROR"
  /\ stopped' = FALSE
  /\ UNCHANGED <<driver, tape, position, default_length, has_error, answer, file, restoring, glitches>>

\* A record of an odd length in an image from elsewhere is followed by a pad byte, a record of
\* another class by its data: neither is skipped.
Derails(o) == o.kind = "OTHER" \/ (tape = <<>> /\ o.kind = "RECORD" /\ o.length % 2 = 1)

\* RestoreTape(): an object is read and written, or the drive does not take it.
Restore ==
  /\ tape_step = "RESTORE"
  /\ IF read_objects = Len(file) THEN tape_step' = "DONE" /\ UNCHANGED restoring
     ELSE LET o == file[read_objects + 1] IN
          \/ /\ o.kind # "BAD" /\ tape_step' = "ERROR" /\ UNCHANGED restoring
          \/ /\ target' = IF o.kind \in {"RECORD", "MARK"} THEN Append(target, o) ELSE target
             /\ IF Derails(o)
                THEN read_objects' = Len(file) /\ tape_step' \in {"RESTORE", "ERROR"}
                ELSE read_objects' = read_objects + 1 /\ UNCHANGED tape_step
  /\ UNCHANGED <<driver, tape, position, default_length, has_error, answer, file, stopped, glitches>>

Next ==
  \/ Rewind \/ Read \/ Sense \/ SpaceBack \/ NoAnswer \/ ReadWithoutCode
  \/ Signal \/ StartRestore \/ Restore

-----------------------------------------------------------------------------
\* What the file has for an object of the tape.
ImageOf(i) ==
  LET o == tape[i] IN
  IF o.kind = "MARK" THEN {Mark}
  ELSE IF o.kind = "BAD" THEN {BadMark, Record(o.length, i)} ELSE {Record(o.length, i)}

\* The first n objects of the file without its bad blocks.
Restorable[n \in 0..Len(file)] ==
  IF n = 0 THEN <<>>
  ELSE IF file[n].kind = "BAD" THEN Restorable[n - 1] ELSE Append(Restorable[n - 1], file[n])

\* A dump has the objects of the tape, each once and in order, with the length of each record,
\* whatever the lengths of the records before and wherever a bad block is, as long as every READ and
\* REQUEST SENSE is answered for the object it is about; and restored to another tape it gives the
\* records and filemarks again, without the bad blocks (s2pdump_core.cpp:678-777,
\* s2pdump_executor.cpp:140-220).
TapeCopied ==
  glitches = 0 /\ (\A i \in 1..read_objects : ~Derails(file[i])) =>
    /\ tape # <<>> =>
         /\ Len(file) <= Len(tape) /\ \A i \in 1..Len(file) : file[i] \in ImageOf(i)
         /\ tape_step \in {"BETWEEN", "RESTORE"} => Len(file) = Len(tape)
    /\ target = Restorable[read_objects]

\* s2pdump comes to an end with the board: the attempts to find the length of a record or to read a
\* bad block do not go on for ever (s2pdump_executor.cpp:140-220).  With the SG driver a tape has no
\* end, because the drive is never read.
DumpEnds == driver = "BOARD" => <>(tape_step \in {"DONE", "ERROR"})
=============================================================================
