------------------------------ MODULE Printer ------------------------------
(***************************************************************************)
(* The printer device (devices/printer.cpp): the data of PRINT commands are*)
(* collected in a temporary file, which SYNCHRONIZE BUFFER hands to the    *)
(* print command.  A chunk of data is known by the number of its command.  *)
(***************************************************************************)
EXTENDS Integers, Sequences

CONSTANT MaxPrints        \* commands in a run

NoFile == 0

VARIABLES
  files,          \* the temporary files on disk: the chunks in each
  filename,       \* the current one, or NoFile
  is_open,        \* is the stream open?
  print_phase, print_status,
  print_number,   \* number of commands
  printed,        \* history: what the print command was run on, in order
  accepted,       \* history: chunks that ended with GOOD since the last time it was run
  spoiled,        \* history: has an operation on the current file failed, or STOP PRINT been sent?
  left_over       \* history: files whose stream could not be opened

printerVars == <<files, filename, is_open, print_phase, print_status, print_number,
                 printed, accepted, spoiled, left_over>>

TypeOK ==
  /\ DOMAIN files \subseteq 1..MaxPrints
  /\ filename \in 0..MaxPrints
  /\ is_open \in BOOLEAN /\ spoiled \in BOOLEAN
  /\ print_phase \in {"FREE", "DATA_OUT", "DETACHED"}
  /\ print_status \in {"GOOD", "INVALID_FIELD", "IO_PROCESS_TERMINATED", "NONE"}
  /\ print_number \in 0..MaxPrints

Init ==
  /\ files = [f \in {} |-> <<>>] /\ filename = NoFile /\ is_open = FALSE
  /\ print_phase = "FREE" /\ print_status = "NONE" /\ print_number = 0
  /\ printed = <<>> /\ accepted = <<>> /\ spoiled = FALSE /\ left_over = {}

Begin == print_phase = "FREE" /\ print_number < MaxPrints /\ print_number' = print_number + 1

Without(f) == [g \in DOMAIN files \ {f} |-> files[g]]

\* As CleanUp, with the file still there.
CleanUpUnremoved ==
  is_open' = FALSE /\ filename' = NoFile /\ spoiled' = FALSE /\ accepted' = <<>> /\ UNCHANGED files

\* CleanUp(): the stream is closed and the file removed.
CleanUp ==
  /\ is_open' = FALSE /\ filename' = NoFile /\ spoiled' = FALSE /\ accepted' = <<>>
  /\ files' = Without(filename)

\* Print(): the length is 0, fits into the transfer buffer, or does not.
PrintData(length) ==
  /\ Begin
  /\ print_phase' = IF length = "FITS" THEN "DATA_OUT" ELSE "FREE"
  /\ print_status' = IF length = "TOO_LONG" THEN "INVALID_FIELD" ELSE "GOOD"
  /\ UNCHANGED <<files, filename, is_open, printed, accepted, spoiled, left_over>>

\* A write fails with the chunk in the file or not; the file stays open.
AppendChunk(f, content) ==
  \/ /\ files' = [g \in DOMAIN files \cup {f} |-> IF g = f THEN Append(content, print_number) ELSE files[g]]
     /\ accepted' = Append(accepted, print_number)
     /\ print_status' = "GOOD" /\ UNCHANGED spoiled
  \/ /\ \E c \in {content, Append(content, print_number)} :
          files' = [g \in DOMAIN files \cup {f} |-> IF g = f THEN c ELSE files[g]]
     /\ print_status' = "IO_PROCESS_TERMINATED" /\ spoiled' = TRUE
     /\ UNCHANGED accepted

\* WriteData(): without an open file there is a new one, whose name is kept even if the stream cannot
\* be opened.
WriteData ==
  /\ print_phase = "DATA_OUT" /\ print_phase' = "FREE"
  /\ \/ is_open /\ AppendChunk(filename, files[filename]) /\ UNCHANGED <<filename, is_open, left_over>>
     \/ /\ ~is_open                                   \* mkstemp() fails
        /\ print_status' = "IO_PROCESS_TERMINATED"
        /\ UNCHANGED <<files, filename, is_open, accepted, spoiled, left_over>>
     \/ /\ ~is_open /\ filename' = print_number       \* open() fails
        /\ files' = [g \in DOMAIN files \cup {print_number} |->
                       IF g = print_number THEN <<>> ELSE files[g]]
        /\ left_over' = left_over \cup {print_number}
        /\ print_status' = "IO_PROCESS_TERMINATED"
        /\ UNCHANGED <<is_open, accepted, spoiled>>
     \/ /\ ~is_open /\ filename' = print_number /\ is_open' = TRUE
        /\ AppendChunk(print_number, <<>>) /\ UNCHANGED left_over
  /\ UNCHANGED <<print_number, printed>>

\* SynchronizeBuffer(): closing the stream may lose what it still has, which nobody notices.
SynchronizeBuffer ==
  /\ Begin /\ print_phase' = "FREE"
  /\ IF ~is_open
     THEN /\ print_status' = "IO_PROCESS_TERMINATED"
          /\ UNCHANGED <<files, filename, is_open, printed, accepted, spoiled>>
     ELSE /\ \E n \in 0..Len(files[filename]), failed \in BOOLEAN :
               /\ ~failed => n = Len(files[filename])
               /\ printed' = Append(printed,
                    [job |-> SubSeq(files[filename], 1, n), sent |-> accepted,
                     spoiled |-> spoiled \/ failed])
          /\ print_status' \in {"GOOD", "IO_PROCESS_TERMINATED"}     \* of the print command
          /\ CleanUp
  /\ UNCHANGED left_over

\* STOP PRINT does nothing: the file stays, and what it has will be printed.
StopPrint ==
  /\ Begin /\ print_phase' = "FREE" /\ print_status' = "GOOD"
  /\ spoiled' = (spoiled \/ is_open)
  /\ UNCHANGED <<files, filename, is_open, printed, accepted, left_over>>

\* The bus is reset in a DATA OUT phase.
BreakOff ==
  /\ print_phase = "DATA_OUT" /\ print_phase' = "FREE" /\ print_status' = "NONE"
  /\ UNCHANGED <<files, filename, is_open, print_number, printed, accepted, spoiled, left_over>>

\* The device is detached or s2p ends.
Detach ==
  /\ print_phase = "FREE" /\ print_phase' = "DETACHED"
  /\ CleanUp
  /\ UNCHANGED <<print_status, print_number, printed, left_over>>

Next ==
  \/ \E l \in {"ZERO", "FITS", "TOO_LONG"} : PrintData(l)
  \/ WriteData \/ SynchronizeBuffer \/ StopPrint \/ BreakOff \/ Detach

-----------------------------------------------------------------------------
\* The print command runs on what the PRINT commands that ended with GOOD have sent since it last
\* ran, each chunk once and in order, unless an operation on the file has failed; and a temporary
\* file is the current one until it has been printed or the device is gone, unless it could not be
\* opened (printer.cpp:72-193).  Nothing is said of a job STOP PRINT was sent for: the code prints
\* it, and printer.cpp:29 says that STOP PRINT cancels it.
SpoolExact ==
  /\ \A i \in 1..Len(printed) : ~printed[i].spoiled => printed[i].job = printed[i].sent
  /\ DOMAIN files \subseteq {filename} \cup left_over
  /\ is_open => filename \in DOMAIN files
  /\ ~is_open => accepted = <<>>
=============================================================================
