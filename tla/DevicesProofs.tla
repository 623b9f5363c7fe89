---------------------------- MODULE DevicesProofs ----------------------------
(***************************************************************************)
(* Proofs about devices and tools of MCDevices, for every number of        *)
(* commands and of hosts: the printer prints what was accepted, a host     *)
(* gets the result of its own operation, s2pexec shows what belongs to the *)
(* command, a configuration survives, a host may set the mode pages it was *)
(* sent, and s2pdump, s2psimh and s2p get back what they or their users    *)
(* have written.  The parts share no state, so that an invariant of one is *)
(* disturbed by its own steps only.                                        *)
(***************************************************************************)
EXTENDS MCDevices, WellFoundedInduction, SequenceTheorems, TLAPS

(* Bounds that many steps need, each by itself. *)

LEMMA ExecBounds == Pieces \in Nat \ {0} /\ MaxLines \in Nat
BY DevicesAssumption

LEMMA ConfigBound == MaxPersists \in Nat
BY DevicesAssumption

LEMMA TapeBounds == DefaultLength \in Nat /\ OddLength \in Nat /\ MaxGlitches \in Nat
BY DevicesAssumption

(* The printer. *)

\* What the print command was run on.
PrintJob == [job : Seq(Nat), sent : Seq(Nat), spoiled : BOOLEAN]

\* The values of the members and of the history.
PrinterTypes ==
  /\ print_number \in Nat /\ filename \in Nat /\ is_open \in BOOLEAN /\ spoiled \in BOOLEAN
  /\ \A f \in DOMAIN files : files[f] \in Seq(Nat)
  /\ accepted \in Seq(Nat) /\ printed \in Seq(PrintJob)

\* An open file is there with what was accepted, unless it is spoiled; without one, nothing was
\* accepted, and only files that could not be opened are left.
PrinterFiles ==
  /\ DOMAIN files \subseteq {filename} \cup left_over
  /\ is_open => filename \in DOMAIN files /\ (~spoiled => files[filename] = accepted)
  /\ ~is_open => accepted = <<>> /\ DOMAIN files \subseteq left_over

\* What was printed is what was sent.
PrintedIsSent == \A i \in 1..Len(printed) : ~printed[i].spoiled => printed[i].job = printed[i].sent

PrinterInv == part = "PRINTER" => PrinterTypes /\ PrinterFiles /\ PrintedIsSent

\* A print adds to what was printed what the current file has.
LEMMA PrintsTheFile ==
  ASSUME PrinterTypes, PrinterFiles, PrintedIsSent, is_open,
         NEW n \in 0..Len(files[filename]), NEW fails \in BOOLEAN,
         ~fails => n = Len(files[filename]),
         printed' = Append(printed, [job |-> SubSeq(files[filename], 1, n), sent |-> accepted,
                                     spoiled |-> spoiled \/ fails])
  PROVE  printed' \in Seq(PrintJob) /\ PrintedIsSent'
<1> DEFINE content_of == files[filename]
           cut == SubSeq(content_of, 1, n)
           bad == spoiled \/ fails
           new == [job |-> cut, sent |-> accepted, spoiled |-> bad]
<1>1. content_of \in Seq(Nat) /\ bad \in BOOLEAN /\ (~spoiled => content_of = accepted)
  BY DEF PrinterTypes, PrinterFiles
<1>2. cut \in Seq(Nat)
  BY <1>1, SubSeqProperties
<1>3. ~bad => cut = accepted
  BY <1>1, SubSeqFull
<1>4. printed' = Append(printed, new)
  OBVIOUS
<1> HIDE DEF content_of, cut, bad
<1>5. new \in PrintJob /\ (~new.spoiled => new.job = new.sent)
  BY <1>1, <1>2, <1>3 DEF PrintJob, PrinterTypes
<1> HIDE DEF new
<1>6. /\ printed' \in Seq(PrintJob) /\ Len(printed') = Len(printed) + 1
      /\ printed'[Len(printed) + 1] = new
      /\ \A i \in 1..Len(printed) : printed'[i] = printed[i]
  BY <1>4, <1>5 DEF PrinterTypes
<1>7. ASSUME NEW i \in 1..Len(printed'), ~printed'[i].spoiled
      PROVE  printed'[i].job = printed'[i].sent
  <2>1. CASE i \in 1..Len(printed)
    <3>1. printed'[i] = printed[i]
      BY <1>6, <2>1
    <3>2. ~printed[i].spoiled => printed[i].job = printed[i].sent
      BY <2>1 DEF PrintedIsSent
    <3>3. QED
      BY <1>7, <3>1, <3>2
  <2>2. CASE i = Len(printed) + 1
    <3>1. printed'[i] = new
      BY <1>6, <2>2
    <3>2. QED
      BY <1>5, <1>7, <3>1
  <2>3. Len(printed) \in Nat
    BY DEF PrinterTypes
  <2>4. QED
    BY <1>6, <2>1, <2>2, <2>3
<1>8. QED
  BY <1>6, <1>7 DEF PrintedIsSent

\* A chunk that is appended to a file leaves it with what was accepted, or spoiled.
LEMMA AppendsChunk ==
  ASSUME PrinterTypes, NEW f \in Nat, NEW content0 \in Seq(Nat),
         P!AppendChunk(f, content0), ~spoiled => content0 = accepted
  PROVE  /\ DOMAIN files' = DOMAIN files \cup {f}
         /\ \A g \in DOMAIN files' : files'[g] \in Seq(Nat)
         /\ accepted' \in Seq(Nat) /\ spoiled' \in BOOLEAN
         /\ ~spoiled' => files'[f] = accepted'
<1>1. Append(content0, print_number) \in Seq(Nat) /\ Append(accepted, print_number) \in Seq(Nat)
  BY DEF PrinterTypes
<1>2. PICK c \in {content0, Append(content0, print_number)} :
           files' = [g \in DOMAIN files \cup {f} |-> IF g = f THEN c ELSE files[g]]
           /\ (~spoiled' => /\ ~spoiled /\ c = Append(content0, print_number)
                            /\ accepted' = Append(accepted, print_number))
           /\ accepted' \in {accepted, Append(accepted, print_number)}
           /\ spoiled' \in BOOLEAN
  BY DEF P!AppendChunk, PrinterTypes
<1>3. QED
  BY <1>1, <1>2 DEF PrinterTypes

\* CleanUp() leaves only the files that could not be opened.
LEMMA CleansUp ==
  ASSUME PrinterTypes, PrinterFiles, P!CleanUp
  PROVE  /\ filename' \in Nat /\ is_open' = FALSE /\ spoiled' = FALSE
         /\ accepted' \in Seq(Nat) /\ accepted' = <<>>
         /\ \A f \in DOMAIN files' : files'[f] \in Seq(Nat)
         /\ DOMAIN files' \subseteq left_over
<1>1. /\ filename' = 0 /\ is_open' = FALSE /\ spoiled' = FALSE /\ accepted' = <<>>
      /\ files' = [f \in DOMAIN files \ {filename} |-> files[f]]
  BY DEF P!CleanUp, P!Without, P!NoFile
<1>2. <<>> \in Seq(Nat)
  OBVIOUS
<1>3. QED
  BY <1>1, <1>2 DEF PrinterTypes, PrinterFiles

\* Every step of the printer keeps its invariant.
LEMMA PrinterStep ==
  ASSUME PrinterTypes, PrinterFiles, PrintedIsSent, P!Next
  PROVE  PrinterTypes' /\ PrinterFiles' /\ PrintedIsSent'
<1>1. ASSUME NEW l \in {"ZERO", "FITS", "TOO_LONG"}, P!PrintData(l)
      PROVE  PrinterTypes' /\ PrinterFiles' /\ PrintedIsSent'
  BY <1>1 DEF P!PrintData, P!Begin, PrinterTypes, PrinterFiles, PrintedIsSent
<1>2. CASE P!WriteData
  <2>1. print_number' = print_number /\ printed' = printed
    BY <1>2 DEF P!WriteData
  <2>2. CASE is_open /\ P!AppendChunk(filename, files[filename])
             /\ UNCHANGED <<filename, is_open, left_over>>
    <3>1. files[filename] \in Seq(Nat) /\ (~spoiled => files[filename] = accepted)
      BY <2>2 DEF PrinterTypes, PrinterFiles
    <3>2. filename \in Nat
      BY DEF PrinterTypes
    <3>3. /\ DOMAIN files' = DOMAIN files \cup {filename}
          /\ \A g \in DOMAIN files' : files'[g] \in Seq(Nat)
          /\ accepted' \in Seq(Nat) /\ spoiled' \in BOOLEAN
          /\ ~spoiled' => files'[filename] = accepted'
      BY <2>2, <3>1, <3>2, AppendsChunk
    <3>4. QED
      BY <2>1, <2>2, <3>3 DEF PrinterTypes, PrinterFiles, PrintedIsSent
  <2>3. CASE ~is_open /\ UNCHANGED <<files, filename, is_open, accepted, spoiled, left_over>>
    BY <2>1, <2>3 DEF PrinterTypes, PrinterFiles, PrintedIsSent
  <2>4. CASE /\ ~is_open /\ filename' = print_number
             /\ files' = [g \in DOMAIN files \cup {print_number} |->
                            IF g = print_number THEN <<>> ELSE files[g]]
             /\ left_over' = left_over \cup {print_number}
             /\ UNCHANGED <<is_open, accepted, spoiled>>
    <3>1. \A f \in DOMAIN files' : files'[f] \in Seq(Nat)
      BY <2>4 DEF PrinterTypes
    <3>2. QED
      BY <2>1, <2>4, <3>1 DEF PrinterTypes, PrinterFiles, PrintedIsSent
  <2>5. CASE /\ ~is_open /\ filename' = print_number /\ is_open' = TRUE
             /\ P!AppendChunk(print_number, <<>>) /\ UNCHANGED left_over
    <3>1. print_number \in Nat /\ <<>> \in Seq(Nat) /\ accepted = <<>> /\ DOMAIN files \subseteq left_over
      BY <2>5 DEF PrinterTypes, PrinterFiles
    <3>2. /\ DOMAIN files' = DOMAIN files \cup {print_number}
          /\ \A g \in DOMAIN files' : files'[g] \in Seq(Nat)
          /\ accepted' \in Seq(Nat) /\ spoiled' \in BOOLEAN
          /\ ~spoiled' => files'[print_number] = accepted'
      BY <2>5, <3>1, AppendsChunk
    <3>3. QED
      BY <2>1, <2>5, <3>1, <3>2 DEF PrinterTypes, PrinterFiles, PrintedIsSent
  <2>6. QED
    BY <1>2, <2>2, <2>3, <2>4, <2>5 DEF P!WriteData
<1>3. CASE P!SynchronizeBuffer
  <2>1. print_number' \in Nat /\ left_over' = left_over
    BY <1>3 DEF P!SynchronizeBuffer, P!Begin, PrinterTypes
  <2>2. CASE ~is_open
    BY <1>3, <2>1, <2>2 DEF P!SynchronizeBuffer, PrinterTypes, PrinterFiles, PrintedIsSent
  <2>3. CASE is_open
    <3>1. printed' \in Seq(PrintJob) /\ PrintedIsSent'
      BY <1>3, <2>3, PrintsTheFile DEF P!SynchronizeBuffer
    <3>2. P!CleanUp
      BY <1>3, <2>3 DEF P!SynchronizeBuffer
    <3>3. QED
      BY <2>1, <3>1, <3>2, CleansUp DEF PrinterTypes, PrinterFiles
  <2>4. QED
    BY <2>2, <2>3 DEF PrinterTypes
<1>4. CASE P!StopPrint
  BY <1>4 DEF P!StopPrint, P!Begin, PrinterTypes, PrinterFiles, PrintedIsSent
<1>5. CASE P!BreakOff
  BY <1>5 DEF P!BreakOff, PrinterTypes, PrinterFiles, PrintedIsSent
<1>6. CASE P!Detach
  BY <1>6, CleansUp DEF P!Detach, PrinterTypes, PrinterFiles, PrintedIsSent
<1>7. QED
  BY <1>1, <1>2, <1>3, <1>4, <1>5, <1>6 DEF P!Next

\* A part that does not run keeps its variables.
LEMMA OtherThanPrinter ==
  ASSUME [Next]_vars
  PROVE  \/ part = "PRINTER" /\ part' = part /\ P!Next
         \/ part # "PRINTER" /\ part' = part
         \/ part' = part /\ UNCHANGED printer_vars
BY DEF Next, vars, Transfer, Host, Spool, Net, Generic, Disk, TapeCopy, Simh, Exec, Mode, Config

\* The invariant of the printer: it holds at the start, and every step keeps it.
LEMMA PrinterInitially == Init => PrinterInv
<1>1. ASSUME P!Init
      PROVE  PrinterTypes /\ PrinterFiles /\ PrintedIsSent
  <2>1. <<>> \in Seq(Nat) /\ <<>> \in Seq(PrintJob) /\ Len(<<>>) = 0
    OBVIOUS
  <2>2. DOMAIN files = {} /\ filename = 0 /\ is_open = FALSE /\ print_number = 0
        /\ printed = <<>> /\ accepted = <<>> /\ spoiled = FALSE
    BY <1>1 DEF P!Init, P!NoFile
  <2>3. PrinterTypes
    BY <2>1, <2>2 DEF PrinterTypes
  <2>4. PrinterFiles
    BY <2>2 DEF PrinterFiles
  <2>5. PrintedIsSent
    BY <2>1, <2>2 DEF PrintedIsSent
  <2>6. QED
    BY <2>3, <2>4, <2>5
<1>2. QED
  BY <1>1 DEF Init, PrinterInv

LEMMA PrinterInvKept == PrinterInv /\ [Next]_vars => PrinterInv'
<1>1. ASSUME PrinterInv, part = "PRINTER", part' = part, UNCHANGED printer_vars
      PROVE  PrinterInv'
  BY <1>1 DEF PrinterInv, printer_vars, PrinterTypes, PrinterFiles, PrintedIsSent
<1>2. QED
  BY <1>1, OtherThanPrinter, PrinterStep DEF PrinterInv

\* What has been printed without an error, and without STOP PRINT for it, is what the PRINT commands
\* that ended with GOOD have sent, and no temporary file is forgotten.
THEOREM PrintsWhatWasSent == Spec => []SpoolExact
<1>1. Init => PrinterInv
  BY PrinterInitially
<1>2. PrinterInv /\ [Next]_vars => PrinterInv'
  BY PrinterInvKept
<1>3. PrinterInv => SpoolExact
  BY DEF PrinterInv, SpoolExact, P!SpoolExact, PrinterFiles, PrintedIsSent
<1>4. QED
  BY <1>1, <1>2, <1>3, PTL DEF Spec
-----------------------------------------------------------------------------
(* Host services. *)

HostTypes ==
  /\ execution_results \in [Initiators \cup {H!UNKNOWN_INITIATOR_ID} -> Nat]
  /\ latest \in [H!Hosts -> Nat]
  /\ request.host \in H!Hosts /\ request.n \in Nat
  /\ operations \in Nat

\* The result kept for a host that identifies itself is that of its last operation, except that the
\* one on its way to the host is no longer kept, and that while an operation is received there is none.
ResultsKept ==
  /\ \A h \in Initiators :
       ~(host_phase = "DATA_IN" /\ request.host = h) => execution_results[h] = latest[h]
  /\ host_phase = "DATA_IN" /\ request.host \in Initiators =>
       execution_results[request.host] = 0 /\ latest[request.host] = request.n
  /\ host_phase = "DATA_OUT" =>
       execution_results[H!Id(request.host)] = 0 /\ latest[request.host] = 0
  /\ host_phase = "DATA_IN" => fetched = 0

HostInv == part = "HOST" => HostTypes /\ ResultsKept

\* Different hosts that identify themselves have different IDs.
LEMMA OwnIds ==
  /\ \A h \in H!Hosts : H!Id(h) \in Initiators \cup {H!UNKNOWN_INITIATOR_ID}
  /\ \A h \in Initiators : h \in H!Hosts /\ H!Id(h) = h
  /\ \A h \in H!Hosts, i \in Initiators : H!Id(h) = i <=> h = i
BY DevicesAssumption DEF H!Id, H!Hosts, H!UNKNOWN_INITIATOR_ID

\* The start of a command.
LEMMA HostAsks ==
  ASSUME HostTypes, NEW o, NEW h \in H!Hosts, NEW f, NEW n \in Nat, H!Asks(o, h, f, n)
  PROVE  /\ host_phase = "FREE" /\ operations' \in Nat /\ operations' = operations + 1 /\ fetched' = 0
         /\ request'.host = h /\ request'.n = n
BY DEF H!Asks, H!Begin, H!None, HostTypes

\* Every step of host services keeps its invariant.
LEMMA HostStep ==
  ASSUME HostTypes, ResultsKept, H!Next
  PROVE  HostTypes' /\ ResultsKept'
<1>1. ASSUME NEW h \in H!Hosts, NEW s \in BOOLEAN, NEW l \in BOOLEAN, H!StartStopUnit(h, s, l)
      PROVE  HostTypes' /\ ResultsKept'
  <2>1. operations' \in Nat
    BY <1>1 DEF H!StartStopUnit, H!Asks, H!Begin, HostTypes
  <2>2. H!Asks("START_STOP", h, "BINARY", operations')
    BY <1>1 DEF H!StartStopUnit
  <2>3. /\ host_phase = "FREE" /\ request'.host = h /\ request'.n \in Nat
    BY <2>1, <2>2, HostAsks
  <2>4. /\ host_phase' \in {"FREE", "STOPPED"}
        /\ UNCHANGED <<execution_results, latest>>
    BY <1>1 DEF H!StartStopUnit, H!Reject
  <2>5. QED
    BY <2>1, <2>3, <2>4 DEF HostTypes, ResultsKept
<1>2. ASSUME NEW h \in H!Hosts, NEW fs, NEW e \in BOOLEAN, H!ExecuteOperation(h, fs, e)
      PROVE  HostTypes' /\ ResultsKept'
  <2>1. operations' \in Nat
    BY <1>2 DEF H!ExecuteOperation, H!Asks, H!Begin, HostTypes
  <2>2. PICK f \in H!Formats : H!Asks("EXECUTE_OPERATION", h, f, operations')
    BY <1>2 DEF H!ExecuteOperation
  <2>3. /\ host_phase = "FREE" /\ request'.host = h /\ request'.n \in Nat
    BY <2>1, <2>2, HostAsks
  <2>4. /\ host_phase' \in {"FREE", "DATA_OUT"}
        /\ execution_results' = [execution_results EXCEPT ![H!Id(h)] = 0]
        /\ latest' = [latest EXCEPT ![h] = 0]
    BY <1>2 DEF H!ExecuteOperation, H!Reject, H!None
  <2>5. HostTypes'
    BY <2>1, <2>3, <2>4 DEF HostTypes
  <2>6. execution_results'[H!Id(h)] = 0 /\ latest'[h] = 0
    BY <2>4, OwnIds DEF HostTypes
  <2>7. ASSUME NEW i \in Initiators
        PROVE  execution_results'[i] = latest'[i]
    <3>1. execution_results[i] = latest[i]
      BY <2>3 DEF ResultsKept
    <3>2. QED
      BY <2>4, <3>1, OwnIds DEF HostTypes
  <2>8. QED
    BY <2>3, <2>4, <2>5, <2>6, <2>7 DEF ResultsKept
<1>3. ASSUME NEW h \in H!Hosts, NEW fs, H!ReceiveOperationResults(h, fs)
      PROVE  HostTypes' /\ ResultsKept'
  <2>1. execution_results[H!Id(h)] \in Nat
    BY OwnIds DEF HostTypes
  <2>2. PICK f \in H!Formats :
             H!Asks("RECEIVE_OPERATION_RESULTS", h, f, execution_results[H!Id(h)])
    BY <1>3 DEF H!ReceiveOperationResults
  <2>3. /\ host_phase = "FREE" /\ operations' \in Nat /\ fetched' = 0
        /\ request'.host = h /\ request'.n = execution_results[H!Id(h)]
    BY <2>1, <2>2, HostAsks
  <2>4. /\ latest' = latest
        /\ \/ host_phase' = "FREE" /\ execution_results' = execution_results
           \/ host_phase' = "DATA_IN" /\ execution_results' = [execution_results EXCEPT ![H!Id(h)] = 0]
    BY <1>3 DEF H!ReceiveOperationResults, H!Reject, H!None
  <2>5. HostTypes'
    BY <2>1, <2>3, <2>4 DEF HostTypes
  <2>6. \A i \in Initiators : execution_results[i] = latest[i]
    BY <2>3 DEF ResultsKept
  <2>7. CASE host_phase' = "FREE"
    BY <2>4, <2>5, <2>6, <2>7 DEF ResultsKept
  <2>8. CASE host_phase' = "DATA_IN"
    <3>1. execution_results' = [execution_results EXCEPT ![H!Id(h)] = 0]
      BY <2>4, <2>8
    <3>2. ASSUME NEW i \in Initiators, i # h
          PROVE  execution_results'[i] = latest'[i]
      BY <2>4, <2>6, <3>1, <3>2, OwnIds DEF HostTypes
    <3>3. h \in Initiators => execution_results'[h] = 0 /\ latest'[h] = request'.n
      BY <2>3, <2>4, <2>6, <3>1, OwnIds DEF HostTypes
    <3>4. QED
      BY <2>3, <2>5, <2>8, <3>2, <3>3 DEF ResultsKept
  <2>9. QED
    BY <2>4, <2>7, <2>8
<1>4. ASSUME NEW f, NEW d \in BOOLEAN, H!WriteData(f, d)
      PROVE  HostTypes' /\ ResultsKept'
  <2>1. /\ host_phase = "DATA_OUT" /\ host_phase' = "FREE" /\ UNCHANGED <<request, operations>>
        /\ \/ /\ execution_results' = [execution_results EXCEPT ![H!Id(request.host)] = request.n]
              /\ latest' = [latest EXCEPT ![request.host] = request.n]
           \/ UNCHANGED <<execution_results, latest>>
    BY <1>4 DEF H!WriteData, H!Reject
  <2>2. HostTypes'
    BY <2>1 DEF HostTypes
  <2>3. ASSUME NEW i \in Initiators
        PROVE  execution_results'[i] = latest'[i]
    <3>1. execution_results[i] = latest[i]
      BY <2>1 DEF ResultsKept
    <3>2. QED
      BY <2>1, <3>1, OwnIds DEF HostTypes
  <2>4. QED
    BY <2>1, <2>2, <2>3 DEF ResultsKept
<1>5. ASSUME \/ H!Deliver
             \/ H!BreakOff
      PROVE  HostTypes' /\ ResultsKept'
  <2>1. /\ host_phase \in {"DATA_IN", "DATA_OUT"} /\ host_phase' = "FREE"
        /\ latest' = [latest EXCEPT ![request.host] = 0]
        /\ UNCHANGED <<execution_results, request, operations>>
    BY <1>5 DEF H!Deliver, H!BreakOff, H!None
  <2>2. HostTypes'
    BY <2>1 DEF HostTypes
  <2>3. ASSUME NEW i \in Initiators
        PROVE  execution_results'[i] = latest'[i]
    <3>1. CASE i = request.host
      <4>1. execution_results[i] = 0
        BY <2>1, <3>1, OwnIds DEF ResultsKept
      <4>2. QED
        BY <2>1, <3>1, <4>1 DEF HostTypes
    <3>2. CASE i # request.host
      <4>1. execution_results[i] = latest[i]
        BY <3>2 DEF ResultsKept
      <4>2. QED
        BY <2>1, <3>2, <4>1, OwnIds DEF HostTypes
    <3>3. QED
      BY <3>1, <3>2
  <2>4. QED
    BY <2>1, <2>2, <2>3 DEF ResultsKept
<1>6. QED
  BY <1>1, <1>2, <1>3, <1>4, <1>5 DEF H!Next

\* A host receives its own result, and only misses one that is not there.
LEMMA HostReceives ==
  ASSUME HostTypes, ResultsKept, H!Next, request'.host \in Initiators
  PROVE  /\ host_phase = "DATA_IN" /\ fetched' # 0 => fetched' = latest[request'.host]
         /\ host_phase = "FREE" /\ host_status' = "DATA_CURRENTLY_UNAVAILABLE" /\ operations' # operations
              => latest[request'.host] = 0
<1>1. ASSUME host_phase = "DATA_IN", fetched' # 0
      PROVE  fetched' = latest[request'.host]
  <2>1. H!Deliver \/ H!BreakOff
    BY <1>1 DEF H!Next, H!StartStopUnit, H!ExecuteOperation, H!ReceiveOperationResults, H!WriteData,
                H!Asks, H!Begin
  <2>2. CASE H!Deliver
    BY <1>1, <2>2 DEF H!Deliver, ResultsKept
  <2>3. CASE H!BreakOff
    BY <1>1, <2>3 DEF H!BreakOff, ResultsKept
  <2>4. QED
    BY <2>1, <2>2, <2>3
<1>2. ASSUME host_phase = "FREE", host_status' = "DATA_CURRENTLY_UNAVAILABLE", operations' # operations
      PROVE  latest[request'.host] = 0
  <2>1. PICK h \in H!Hosts, fs \in H!FormatBits : H!ReceiveOperationResults(h, fs)
    <3>1. ~H!Deliver /\ ~H!BreakOff /\ ~\E f \in H!Formats \cup {"NONE"}, d \in BOOLEAN : H!WriteData(f, d)
      BY <1>2 DEF H!Deliver, H!BreakOff, H!WriteData
    <3>2. ~\E h \in H!Hosts, s, l \in BOOLEAN : H!StartStopUnit(h, s, l)
      BY <1>2 DEF H!StartStopUnit, H!Reject
    <3>3. ~\E h \in H!Hosts, fs \in H!FormatBits, e \in BOOLEAN : H!ExecuteOperation(h, fs, e)
      BY <1>2 DEF H!ExecuteOperation, H!Reject
    <3>4. QED
      BY <3>1, <3>2, <3>3 DEF H!Next
  <2>2. request'.host = h /\ execution_results[H!Id(h)] = 0
    BY <1>2, <2>1 DEF H!ReceiveOperationResults, H!Asks, H!Reject, H!None
  <2>3. QED
    BY <1>2, <2>2, OwnIds DEF ResultsKept
<1>3. QED
  BY <1>1, <1>2

\* A part that does not run keeps its variables.
LEMMA OtherThanHost ==
  ASSUME [Next]_vars
  PROVE  \/ part = "HOST" /\ part' = part /\ H!Next
         \/ part # "HOST" /\ part' = part /\ UNCHANGED host_vars
         \/ part' = part /\ UNCHANGED host_vars
BY DEF Next, vars, Transfer, Host, Spool, Net, Generic, Disk, TapeCopy, Simh, Exec, Mode, Config

\* The invariant of host services: it holds at the start, and every step keeps it.
LEMMA HostInitially == Init => HostInv
<1>1. ASSUME H!Init
      PROVE  HostTypes /\ ResultsKept
  BY <1>1, OwnIds DEF H!Init, H!None, HostTypes, ResultsKept
<1>2. QED
  BY <1>1 DEF Init, HostInv

LEMMA HostInvKept == HostInv /\ [Next]_vars => HostInv'
<1>1. ASSUME HostInv, part = "HOST", part' = part, UNCHANGED host_vars
      PROVE  HostInv'
  BY <1>1 DEF HostInv, host_vars, HostTypes, ResultsKept
<1>2. QED
  BY <1>1, OtherThanHost, HostStep DEF HostInv

\* Whatever the hosts do in between, a host that identifies itself receives the result of its own
\* last operation, and is not told that there is none.
THEOREM ResultsAreOwn == Spec => OwnResult
<1>1. Init => HostInv
  BY HostInitially
<1>2. HostInv /\ [Next]_vars => HostInv'
  BY HostInvKept
<1>3. HostInv /\ [Next]_vars =>
        [LET own == latest[request'.host] IN
         /\ host_phase = "DATA_IN" /\ fetched' # H!None /\ request.host \in Initiators =>
              fetched' = own
         /\ host_phase = "FREE" /\ host_status' = "DATA_CURRENTLY_UNAVAILABLE"
              /\ request'.host \in Initiators /\ operations' # operations => own = H!None]_(H!hostVars)
  <2>1. ASSUME HostInv, [Next]_vars, ~UNCHANGED H!hostVars
        PROVE  HostTypes /\ ResultsKept /\ H!Next
    BY <2>1, OtherThanHost DEF HostInv, host_vars, H!hostVars
  <2>2. ASSUME H!Next, host_phase = "DATA_IN"
        PROVE  request' = request
    BY <2>2 DEF H!Next, H!StartStopUnit, H!ExecuteOperation, H!ReceiveOperationResults, H!WriteData,
                H!Asks, H!Begin, H!Deliver, H!BreakOff
  <2>3. QED
    BY <2>1, <2>2, HostReceives DEF H!None
<1>4. QED
  BY <1>1, <1>2, <1>3, PTL DEF Spec, OwnResult, H!OwnResult
-----------------------------------------------------------------------------
(* s2pexec. *)

ExecTypes ==
  /\ X!TypeOK
  /\ line.n \in 0..MaxLines /\ line.data \in BOOLEAN /\ line.sense \in BOOLEAN

\* The options use SG with a device file that has been named.
OptionsNamed ==
  /\ options.use_sg <=> options.device_file # X!None
  /\ options.use_sg => options.device_file \in named

\* An executor that is initialized is one for the options.
ExecutorFollows ==
  /\ options.is_initialized /\ options.use_sg =>
       executor.is_sg /\ executor.fd = options.device_file
  /\ options.is_initialized /\ ~options.use_sg => ~executor.is_sg

\* With SG the bus has been left, and a bus that is not there has no target.
Sound(x) ==
  /\ x.is_sg => x.bus # "UP"
  /\ x.bus \in {"NONE", "BARE"} => x.target = X!None
  /\ x.is_sg \/ x.bus = "UP" => x.exists

\* An executor reaches only what has been named, also with the target of the next line.
RunsNamed ==
  /\ Sound(executor)
  /\ executor.is_sg => executor.fd \in named
  /\ executor.bus = "UP" => {executor.target, options.target} \subseteq named \cup {X!None}

ExecInv == part = "EXEC" => ExecTypes /\ OptionsNamed /\ ExecutorFollows /\ RunsNamed
ExecSafe == ExecInv /\ OwnAnswer
\* The members of S2pExec that have to do with the device, and its executor.
Options == [device_file : DeviceFiles \cup {X!None}, use_sg : BOOLEAN, is_initialized : BOOLEAN,
            target : Targets \cup {X!None}, help : BOOLEAN]
Executor == [exists : BOOLEAN, is_sg : BOOLEAN, bus : {"NONE", "BARE", "UP", "DOWN"},
             target : Targets \cup {X!None}, fd : DeviceFiles \cup {X!None}]

Adapter == [sense : [n : 0..MaxLines, response : X!Responses \cup {0}, key : X!Keys \cup {0}],
            valid : BOOLEAN, byte_count : 0..Pieces]

\* What is entered.
LEMMA LinesTyped ==
  ASSUME NEW l \in Lines
  PROVE  /\ l.name \in {"SG", "SCSI", "SASI", X!None}
         /\ l.name = "SG" => l.device \in DeviceFiles
         /\ l.name \in {"SCSI", "SASI"} => l.device \in Targets
         /\ l.name # X!None => l.device # X!None
         /\ {l.command, l.data, l.sense, l.reset, l.help} \subseteq BOOLEAN
<1>1. PICK name \in {"SG", "SCSI", "SASI", X!None}, to \in DeviceFiles \cup Targets \cup {X!None},
           what \in {"COMMAND", "NOTHING", "HELP", "BOTH", "DATA"} :
             /\ l = Line(name, to, what)
             /\ name = "SG" => to \in DeviceFiles
             /\ name \in {"SCSI", "SASI"} => to \in Targets
  BY DevicesAssumption DEF Lines, X!None
<1>2. /\ l.name = name /\ l.device = to
      /\ {l.command, l.data, l.sense, l.reset, l.help} \subseteq BOOLEAN
  BY <1>1 DEF Line
<1>3. QED
  BY <1>1, <1>2, DevicesAssumption

\* An option for a device takes effect in the options.
LEMMA NamedOptions ==
  ASSUME NEW o \in Options, NEW l \in Lines, o.use_sg <=> o.device_file # X!None
  PROVE  LET n == X!Named(o, l) IN
         /\ n \in Options /\ n.target = o.target /\ n.help = o.help
         /\ n.use_sg <=> n.device_file # X!None
         /\ l.name = "SG" => n.device_file = l.device
         /\ l.name = "SCSI" => ~n.use_sg
         /\ l.name \notin {"SG", "SCSI"} => n = o
         /\ n.is_initialized => /\ o.is_initialized /\ n.device_file = o.device_file
                                /\ n.use_sg = o.use_sg
<1>1. CASE l.name = "SG" /\ o.device_file # l.device
  <2>1. X!Named(o, l) = [o EXCEPT !.device_file = l.device, !.use_sg = TRUE, !.is_initialized = FALSE]
    BY <1>1 DEF X!Named
  <2>2. QED
    BY <1>1, <2>1, LinesTyped DEF Options, X!None
<1>2. CASE l.name = "SCSI"
  <2>1. X!Named(o, l) =
          [o EXCEPT !.device_file = X!None, !.use_sg = FALSE, !.is_initialized = FALSE]
    BY <1>2 DEF X!Named
  <2>2. QED
    BY <1>2, <2>1 DEF Options, X!None
<1>3. CASE l.name # "SCSI" /\ (l.name = "SG" => o.device_file = l.device)
  BY <1>3 DEF X!Named
<1>4. QED
  BY <1>1, <1>2, <1>3

\* Cleaning up an executor leaves its bus without signals, or its device file closed.
LEMMA CleanedUp ==
  ASSUME NEW e \in Executor, Sound(e)
  PROVE  LET c == X!CleanUp(e) IN
         /\ c \in Executor /\ ~c.is_sg /\ Sound(c)
         /\ c.bus \in {"UP", "NONE"} => e.bus = c.bus
         /\ c.target = e.target
BY DEF X!CleanUp, Executor, Sound, X!None

\* What may become of an initialization.
LEMMA Initialized ==
  ASSUME NEW e \in Executor, Sound(e), NEW o \in Options, NEW r \in X!InitResults(e, o),
         e.exists /\ o.use_sg => e.bus # "UP"
  PROVE  /\ r.ok \in BOOLEAN /\ r.ex \in Executor /\ Sound(r.ex)
         /\ r.ok /\ o.use_sg => r.ex.is_sg /\ r.ex.fd = o.device_file
         /\ r.ok /\ ~o.use_sg => ~r.ex.is_sg
         /\ r.ex.is_sg => \/ o.use_sg /\ r.ex.fd = o.device_file
                          \/ e.is_sg /\ r.ex.fd = e.fd
         /\ r.ex.bus = "UP" => e.bus = "UP" \/ (e.bus = "NONE" /\ ~o.use_sg)
         /\ r.ex.target = e.target
<1> DEFINE there == [e EXCEPT !.exists = TRUE]
           opened == [there EXCEPT !.is_sg = TRUE, !.fd = o.device_file]
           unopened == [there EXCEPT !.is_sg = FALSE, !.fd = X!None]
           kept == [there EXCEPT !.is_sg = FALSE]
           up == [there EXCEPT !.is_sg = FALSE, !.bus = "UP"]
           bare == [there EXCEPT !.bus = "BARE"]
<1>1. /\ there \in Executor /\ there.exists = TRUE /\ there.is_sg = e.is_sg /\ there.bus = e.bus
      /\ there.target = e.target /\ there.fd = e.fd
  BY DEF Executor
<1>2. \/ o.use_sg /\ r = [ok |-> TRUE, ex |-> opened]
      \/ o.use_sg /\ r = [ok |-> FALSE, ex |-> unopened]
      \/ ~o.use_sg /\ r = [ok |-> TRUE, ex |-> kept]
      \/ ~o.use_sg /\ e.bus = "NONE" /\ r = [ok |-> TRUE, ex |-> up]
      \/ ~o.use_sg /\ r = [ok |-> FALSE, ex |-> there]
      \/ ~o.use_sg /\ e.bus = "NONE" /\ r = [ok |-> FALSE, ex |-> bare]
  BY DEF X!InitResults, Options
<1> HIDE DEF there
<1>3. /\ opened \in Executor /\ opened.is_sg /\ opened.fd = o.device_file /\ opened.bus = e.bus
      /\ opened.target = e.target /\ opened.exists
  BY <1>1 DEF Executor, Options
<1>4. /\ unopened \in Executor /\ ~unopened.is_sg /\ unopened.bus = e.bus
      /\ unopened.target = e.target /\ unopened.exists
  BY <1>1 DEF Executor
<1>5. /\ kept \in Executor /\ ~kept.is_sg /\ kept.bus = e.bus /\ kept.target = e.target /\ kept.exists
  BY <1>1 DEF Executor
<1>6. /\ up \in Executor /\ ~up.is_sg /\ up.bus = "UP" /\ up.target = e.target /\ up.exists
  BY <1>1 DEF Executor
<1>7. /\ bare \in Executor /\ bare.is_sg = e.is_sg /\ bare.fd = e.fd /\ bare.bus = "BARE"
      /\ bare.target = e.target /\ bare.exists
  BY <1>1 DEF Executor
<1> HIDE DEF opened, unopened, kept, up, bare
<1>8. \/ o.use_sg /\ r.ok = TRUE /\ r.ex = opened
      \/ o.use_sg /\ r.ok = FALSE /\ r.ex = unopened
      \/ ~o.use_sg /\ r.ok = TRUE /\ r.ex = kept
      \/ ~o.use_sg /\ e.bus = "NONE" /\ r.ok = TRUE /\ r.ex = up
      \/ ~o.use_sg /\ r.ok = FALSE /\ r.ex = there
      \/ ~o.use_sg /\ e.bus = "NONE" /\ r.ok = FALSE /\ r.ex = bare
  BY <1>2
<1>9. CASE o.use_sg /\ r.ok = TRUE /\ r.ex = opened
  BY <1>3, <1>9 DEF Sound
<1>10. CASE o.use_sg /\ r.ok = FALSE /\ r.ex = unopened
  BY <1>4, <1>10 DEF Sound
<1>11. CASE ~o.use_sg /\ r.ok = TRUE /\ r.ex = kept
  BY <1>5, <1>11 DEF Sound
<1>12. CASE ~o.use_sg /\ e.bus = "NONE" /\ r.ok = TRUE /\ r.ex = up
  BY <1>6, <1>12 DEF Sound
<1>13. CASE ~o.use_sg /\ r.ok = FALSE /\ r.ex = there
  BY <1>1, <1>13 DEF Sound
<1>14. CASE ~o.use_sg /\ e.bus = "NONE" /\ r.ok = FALSE /\ r.ex = bare
  BY <1>7, <1>14 DEF Sound
<1>15. QED
  BY <1>8, <1>9, <1>10, <1>11, <1>12, <1>13, <1>14

\* An initialized executor is one for the options.
Agree(o, x) ==
  /\ o \in Options /\ x \in Executor
  /\ o.use_sg <=> o.device_file # X!None
  /\ o.is_initialized /\ o.use_sg => x.is_sg /\ x.fd = o.device_file
  /\ o.is_initialized /\ ~o.use_sg => ~x.is_sg

\* An executor reaches what it did, or what the options say; its bus is new with a target only.
Reaches(l, o, x) ==
  /\ Sound(x)
  /\ x.is_sg => \/ executor.is_sg /\ x.fd = executor.fd
                \/ o.use_sg /\ x.fd = o.device_file
  /\ x.bus = "UP" => executor.bus = "UP" \/ (executor.bus = "NONE" /\ X!HasTarget(l))
  /\ x.target \in {executor.target, o.target}

\* The parts of ParseArguments() that follow once the options have become o: the executor that is
\* there, whether it has to be initialized, what may become of that, and of the options and the
\* executor with the target.
There(o) == IF executor.exists /\ executor.is_sg # o.use_sg THEN X!CleanUp(executor) ELSE executor
Needed(l, o) == ~o.is_initialized /\ (o.device_file # X!None \/ X!HasTarget(l))
Results(l, o) == IF Needed(l, o) THEN X!InitResults(There(o), o) ELSE {[ok |-> TRUE, ex |-> There(o)]}
After(l, o, r) == IF Needed(l, o) THEN [o EXCEPT !.is_initialized = r.ok] ELSE o
Aimed(l, o, r) ==
  IF r.ex.bus \in {"UP", "DOWN"} THEN [r.ex EXCEPT !.target = After(l, o, r).target] ELSE r.ex

\* They agree with each other.
LEMMA InitializedFor ==
  ASSUME NEW l \in Lines, NEW o \in Options, Agree(options, executor), Sound(executor),
         o.use_sg <=> o.device_file # X!None,
         o.is_initialized => /\ options.is_initialized /\ o.device_file = options.device_file
                             /\ o.use_sg = options.use_sg,
         NEW r \in Results(l, o)
  PROVE  LET o3 == After(l, o, r)
             ex3 == Aimed(l, o, r)
         IN  /\ Agree(o3, r.ex) /\ Agree(o3, ex3)
             /\ Reaches(l, o3, r.ex) /\ Reaches(l, o3, ex3)
             /\ o3.device_file = o.device_file /\ o3.use_sg = o.use_sg
             /\ o3.target = o.target /\ o3.help = o.help
             /\ r.ok /\ (o.use_sg \/ X!HasTarget(l)) => o3.is_initialized
             /\ ex3.bus = "UP" => ex3.target = o3.target
<1> DEFINE o3 == After(l, o, r)
           ex3 == Aimed(l, o, r)
           ex1 == There(o)
           needed == Needed(l, o)
<1>a. needed \in BOOLEAN /\ (needed <=> ~o.is_initialized /\ (o.use_sg \/ X!HasTarget(l)))
  BY DEF Needed
<1>b. ex1 = IF executor.exists /\ executor.is_sg # o.use_sg THEN X!CleanUp(executor) ELSE executor
  BY DEF There
<1>c. r \in IF needed THEN X!InitResults(ex1, o) ELSE {[ok |-> TRUE, ex |-> ex1]}
  BY DEF Results
<1>d. o3 = IF needed THEN [o EXCEPT !.is_initialized = r.ok] ELSE o
  BY DEF After
<1>e. ex3 = IF r.ex.bus \in {"UP", "DOWN"} THEN [r.ex EXCEPT !.target = o3.target] ELSE r.ex
  BY DEF Aimed
<1> HIDE DEF o3, ex3, ex1, needed
<1>1. /\ executor \in Executor /\ ex1 \in Executor /\ Sound(ex1)
      /\ ex1.is_sg => executor.is_sg /\ ex1.fd = executor.fd
      /\ ex1.bus \in {"UP", "NONE"} => executor.bus = ex1.bus
      /\ ex1.target = executor.target
  BY <1>b, CleanedUp DEF Agree
<1>f. ex1.exists /\ o.use_sg => ex1.bus # "UP"
  <2>1. CASE executor.exists /\ executor.is_sg # o.use_sg
    <3>1. ex1 = X!CleanUp(executor)
      BY <1>b, <2>1
    <3>2. X!CleanUp(executor).bus # "UP"
      BY <1>1 DEF X!CleanUp, Executor, Sound
    <3>3. QED
      BY <3>1, <3>2
  <2>2. CASE ~executor.exists
    BY <1>b, <2>2
  <2>3. CASE executor.is_sg = o.use_sg
    BY <1>b, <2>3 DEF Sound
  <2>4. QED
    BY <2>1, <2>2, <2>3
<1>2. /\ r.ok \in BOOLEAN /\ r.ex \in Executor /\ Sound(r.ex)
      /\ needed /\ r.ok /\ o.use_sg => r.ex.is_sg /\ r.ex.fd = o.device_file
      /\ needed /\ r.ok /\ ~o.use_sg => ~r.ex.is_sg
      /\ ~needed => r.ok /\ r.ex = ex1
      /\ r.ex.is_sg => \/ executor.is_sg /\ r.ex.fd = executor.fd
                       \/ o.use_sg /\ r.ex.fd = o.device_file
      /\ r.ex.bus = "UP" => executor.bus = "UP" \/ (executor.bus = "NONE" /\ X!HasTarget(l))
      /\ r.ex.target = executor.target
  <2>1. CASE needed
    <3>1. r \in X!InitResults(ex1, o)
      BY <1>c, <2>1
    <3>2. /\ r.ok \in BOOLEAN /\ r.ex \in Executor /\ Sound(r.ex)
          /\ r.ok /\ o.use_sg => r.ex.is_sg /\ r.ex.fd = o.device_file
          /\ r.ok /\ ~o.use_sg => ~r.ex.is_sg
          /\ r.ex.is_sg => \/ o.use_sg /\ r.ex.fd = o.device_file
                           \/ ex1.is_sg /\ r.ex.fd = ex1.fd
          /\ r.ex.bus = "UP" => ex1.bus = "UP" \/ (ex1.bus = "NONE" /\ ~o.use_sg)
          /\ r.ex.target = ex1.target
      BY <1>1, <1>f, <3>1, Initialized
    <3>3. QED
      BY <1>a, <1>1, <2>1, <3>2
  <2>2. CASE ~needed
    <3>1. r.ok = TRUE /\ r.ex = ex1
      BY <1>c, <2>2
    <3>2. QED
      BY <1>1, <2>2, <3>1
  <2>3. QED
    BY <2>1, <2>2
<1>3. ~needed /\ o.is_initialized => (o.use_sg => ex1.is_sg /\ ex1.fd = o.device_file)
                                      /\ (~o.use_sg => ~ex1.is_sg)
  BY <1>a, <1>b DEF Agree, Options, Executor
<1>4. /\ o3 \in Options /\ o3.device_file = o.device_file /\ o3.use_sg = o.use_sg
      /\ o3.target = o.target /\ o3.help = o.help
      /\ o3.is_initialized = IF needed THEN r.ok ELSE o.is_initialized
  BY <1>2, <1>d DEF Options
<1>5. /\ ex3 \in Executor /\ ex3.is_sg = r.ex.is_sg /\ ex3.fd = r.ex.fd /\ ex3.bus = r.ex.bus
      /\ ex3.exists = r.ex.exists
      /\ ex3.target = IF ex3.bus \in {"UP", "DOWN"} THEN o3.target ELSE r.ex.target
  BY <1>2, <1>4, <1>e DEF Options, Executor
<1>6. Agree(o3, r.ex) /\ Agree(o3, ex3)
  BY <1>2, <1>3, <1>4, <1>5 DEF Agree
<1>7. Reaches(l, o3, r.ex)
  BY <1>2, <1>4 DEF Reaches
<1>8. Reaches(l, o3, ex3)
  BY <1>2, <1>4, <1>5 DEF Reaches, Sound
<1>9. QED
  BY <1>a, <1>2, <1>4, <1>5, <1>6, <1>7, <1>8 DEF o3, ex3, Options

\* What is left of a line that was accepted or rejected.
Taken(l, o, x) ==
  LET n == X!Named(options, l) IN
  /\ Agree(o, x) /\ Reaches(l, o, x)
  /\ o.use_sg = n.use_sg /\ o.device_file = n.device_file
  /\ o.target \in {options.target, X!None} \/ (X!HasTarget(l) /\ o.target = l.device)
  /\ X!HasTarget(l) => x = executor \/ o.target = l.device

\* A line asks for help, is rejected, or is accepted with an executor that is initialized, if the
\* options need one, and has their target.
LEMMA ParseOutcome ==
  ASSUME ExecTypes, OptionsNamed, ExecutorFollows, RunsNamed, NEW l \in Lines, NEW error,
         X!ParseArguments(l, error)
  PROVE  \/ \E o : o.help /\ Taken(l, o, executor) /\ X!Accept(o, executor)
         \/ \E o, x : Taken(l, o, x) /\ X!Reject(o, x)
         \/ \E o, x : /\ ~o.help /\ Taken(l, o, x) /\ X!Accept(o, x)
                      /\ X!HasTarget(l) => o.target = l.device
                      /\ o.use_sg \/ X!HasTarget(l) => o.is_initialized
                      /\ x.bus = "UP" => x.target = o.target
<1> DEFINE n == X!Named(options, l)
           o1 == [n EXCEPT !.help = @ \/ l.help]
           o2 == [o1 EXCEPT !.target = IF X!HasTarget(l) THEN l.device ELSE @]
           o3(r) == After(l, o2, r)
           ex3(r) == Aimed(l, o2, r)
           o1n == [o1 EXCEPT !.target = X!None]
<1>1. /\ Agree(options, executor) /\ l.help \in BOOLEAN /\ (X!HasTarget(l) => l.device \in Targets)
      /\ Sound(executor)
  BY LinesTyped DEF ExecTypes, OptionsNamed, ExecutorFollows, RunsNamed, Agree, X!TypeOK, Options,
     Executor, X!HasTarget
<1>2. /\ n \in Options /\ n.target = options.target /\ n.help = options.help
      /\ n.use_sg <=> n.device_file # X!None
      /\ n.is_initialized => /\ options.is_initialized /\ n.device_file = options.device_file
                             /\ n.use_sg = options.use_sg
  BY <1>1, NamedOptions DEF Agree
<1>3. \/ o1.help /\ X!Accept(o1, executor)
      \/ ~o1.help /\ X!Reject(o1, executor)
      \/ ~o1.help /\ X!HasTarget(l) /\ X!Reject(o1n, executor)
      \/ /\ ~o1.help
         /\ \E r \in Results(l, o2) :
              \/ X!Reject(o3(r), r.ex)
              \/ X!Reject(o3(r), ex3(r))
              \/ r.ok /\ X!Accept(o3(r), ex3(r))
  BY DEF X!ParseArguments, There, Needed, Results, After, Aimed
<1> HIDE DEF n
<1>4. /\ o1 \in Options /\ o1.use_sg = n.use_sg /\ o1.device_file = n.device_file
      /\ o1.is_initialized = n.is_initialized /\ o1.target = n.target
  BY <1>1, <1>2 DEF Options
<1>5. /\ o1n \in Options /\ o1n.use_sg = n.use_sg /\ o1n.device_file = n.device_file
      /\ o1n.is_initialized = n.is_initialized /\ o1n.target = X!None
  BY <1>4 DEF Options
<1>6. /\ o2 \in Options /\ o2.use_sg = n.use_sg /\ o2.device_file = n.device_file
      /\ o2.is_initialized = n.is_initialized /\ o2.help = o1.help
      /\ o2.target = IF X!HasTarget(l) THEN l.device ELSE n.target
  BY <1>1, <1>4 DEF Options
<1>7. Taken(l, o1, executor) /\ Taken(l, o1n, executor)
  BY <1>1, <1>2, <1>4, <1>5 DEF Taken, Agree, Reaches, n
<1>8. CASE o1.help /\ X!Accept(o1, executor)
  BY <1>7, <1>8
<1>9. CASE ~o1.help /\ X!Reject(o1, executor)
  BY <1>7, <1>9
<1>10. CASE ~o1.help /\ X!HasTarget(l) /\ X!Reject(o1n, executor)
  BY <1>7, <1>10
<1>11. ASSUME ~o1.help,
              NEW r \in Results(l, o2),
              \/ X!Reject(o3(r), r.ex)
              \/ X!Reject(o3(r), ex3(r))
              \/ r.ok /\ X!Accept(o3(r), ex3(r))
       PROVE  \/ \E o, x : Taken(l, o, x) /\ X!Reject(o, x)
              \/ \E o, x : /\ ~o.help /\ Taken(l, o, x) /\ X!Accept(o, x)
                           /\ X!HasTarget(l) => o.target = l.device
                           /\ o.use_sg \/ X!HasTarget(l) => o.is_initialized
                           /\ x.bus = "UP" => x.target = o.target
  <2> HIDE DEF o1, o2, o3, ex3
  <2>1. /\ o2.use_sg <=> o2.device_file # X!None
        /\ o2.is_initialized => /\ options.is_initialized /\ o2.device_file = options.device_file
                                /\ o2.use_sg = options.use_sg
    BY <1>2, <1>6
  <2>2. /\ Agree(o3(r), r.ex) /\ Agree(o3(r), ex3(r))
        /\ Reaches(l, o3(r), r.ex) /\ Reaches(l, o3(r), ex3(r))
        /\ o3(r).device_file = o2.device_file /\ o3(r).use_sg = o2.use_sg
        /\ o3(r).target = o2.target /\ o3(r).help = o2.help
        /\ r.ok /\ (o2.use_sg \/ X!HasTarget(l)) => o3(r).is_initialized
        /\ ex3(r).bus = "UP" => ex3(r).target = o3(r).target
    BY <1>1, <1>6, <1>11, <2>1, InitializedFor DEF o3, ex3
  <2>3. Taken(l, o3(r), r.ex) /\ Taken(l, o3(r), ex3(r)) /\ ~o3(r).help
    BY <1>2, <1>6, <1>11, <2>2 DEF Taken, n
  <2>4. QED
    BY <1>6, <1>11, <2>2, <2>3
<1>12. QED
  BY <1>3, <1>8, <1>9, <1>10, <1>11 DEF n

\* After a line the options and the executor are still about what has been named.
LEMMA ParseStep ==
  ASSUME ExecTypes, OptionsNamed, ExecutorFollows, RunsNamed, NEW l \in Lines, NEW error,
         X!ParseArguments(l, error)
  PROVE  ExecTypes' /\ OptionsNamed' /\ ExecutorFollows' /\ RunsNamed'
<1>1. /\ line'.name = l.name /\ line'.device = l.device /\ line'.n = line.n + 1 /\ line.n < MaxLines
      /\ line'.data = l.data /\ line'.sense = l.sense
      /\ UNCHANGED <<adapter, exec_buffer, exec_received>>
  BY DEF X!ParseArguments
<1>2. /\ l.name \in {"SG", "SCSI", "SASI", X!None}
      /\ l.name = "SG" => l.device \in DeviceFiles
      /\ l.name \in {"SCSI", "SASI"} => l.device \in Targets
      /\ l.name # X!None => l.device # X!None
      /\ l.data \in BOOLEAN /\ l.sense \in BOOLEAN
  BY LinesTyped
<1>3. line'.n \in 0..MaxLines
  BY <1>1, ExecBounds DEF ExecTypes
<1>4. /\ options \in Options /\ (options.use_sg <=> options.device_file # X!None)
      /\ executor \in Executor /\ named \subseteq DeviceFiles \cup Targets
  BY DEF ExecTypes, X!TypeOK, OptionsNamed, Options, Executor
<1> DEFINE n == X!Named(options, l)
           more == IF l.name = X!None THEN named ELSE named \cup {l.device}
<1>5. /\ l.name = "SG" => n.device_file = l.device
      /\ l.name = "SCSI" => ~n.use_sg
      /\ l.name \notin {"SG", "SCSI"} => n = options
  BY <1>4, NamedOptions
<1>6. X!HasTarget(l) <=> l.name \in {"SCSI", "SASI"}
  BY DEF X!HasTarget
<1>7. more \subseteq DeviceFiles \cup Targets
  BY <1>2, <1>4
<1>8. ASSUME NEW o, NEW x, Taken(l, o, x), options' = o, executor' = x, exec_step' \in {"PROMPT", "RUN"},
             named' \subseteq more,
             o.use_sg => o.device_file \in named',
             x.is_sg => x.fd \in named',
             x.bus = "UP" => {x.target, o.target} \subseteq named' \cup {X!None}
      PROVE  ExecTypes' /\ OptionsNamed' /\ ExecutorFollows' /\ RunsNamed'
  <2>1. Agree(o, x) /\ Sound(x)
    BY <1>8 DEF Taken, Reaches
  <2>2. named' \subseteq DeviceFiles \cup Targets
    BY <1>7, <1>8
  <2> HIDE DEF more
  <2>3. ExecTypes'
    BY <1>1, <1>2, <1>3, <1>8, <2>1, <2>2 DEF ExecTypes, X!TypeOK, Agree, Options, Executor
  <2>4. OptionsNamed'
    BY <1>8, <2>1 DEF OptionsNamed, Agree
  <2>5. ExecutorFollows'
    BY <1>8, <2>1 DEF ExecutorFollows, Agree
  <2>6. RunsNamed'
    BY <1>8, <2>1 DEF RunsNamed, Sound
  <2>7. QED
    BY <2>3, <2>4, <2>5, <2>6
\* As long as no name is dropped, what the options and the executor are about has been named.
<1>9. ASSUME NEW o, NEW x, Taken(l, o, x)
      PROVE  /\ o.use_sg => o.device_file \in more
             /\ x.is_sg => x.fd \in more
             /\ x.bus = "UP" => {x.target, o.target} \subseteq more \cup {X!None}
  <2>1. o.use_sg => o.device_file \in more
    <3>1. CASE l.name \in {"SG", "SCSI"}
      BY <1>2, <1>5, <1>9, <3>1 DEF Taken, X!None
    <3>2. CASE l.name \notin {"SG", "SCSI"}
      BY <1>5, <1>9, <3>2 DEF Taken, OptionsNamed
    <3>3. QED
      BY <3>1, <3>2
  <2>2. x.is_sg => x.fd \in more
    BY <1>9, <2>1 DEF Taken, Reaches, RunsNamed
  <2>3. ASSUME x.bus = "UP"
        PROVE  x.target \in more \cup {X!None} /\ o.target \in more \cup {X!None}
    <3>1. X!HasTarget(l) => l.device \in more
      BY <1>2, <1>6 DEF X!None
    <3>2. CASE executor.bus = "UP"
      <4>1. {executor.target, options.target} \subseteq more \cup {X!None}
        BY <3>2 DEF RunsNamed
      <4>2. o.target \in more \cup {X!None}
        BY <1>9, <3>1, <4>1 DEF Taken
      <4>3. QED
        BY <1>9, <4>1, <4>2 DEF Taken, Reaches
    <3>3. CASE executor.bus # "UP"
      <4>1. executor.bus = "NONE" /\ X!HasTarget(l) /\ x # executor
        BY <1>9, <2>3, <3>3 DEF Taken, Reaches
      <4>2. executor.target = X!None /\ o.target = l.device
        BY <1>9, <4>1 DEF Taken, RunsNamed, Sound
      <4>3. QED
        BY <1>9, <3>1, <4>1, <4>2 DEF Taken, Reaches
    <3>4. QED
      BY <3>2, <3>3
  <2>4. QED
    BY <2>1, <2>2, <2>3
<1>10. CASE \E o : o.help /\ Taken(l, o, executor) /\ X!Accept(o, executor)
  <2>1. PICK o : o.help /\ Taken(l, o, executor) /\ X!Accept(o, executor)
    BY <1>10
  <2>2. /\ options' = o /\ executor' = executor /\ exec_step' \in {"PROMPT", "RUN"}
        /\ named' = more
    BY <1>1, <2>1 DEF X!Accept, X!NamedToo
  <2> HIDE DEF more
  <2>3. QED
    BY <1>8, <1>9, <2>1, <2>2
<1>11. CASE \E o, x : Taken(l, o, x) /\ X!Reject(o, x)
  <2>1. PICK o, x : Taken(l, o, x) /\ X!Reject(o, x)
    BY <1>11
  <2>2. options' = o /\ executor' = x /\ exec_step' = "PROMPT" /\ named' = more
    BY <1>1, <2>1 DEF X!Reject, X!NamedToo
  <2> HIDE DEF more
  <2>3. QED
    BY <1>8, <1>9, <2>1, <2>2
<1>12. CASE \E o, x : /\ ~o.help /\ Taken(l, o, x) /\ X!Accept(o, x)
                      /\ X!HasTarget(l) => o.target = l.device
                      /\ o.use_sg \/ X!HasTarget(l) => o.is_initialized
                      /\ x.bus = "UP" => x.target = o.target
  <2>1. PICK o, x : /\ ~o.help /\ Taken(l, o, x) /\ X!Accept(o, x)
                    /\ X!HasTarget(l) => o.target = l.device
                    /\ o.use_sg \/ X!HasTarget(l) => o.is_initialized
                    /\ x.bus = "UP" => x.target = o.target
    BY <1>12
  <2>2. /\ options' = o /\ executor' = x /\ exec_step' \in {"PROMPT", "RUN"}
        /\ named' = IF l.name = X!None \/ (l.name = "SASI" /\ o.use_sg) THEN more ELSE {l.device}
    BY <1>1, <2>1 DEF X!Accept, X!NamedToo
  <2>3. CASE l.name = X!None \/ (l.name = "SASI" /\ o.use_sg)
    <3>1. named' = more
      BY <2>2, <2>3
    <3> HIDE DEF more
    <3>2. QED
      BY <1>8, <1>9, <2>1, <2>2, <3>1
  <2>4. CASE ~(l.name = X!None \/ (l.name = "SASI" /\ o.use_sg))
    <3>1. named' = {l.device} /\ named' \subseteq more
      BY <2>2, <2>4
    <3>2. o.use_sg => o.device_file \in named'
      <4>1. o.use_sg => l.name = "SG"
        BY <1>2, <1>5, <2>1, <2>4 DEF Taken
      <4>2. QED
        BY <1>5, <2>1, <3>1, <4>1 DEF Taken
    <3>3. o.is_initialized
      BY <1>2, <1>5, <1>6, <2>1, <2>4, DevicesAssumption DEF Taken, Agree, X!None
    <3>4. x.is_sg => x.fd \in named'
      BY <2>1, <3>2, <3>3 DEF Taken, Agree
    <3>5. ASSUME x.bus = "UP"
          PROVE  {x.target, o.target} \subseteq named' \cup {X!None}
      <4>1. ~o.use_sg
        BY <2>1, <3>3, <3>5 DEF Taken, Agree, Reaches, Sound
      <4>2. X!HasTarget(l)
        BY <1>2, <1>5, <1>6, <2>1, <2>4, <4>1 DEF Taken, Agree, X!None
      <4>3. QED
        BY <2>1, <3>1, <3>5, <4>2
    <3> HIDE DEF more
    <3>6. QED
      BY <1>8, <2>1, <2>2, <3>1, <3>2, <3>4, <3>5
  <2>5. QED
    BY <2>3, <2>4
<1>13. QED
  BY <1>10, <1>11, <1>12, ParseOutcome

\* What is shown of a command that reached a device is its own.
LEMMA ShowsOwn ==
  ASSUME ExecTypes, X!OwnAnswer, NEW k \in 0..Pieces, NEW to, NEW code, NEW shown, NEW count,
         NEW c \in X!Conditions,
         exec_buffer' = X!Filled(k), X!Show(to, code, c, shown, count),
         code = "GOOD" => count = k,
         to # X!None => to \in named,
         code = "CHECK_CONDITION" /\ shown # X!Unknown =>
           shown.n = line.n /\ (shown.key = c.key \/ to \in DeviceFiles)
  PROVE  X!OwnAnswer'
<1>1. CASE to = X!None
  BY <1>1 DEF X!Show, X!OwnAnswer
<1>2. CASE to # X!None
  <2> DEFINE output == IF code = "GOOD" /\ ~line.data THEN SubSeq(exec_buffer', 1, count) ELSE <<>>
             shown_sense == IF code # "GOOD" /\ line.sense THEN shown ELSE X!Unknown
             key == IF code = "CHECK_CONDITION" THEN c.key ELSE 0
  <2>1. last' = [n |-> line.n, device |-> to, named |-> named, status |-> code, key |-> key,
                 shown |-> shown_sense, output |-> output]
    BY <1>2 DEF X!Show
  <2>2. to \in named
    BY <1>2
  <2>3. code = "CHECK_CONDITION" /\ shown_sense # X!Unknown =>
          shown_sense.n = line.n /\ (shown_sense.key = key \/ to \in DeviceFiles)
    OBVIOUS
  <2>4. \A i \in DOMAIN output : output[i] = line.n
    <3>1. CASE code = "GOOD" /\ ~line.data
      <4>1. /\ exec_buffer' \in [1..Pieces -> Nat]
            /\ \A i \in 1..k : exec_buffer'[i] = line.n
        BY ExecBounds DEF X!Filled, ExecTypes, X!TypeOK
      <4>2. exec_buffer' \in Seq(Nat) /\ Len(exec_buffer') = Pieces /\ Pieces \in Nat
        BY <4>1, ExecBounds
      <4>3. /\ output = SubSeq(exec_buffer', 1, k) /\ output \in Seq(Nat) /\ Len(output) = k
            /\ \A i \in 1..k : output[i] = exec_buffer'[i]
        BY <3>1, <4>2, SubSeqProperties
      <4>4. QED
        BY <4>1, <4>3
    <3>2. CASE ~(code = "GOOD" /\ ~line.data)
      <4>1. output = <<>>
        BY <3>2
      <4> HIDE DEF output
      <4>2. QED
        BY <4>1
    <3>3. QED
      BY <3>1, <3>2
  <2> HIDE DEF output, key, shown_sense
  <2>5. /\ last'.n = line.n /\ last'.device = to /\ last'.named = named /\ last'.status = code
        /\ last'.key = key /\ last'.shown = shown_sense /\ last'.output = output
    BY <2>1
  <2>6. QED
    BY <2>2, <2>3, <2>4, <2>5 DEF X!OwnAnswer
<1>3. QED
  BY <1>1, <1>2

\* A command changes buffers only, and then s2pexec asks for the next line.
LEMMA CommandStep ==
  ASSUME ExecTypes, OptionsNamed, ExecutorFollows, RunsNamed,
         UNCHANGED <<options, executor, line, named>>, exec_step' = "PROMPT",
         adapter' \in Adapter,
         NEW k \in 0..Pieces, exec_buffer' = X!Filled(k), exec_received' \in 0..Pieces
  PROVE  ExecTypes' /\ OptionsNamed' /\ ExecutorFollows' /\ RunsNamed'
<1>1. exec_buffer' \in [1..Pieces -> 0..MaxLines]
  BY DEF X!Filled, ExecTypes, X!TypeOK
<1>2. QED
  BY <1>1 DEF ExecTypes, X!TypeOK, OptionsNamed, ExecutorFollows, RunsNamed, Sound, Adapter

\* Every step of s2pexec keeps its invariant, and shows nothing of another command.
LEMMA ExecStep ==
  ASSUME ExecTypes, OptionsNamed, ExecutorFollows, RunsNamed, X!OwnAnswer, X!Next
  PROVE  ExecTypes' /\ OptionsNamed' /\ ExecutorFollows' /\ RunsNamed' /\ X!OwnAnswer'
<1>1. ASSUME NEW l \in Lines, NEW error, X!ParseArguments(l, error)
      PROVE  ExecTypes' /\ OptionsNamed' /\ ExecutorFollows' /\ RunsNamed' /\ X!OwnAnswer'
  <2>1. UNCHANGED last
    BY <1>1 DEF X!ParseArguments
  <2>2. X!OwnAnswer'
    BY <2>1 DEF X!OwnAnswer
  <2>3. QED
    BY <1>1, <2>2, ParseStep
<1>2. CASE X!ResetBus \/ X!BadData \/ X!NoExecutor
  <2>1. /\ UNCHANGED <<options, executor, adapter, exec_buffer, exec_received, line, last, named>>
        /\ exec_step' \in {"PROMPT", "CRASHED"}
    BY <1>2 DEF X!ResetBus, X!BadData, X!NoExecutor, X!Prompt
  <2>2. QED
    BY <2>1 DEF ExecTypes, X!TypeOK, OptionsNamed, ExecutorFollows, RunsNamed, Sound, X!OwnAnswer
<1>3. ASSUME NEW code \in X!Statuses, NEW k \in 0..Pieces, NEW c \in X!Conditions,
             X!SgCommand(code, k, c)
      PROVE  ExecTypes' /\ OptionsNamed' /\ ExecutorFollows' /\ RunsNamed' /\ X!OwnAnswer'
  <2> DEFINE mine == X!Sense(c)
             told == IF code = "CHECK_CONDITION" THEN mine ELSE adapter.sense
             valid == code \in {"CHECK_CONDITION", "OTHER"}
             senses == code # "GOOD" /\ line.sense
             count == IF senses /\ valid THEN 1 ELSE k
             still == valid /\ ~senses
             shown == X!SgSense(IF valid THEN told ELSE [mine EXCEPT !.n = 0])
  <2>1. /\ exec_step = "RUN" /\ executor.is_sg /\ exec_step' = "PROMPT"
        /\ UNCHANGED <<options, executor, exec_received, line, named>>
        /\ adapter' = [sense |-> told, valid |-> still, byte_count |-> count]
        /\ exec_buffer' = X!Filled(k)
        /\ X!Show(executor.fd, code, c, shown, adapter'.byte_count)
    BY <1>3 DEF X!SgCommand, X!Executes, X!Prompt
  <2>2. mine \in [n : 0..MaxLines, response : X!Responses \cup {0}, key : X!Keys \cup {0}] /\ mine.n = line.n
    BY <1>3 DEF X!Sense, X!Conditions, ExecTypes
  <2>a. code = "CHECK_CONDITION" => shown.n = line.n
    BY <2>2 DEF X!SgSense
  <2> HIDE DEF mine, shown
  <2>3. /\ count \in 0..Pieces /\ (code = "GOOD" => count = k)
        /\ told \in [n : 0..MaxLines, response : X!Responses \cup {0}, key : X!Keys \cup {0}]
        /\ still \in BOOLEAN
    BY <2>2, ExecBounds DEF ExecTypes, X!TypeOK
  <2> HIDE DEF told, valid, senses, count, still
  <2>4. adapter' \in Adapter /\ adapter'.byte_count = count
    BY <2>1, <2>3 DEF Adapter
  <2>5. executor.fd \in named
    BY <2>1 DEF RunsNamed
  <2>6. executor.fd # X!None => executor.fd \in DeviceFiles
    BY DEF ExecTypes, X!TypeOK
  <2>7. X!OwnAnswer'
    <3>1. CASE executor.fd = X!None
      BY <2>1, <3>1 DEF X!Show, X!OwnAnswer
    <3>2. CASE executor.fd # X!None
      BY <1>3, <2>1, <2>a, <2>3, <2>4, <2>5, <2>6, <3>2, ShowsOwn
    <3>3. QED
      BY <3>1, <3>2
  <2>8. exec_received' \in 0..Pieces
    BY <2>1 DEF ExecTypes, X!TypeOK
  <2>9. QED
    BY <2>1, <2>4, <2>7, <2>8, CommandStep
<1>4. ASSUME NEW code \in X!Statuses, NEW k \in 0..Pieces, NEW c \in X!Conditions,
             NEW answered \in BOOLEAN, X!BusCommand(code, k, c, answered)
      PROVE  ExecTypes' /\ OptionsNamed' /\ ExecutorFollows' /\ RunsNamed' /\ X!OwnAnswer'
  <2> DEFINE to == IF executor.bus = "UP" THEN executor.target ELSE X!None
             told == IF code = "CHECK_CONDITION" THEN X!Sense(c) ELSE X!NoSense
             shown == IF code # "NO_ANSWER" /\ answered THEN X!BusSense(told) ELSE X!Unknown
  <2>1. /\ exec_step = "RUN" /\ executor.exists /\ ~executor.is_sg /\ exec_step' = "PROMPT"
        /\ UNCHANGED <<options, executor, adapter, line, named>>
        /\ exec_buffer' = X!Filled(k) /\ exec_received' = k
        /\ X!Show(to, code, c, shown, exec_received')
    BY <1>4 DEF X!BusCommand, X!Executes, X!Prompt
  <2>2. to # X!None => to \in named
    BY <2>1 DEF RunsNamed
  <2>3. code = "CHECK_CONDITION" /\ shown # X!Unknown => shown.n = line.n /\ shown.key = c.key
    BY DEF X!BusSense, X!Sense
  <2> HIDE DEF to, told, shown
  <2>4. X!OwnAnswer'
    BY <1>4, <2>1, <2>2, <2>3, ShowsOwn
  <2>5. adapter' \in Adapter
    BY <2>1 DEF ExecTypes, X!TypeOK, Adapter
  <2>6. QED
    BY <2>1, <2>4, <2>5, CommandStep
<1>5. QED
  BY <1>1, <1>2, <1>3, <1>4 DEF X!Next

\* A part that does not run keeps its variables.
LEMMA OtherThanExec ==
  ASSUME [Next]_vars
  PROVE  \/ part = "EXEC" /\ part' = part /\ X!Next
         \/ part # "EXEC" /\ part' = part
         \/ part' = part /\ UNCHANGED exec_vars
BY DEF Next, vars, Transfer, Host, Spool, Net, Generic, Disk, TapeCopy, Simh, Exec, Mode, Config

\* The invariant of s2pexec: it holds at the start, and every step keeps it.
LEMMA ExecInitially == Init => ExecSafe
<1>1. ASSUME X!Init
      PROVE  ExecTypes /\ OptionsNamed /\ ExecutorFollows /\ RunsNamed /\ X!OwnAnswer
  <2>1. /\ options = [device_file |-> X!None, use_sg |-> FALSE, is_initialized |-> FALSE,
                      target |-> X!None, help |-> FALSE]
        /\ executor = [exists |-> FALSE, is_sg |-> FALSE, bus |-> "NONE", target |-> X!None,
                       fd |-> X!None]
        /\ named = {} /\ exec_step = "PROMPT"
    BY <1>1 DEF X!Init
  <2>2. ExecTypes
    <3>1. adapter = [sense |-> X!NoSense, valid |-> FALSE, byte_count |-> 0]
      BY <1>1 DEF X!Init
    <3>2. exec_buffer \in [1..Pieces -> 0..MaxLines] /\ exec_received \in 0..Pieces
      BY <1>1, ExecBounds DEF X!Init
    <3>3. line.n = 0 /\ line.data = FALSE /\ line.sense = FALSE
      BY <1>1 DEF X!Init
    <3>4. X!TypeOK
      BY <2>1, <3>1, <3>2, ExecBounds DEF X!TypeOK, X!NoSense
    <3>5. line.n \in 0..MaxLines
      BY <3>3, ExecBounds
    <3>6. QED
      BY <2>1, <3>3, <3>4, <3>5 DEF ExecTypes
  <2>3. OptionsNamed /\ ExecutorFollows /\ RunsNamed
    BY <2>1 DEF OptionsNamed, ExecutorFollows, RunsNamed, Sound
  <2>4. last.n = 0
    BY <1>1 DEF X!Init
  <2>5. QED
    BY <2>2, <2>3, <2>4 DEF X!OwnAnswer
<1>2. QED
  BY <1>1 DEF Init, ExecSafe, ExecInv, OwnAnswer

LEMMA ExecInvKept == ExecSafe /\ [Next]_vars => ExecSafe'
<1>1. ASSUME ExecSafe, part = "EXEC", part' = part, UNCHANGED exec_vars
      PROVE  ExecSafe'
  BY <1>1 DEF ExecSafe, ExecInv, OwnAnswer, exec_vars, ExecTypes, X!TypeOK, OptionsNamed, ExecutorFollows,
     RunsNamed, Sound, X!OwnAnswer
<1>2. QED
  BY <1>1, OtherThanExec, ExecStep DEF ExecSafe, ExecInv, OwnAnswer

\* In a session over several devices, with initializations that fail and lines that are rejected, a
\* command reaches the device that was named last or in a line without effect since, and the data, the
\* additional sense code and, over the bus, the sense key shown are its own.
THEOREM AnswersAreOwn == Spec => []OwnAnswer
<1>1. Init => ExecSafe
  BY ExecInitially
<1>2. ExecSafe /\ [Next]_vars => ExecSafe'
  BY ExecInvKept
<1>3. ExecSafe => OwnAnswer
  BY DEF ExecSafe
<1>4. QED
  BY <1>1, <1>2, <1>3, PTL DEF Spec
-----------------------------------------------------------------------------
(* The configuration. *)

Inode == 1..MaxPersists + 1
IsIdle(a) == persist[a].step = "IDLE"

ConfigTypes ==
  /\ DOMAIN data_of = Inode /\ persists \in 0..MaxPersists /\ begun \in 0..2
  /\ DOMAIN persist = C!Actors
  /\ \A a \in C!Actors :
       /\ DOMAIN persist[a] = {"step", "lines", "inode", "alone"}
       /\ persist[a].step \in {"IDLE", "REMOVE", "RENAME", "OPEN", "WRITE"}
       /\ persist[a].alone \in BOOLEAN

\* A file has the number of a Persist() that has begun, or was there before; an actor that is not
\* idle has one.
InodesUsed ==
  LET used == 1..persists \cup {MaxPersists + 1} IN
  /\ {CONF, CONF_OLD} \subseteq used \cup {0}
  /\ \A a \in C!Actors : ~IsIdle(a) => persist[a].inode \in used

\* While an actor that began alone still is, the others are idle, and the file it writes is in place.
AloneIsAlone ==
  \A a \in C!Actors : ~IsIdle(a) /\ persist[a].alone =>
    /\ \A b \in C!Actors \ {a} : IsIdle(b)
    /\ persist[a].step = "WRITE" => CONF = persist[a].inode

\* Where the last complete configuration is, as a Persist() after it goes on.
CompleteKept(a) ==
  /\ persist[a].step \in {"REMOVE", "RENAME"} => C!Has(CONF, complete) /\ persist[a].inode # CONF
  /\ persist[a].step = "OPEN" =>
       CONF = 0 /\ C!Has(CONF_OLD, complete) /\ persist[a].inode # CONF_OLD
  /\ persist[a].step = "WRITE" => C!Has(CONF_OLD, complete) /\ persist[a].inode # CONF_OLD

BeforePersist ==
  begun = 0 => /\ \A a \in C!Actors : IsIdle(a)
               /\ complete # C!NoLines => C!Has(CONF, complete)

DuringPersist ==
  begun = 1 => /\ \A a \in C!Actors : ~IsIdle(a) => persist[a].alone
               /\ complete # C!NoLines =>
                    /\ C!Has(CONF, complete) \/ C!Has(CONF_OLD, complete)
                    /\ \A a \in C!Actors : CompleteKept(a)

ConfigSafe == ConfigTypes /\ InodesUsed /\ AloneIsAlone /\ BeforePersist /\ DuringPersist

ConfigInv == part = "CONFIG" => ConfigSafe

\* What goes on outside the files and Persist() does not matter, nor does s2p being killed.
LEMMA ConfigOutside ==
  ASSUME ConfigSafe, UNCHANGED <<CONF, CONF_OLD, data_of, persists, complete, begun>>,
         persist' = persist \/ persist' = [a \in C!Actors |-> C!Idle]
  PROVE  ConfigSafe'
<1>1. CASE persist' = persist
  BY <1>1 DEF ConfigSafe, ConfigTypes, InodesUsed, AloneIsAlone, BeforePersist, DuringPersist,
     CompleteKept, IsIdle, C!Has, C!NoInode
<1>2. CASE persist' = [a \in C!Actors |-> C!Idle]
  <2>1. /\ DOMAIN persist' = C!Actors
        /\ \A a \in C!Actors : /\ DOMAIN persist'[a] = {"step", "lines", "inode", "alone"}
                               /\ persist'[a].step = "IDLE" /\ persist'[a].alone \in BOOLEAN
    BY <1>2 DEF C!Idle
  <2>2. QED
    BY <2>1 DEF ConfigSafe, ConfigTypes, InodesUsed, AloneIsAlone, BeforePersist, DuringPersist,
       CompleteKept, IsIdle, C!Has, C!NoInode
<1>3. QED
  BY <1>1, <1>2

\* Persist() begins.
LEMMA ConfigBegins ==
  ASSUME ConfigSafe, NEW a \in C!Actors, C!Begin(a)
  PROVE  ConfigSafe'
<1> DEFINE alone == \A b \in C!Actors : persist[b].step = "IDLE"
<1>1. /\ UNCHANGED <<CONF, CONF_OLD, data_of, complete>>
      /\ persists < MaxPersists /\ persists' = persists + 1 /\ IsIdle(a)
      /\ begun' = IF begun = 0 THEN 1 ELSE 2
      /\ persist' = [b \in C!Actors |->
                      IF b = a THEN [C!Idle EXCEPT !.step = "REMOVE", !.alone = alone, !.inode = persists + 1]
                      ELSE [persist[b] EXCEPT !.alone = FALSE]]
  BY DEF C!Begin, C!At, IsIdle
<1>2. alone \in BOOLEAN /\ (alone <=> \A b \in C!Actors : IsIdle(b))
  BY DEF IsIdle
<1> HIDE DEF alone
<1>3. /\ DOMAIN persist'[a] = {"step", "lines", "inode", "alone"}
      /\ persist'[a].step = "REMOVE" /\ persist'[a].alone = alone /\ persist'[a].inode = persists + 1
  BY <1>1 DEF C!Idle
<1>4. ASSUME NEW b \in C!Actors, b # a
      PROVE  /\ DOMAIN persist'[b] = {"step", "lines", "inode", "alone"}
             /\ persist'[b].step = persist[b].step /\ persist'[b].inode = persist[b].inode
             /\ persist'[b].alone = FALSE
  BY <1>1, <1>4 DEF ConfigSafe, ConfigTypes
<1>5. ConfigTypes'
  <2>1. /\ DOMAIN data_of' = Inode /\ persists' \in 0..MaxPersists /\ begun' \in 0..2
        /\ DOMAIN persist' = C!Actors
    BY <1>1, ConfigBound DEF ConfigSafe, ConfigTypes, Inode
  <2>2. ASSUME NEW b \in C!Actors
        PROVE  /\ DOMAIN persist'[b] = {"step", "lines", "inode", "alone"}
               /\ persist'[b].step \in {"IDLE", "REMOVE", "RENAME", "OPEN", "WRITE"}
               /\ persist'[b].alone \in BOOLEAN
    <3>1. CASE b = a
      BY <1>2, <1>3, <3>1
    <3>2. CASE b # a
      BY <1>4, <3>2 DEF ConfigSafe, ConfigTypes
    <3>3. QED
      BY <3>1, <3>2
  <2>3. QED
    BY <2>1, <2>2 DEF ConfigTypes
<1>6. InodesUsed' /\ persists + 1 \notin {CONF, CONF_OLD}
  BY <1>1, <1>3, <1>4, ConfigBound DEF ConfigSafe, ConfigTypes, InodesUsed, IsIdle
<1>7. AloneIsAlone'
  BY <1>1, <1>2, <1>3, <1>4 DEF AloneIsAlone, IsIdle
<1>8. BeforePersist'
  BY <1>1 DEF BeforePersist
<1>9. DuringPersist'
  BY <1>1, <1>2, <1>3, <1>4, <1>6
     DEF ConfigSafe, ConfigTypes, BeforePersist, DuringPersist, CompleteKept, IsIdle, C!Has,
        C!NoInode
<1>10. QED
  BY <1>5, <1>6, <1>7, <1>8, <1>9 DEF ConfigSafe

\* The step of an actor and nothing else of it.
LEMMA ConfigGoes ==
  ASSUME ConfigSafe, NEW a \in C!Actors, NEW step, C!Go(a, step)
  PROVE  /\ DOMAIN persist' = C!Actors
         /\ \A b \in C!Actors :
              /\ DOMAIN persist'[b] = {"step", "lines", "inode", "alone"}
              /\ persist'[b].step = IF b = a THEN step ELSE persist[b].step
              /\ persist'[b].inode = persist[b].inode /\ persist'[b].alone = persist[b].alone
BY DEF C!Go, ConfigSafe, ConfigTypes

\* The old copy is removed.
LEMMA ConfigRemoves ==
  ASSUME ConfigSafe, NEW a \in C!Actors, C!Remove(a)
  PROVE  ConfigSafe'
<1>1. /\ UNCHANGED <<CONF, data_of, persists, complete, begun>> /\ CONF_OLD' = 0
      /\ persist[a].step = "REMOVE" /\ C!Go(a, "RENAME")
  BY DEF C!Remove, C!At, C!NoInode
<1>2. /\ DOMAIN persist' = C!Actors
      /\ \A b \in C!Actors :
           /\ DOMAIN persist'[b] = {"step", "lines", "inode", "alone"}
           /\ persist'[b].step = IF b = a THEN "RENAME" ELSE persist[b].step
           /\ persist'[b].inode = persist[b].inode /\ persist'[b].alone = persist[b].alone
  BY <1>1, ConfigGoes
<1>3. ConfigTypes' /\ InodesUsed'
  BY <1>1, <1>2 DEF ConfigSafe, ConfigTypes, InodesUsed, IsIdle
<1>4. AloneIsAlone'
  BY <1>1, <1>2 DEF ConfigSafe, AloneIsAlone, IsIdle
<1>5. begun # 0 /\ BeforePersist'
  BY <1>1 DEF ConfigSafe, BeforePersist, IsIdle
<1>6. DuringPersist'
  BY <1>1, <1>2 DEF ConfigSafe, AloneIsAlone, DuringPersist, CompleteKept, IsIdle, C!Has, C!NoInode
<1>7. QED
  BY <1>3, <1>4, <1>5, <1>6 DEF ConfigSafe

\* The configuration becomes the old copy.
LEMMA ConfigRenames ==
  ASSUME ConfigSafe, NEW a \in C!Actors, C!Rename(a)
  PROVE  ConfigSafe'
<1>1. /\ UNCHANGED <<data_of, persists, complete, begun>>
      /\ \/ CONF = 0 /\ UNCHANGED <<CONF, CONF_OLD>>
         \/ CONF # 0 /\ CONF_OLD' = CONF /\ CONF' = 0
      /\ persist[a].step = "RENAME" /\ C!Go(a, "OPEN")
  BY DEF C!Rename, C!At, C!NoInode
<1>2. /\ DOMAIN persist' = C!Actors
      /\ \A b \in C!Actors :
           /\ DOMAIN persist'[b] = {"step", "lines", "inode", "alone"}
           /\ persist'[b].step = IF b = a THEN "OPEN" ELSE persist[b].step
           /\ persist'[b].inode = persist[b].inode /\ persist'[b].alone = persist[b].alone
  BY <1>1, ConfigGoes
<1>3. ConfigTypes' /\ InodesUsed'
  BY <1>1, <1>2 DEF ConfigSafe, ConfigTypes, InodesUsed, IsIdle
<1>4. AloneIsAlone'
  BY <1>1, <1>2 DEF ConfigSafe, AloneIsAlone, IsIdle
<1>5. begun # 0 /\ BeforePersist'
  BY <1>1 DEF ConfigSafe, BeforePersist, IsIdle
<1>6. DuringPersist'
  BY <1>1, <1>2 DEF ConfigSafe, AloneIsAlone, DuringPersist, CompleteKept, IsIdle, C!Has, C!NoInode
<1>7. QED
  BY <1>3, <1>4, <1>5, <1>6 DEF ConfigSafe

\* The new file is opened.
LEMMA ConfigOpens ==
  ASSUME ConfigSafe, NEW a \in C!Actors, C!Open(a)
  PROVE  ConfigSafe'
<1> DEFINE inode == IF CONF = 0 THEN persist[a].inode ELSE CONF
<1>1. /\ UNCHANGED <<CONF_OLD, persists, complete, begun>>
      /\ persist[a].step = "OPEN" /\ CONF' = inode /\ data_of' = [data_of EXCEPT ![inode] = C!NoLines]
      /\ persist' = [persist EXCEPT ![a].step = "WRITE", ![a].inode = inode,
                                    ![a].lines = C!Lines(property_cache)]
  BY DEF C!Open, C!At, C!NoInode
<1>2. /\ DOMAIN persist' = C!Actors
      /\ \A b \in C!Actors :
           /\ DOMAIN persist'[b] = {"step", "lines", "inode", "alone"}
           /\ persist'[b].step = IF b = a THEN "WRITE" ELSE persist[b].step
           /\ persist'[b].inode = IF b = a THEN inode ELSE persist[b].inode
           /\ persist'[b].alone = persist[b].alone
  BY <1>1 DEF ConfigSafe, ConfigTypes
<1>3. inode \in 1..persists \cup {MaxPersists + 1} /\ inode \in Inode
  BY <1>1, ConfigBound DEF ConfigSafe, ConfigTypes, InodesUsed, IsIdle, Inode
<1>4. CONF = 0 => inode = persist[a].inode
  OBVIOUS
<1> HIDE DEF inode
<1>5. DOMAIN data_of' = Inode /\ \A i \in Inode \ {inode} : data_of'[i] = data_of[i]
  BY <1>1, <1>3 DEF ConfigSafe, ConfigTypes
<1>6. ConfigTypes' /\ InodesUsed'
  BY <1>1, <1>2, <1>3, <1>5 DEF ConfigSafe, ConfigTypes, InodesUsed, IsIdle
<1>7. AloneIsAlone'
  BY <1>1, <1>2 DEF ConfigSafe, AloneIsAlone, IsIdle
<1>8. begun # 0 /\ BeforePersist'
  BY <1>1 DEF ConfigSafe, BeforePersist, IsIdle
<1>9. CONF_OLD \in Inode \cup {0}
  BY ConfigBound DEF ConfigSafe, ConfigTypes, InodesUsed, Inode
<1>10. DuringPersist'
  BY <1>1, <1>2, <1>4, <1>5, <1>9
     DEF ConfigSafe, AloneIsAlone, DuringPersist, CompleteKept, IsIdle, C!Has, C!NoInode
<1>11. QED
  BY <1>6, <1>7, <1>8, <1>10 DEF ConfigSafe

\* Something is written into the file of an actor.
LEMMA ConfigPuts ==
  ASSUME ConfigSafe, NEW a \in C!Actors, persist[a].step = "WRITE", NEW contents, C!Put(a, contents)
  PROVE  /\ DOMAIN data_of' = Inode
         /\ \A i \in Inode \ {persist[a].inode} : data_of'[i] = data_of[i]
         /\ persist[a].inode \in Inode
         /\ persist[a].alone => data_of'[persist[a].inode] \in contents
<1>1. persist[a].inode \in Inode
  BY ConfigBound DEF ConfigSafe, ConfigTypes, InodesUsed, IsIdle, Inode
<1>2. \E c : data_of' = [data_of EXCEPT ![persist[a].inode] = c]
             /\ (~C!Shares(a) => c \in contents)
  BY DEF C!Put
<1>3. persist[a].alone => ~C!Shares(a)
  BY DEF ConfigSafe, AloneIsAlone, IsIdle, C!Shares
<1>4. QED
  BY <1>1, <1>2, <1>3 DEF ConfigSafe, ConfigTypes

\* A part of the file is written.
LEMMA ConfigWrites ==
  ASSUME ConfigSafe, NEW a \in C!Actors, C!Write(a)
  PROVE  ConfigSafe'
<1>1. /\ UNCHANGED <<CONF, CONF_OLD, persist, persists, complete, begun>> /\ persist[a].step = "WRITE"
      /\ \E c : C!Put(a, {c})
  BY DEF C!Write, C!At
<1>2. /\ DOMAIN data_of' = Inode
      /\ \A i \in Inode \ {persist[a].inode} : data_of'[i] = data_of[i]
  BY <1>1, ConfigPuts
<1>3. ConfigTypes' /\ InodesUsed' /\ AloneIsAlone'
  BY <1>1, <1>2 DEF ConfigSafe, ConfigTypes, InodesUsed, AloneIsAlone, IsIdle
<1>4. begun # 0 /\ BeforePersist'
  BY <1>1 DEF ConfigSafe, BeforePersist, IsIdle
<1>5. CONF_OLD \in Inode \cup {0}
  BY ConfigBound DEF ConfigSafe, ConfigTypes, InodesUsed, Inode
<1>6. DuringPersist'
  BY <1>1, <1>2, <1>5
     DEF ConfigSafe, AloneIsAlone, DuringPersist, CompleteKept, IsIdle, C!Has, C!NoInode
<1>7. QED
  BY <1>3, <1>4, <1>6 DEF ConfigSafe

\* Persist() ends, with everything written or not.
LEMMA ConfigEnds ==
  ASSUME ConfigSafe, NEW a \in C!Actors, C!Close(a) \/ C!WriteFails(a)
  PROVE  ConfigSafe'
<1>1. /\ UNCHANGED <<CONF, CONF_OLD, persists>> /\ persist[a].step = "WRITE"
      /\ persist' = [persist EXCEPT ![a] = C!Idle]
  BY DEF C!Close, C!WriteFails, C!At
<1>2. /\ DOMAIN data_of' = Inode
      /\ \A i \in Inode \ {persist[a].inode} : data_of'[i] = data_of[i]
      /\ persist[a].inode \in Inode
      /\ \/ UNCHANGED <<complete, begun>>
         \/ /\ persist[a].alone /\ begun' = 0 /\ complete' = persist[a].lines
            /\ data_of'[persist[a].inode] = persist[a].lines
  <2>1. CASE C!Close(a)
    <3>1. C!Put(a, {persist[a].lines})
      BY <2>1 DEF C!Close
    <3>2. /\ DOMAIN data_of' = Inode
          /\ \A i \in Inode \ {persist[a].inode} : data_of'[i] = data_of[i]
          /\ persist[a].inode \in Inode
          /\ persist[a].alone => data_of'[persist[a].inode] \in {persist[a].lines}
      BY <1>1, <3>1, ConfigPuts
    <3>3. QED
      BY <2>1, <3>2 DEF C!Close
  <2>2. CASE C!WriteFails(a)
    BY <1>1, <2>2, ConfigBound DEF C!WriteFails, ConfigSafe, ConfigTypes, InodesUsed, IsIdle,
       Inode
  <2>3. QED
    BY <2>1, <2>2
<1>3. /\ DOMAIN persist' = C!Actors
      /\ \A b \in C!Actors : DOMAIN persist'[b] = {"step", "lines", "inode", "alone"}
      /\ persist'[a].step = "IDLE" /\ persist'[a].alone = TRUE
      /\ \A b \in C!Actors \ {a} : persist'[b] = persist[b]
  BY <1>1 DEF ConfigSafe, ConfigTypes, C!Idle
<1>4. ConfigTypes'
  <2>1. ASSUME NEW b \in C!Actors
        PROVE  /\ persist'[b].step \in {"IDLE", "REMOVE", "RENAME", "OPEN", "WRITE"}
               /\ persist'[b].alone \in BOOLEAN
    <3>1. CASE b = a
      BY <1>3, <3>1
    <3>2. CASE b # a
      BY <1>3, <3>2 DEF ConfigSafe, ConfigTypes
    <3>3. QED
      BY <3>1, <3>2
  <2>2. QED
    BY <1>1, <1>2, <1>3, <2>1 DEF ConfigSafe, ConfigTypes
<1>5. InodesUsed' /\ AloneIsAlone'
  BY <1>1, <1>3 DEF ConfigSafe, InodesUsed, AloneIsAlone, IsIdle
<1>6. begun # 0
  BY <1>1 DEF ConfigSafe, BeforePersist, IsIdle
<1>7. CASE UNCHANGED <<complete, begun>>
  <2>1. BeforePersist'
    BY <1>6, <1>7 DEF BeforePersist
  <2>2. CONF_OLD \in Inode \cup {0}
    BY ConfigBound DEF ConfigSafe, ConfigTypes, InodesUsed, Inode
  <2>3. DuringPersist'
    BY <1>1, <1>2, <1>3, <1>7, <2>2
       DEF ConfigSafe, AloneIsAlone, DuringPersist, CompleteKept, IsIdle, C!Has, C!NoInode
  <2>4. QED
    BY <1>4, <1>5, <2>1, <2>3 DEF ConfigSafe
<1>8. CASE /\ persist[a].alone /\ begun' = 0 /\ complete' = persist[a].lines
           /\ data_of'[persist[a].inode] = persist[a].lines
  <2>1. CONF = persist[a].inode /\ \A b \in C!Actors \ {a} : IsIdle(b)
    BY <1>1, <1>8 DEF ConfigSafe, AloneIsAlone, IsIdle
  <2>2. BeforePersist'
    BY <1>1, <1>2, <1>3, <1>8, <2>1 DEF BeforePersist, IsIdle, C!Has, C!NoInode, Inode
  <2>3. DuringPersist'
    BY <1>8 DEF DuringPersist
  <2>4. QED
    BY <1>4, <1>5, <2>2, <2>3 DEF ConfigSafe
<1>9. QED
  BY <1>2, <1>7, <1>8

\* Every step around the configuration keeps its invariant.
LEMMA ConfigStep ==
  ASSUME ConfigSafe, C!Next
  PROVE  ConfigSafe'
<1>1. CASE \/ \E c \in CommandLines, i \in BOOLEAN : C!Start(c, i)
           \/ C!Kill
           \/ \E k \in {"LOG_LEVEL", "DEVICE_0_0"} : C!AddProperty(k, "B")
  <2>1. /\ UNCHANGED <<CONF, CONF_OLD, data_of, persists, complete, begun>>
        /\ persist' = persist \/ persist' = [a \in C!Actors |-> C!Idle]
    BY <1>1 DEF C!Start, C!Kill, C!AddProperty
  <2>2. QED
    BY <2>1, ConfigOutside
<1>2. ASSUME NEW a \in C!Actors,
             \/ C!Begin(a) \/ C!Remove(a) \/ C!Rename(a) \/ C!Open(a) \/ C!Write(a) \/ C!Close(a)
             \/ C!WriteFails(a)
      PROVE  ConfigSafe'
  BY <1>2, ConfigBegins, ConfigRemoves, ConfigRenames, ConfigOpens, ConfigWrites, ConfigEnds
<1>3. QED
  BY <1>1, <1>2 DEF C!Next

\* A part that does not run keeps its variables.
LEMMA OtherThanConfig ==
  ASSUME [Next]_vars
  PROVE  \/ part = "CONFIG" /\ part' = part /\ C!Next
         \/ part # "CONFIG" /\ part' = part
         \/ part' = part /\ UNCHANGED config_vars
BY DEF Next, vars, Transfer, Host, Spool, Net, Generic, Disk, TapeCopy, Simh, Exec, Mode, Config

\* No file is written when s2p has not been started yet.
LEMMA ConfigInitially == DevicesAssumption /\ Init => ConfigInv
<1> SUFFICES ASSUME C!Init
             PROVE  ConfigSafe
  BY DEF Init, ConfigInv
<1>1. PICK h \in HandWritten :
        /\ CONF = IF h = {} THEN 0 ELSE MaxPersists + 1
        /\ data_of = [i \in 1..MaxPersists + 1 |-> IF i <= MaxPersists THEN C!NoLines ELSE C!Lines(h)]
        /\ complete = IF h = {} THEN C!NoLines ELSE C!Lines(h)
  BY DEF C!Init, C!NoInode
<1>2. /\ CONF_OLD = 0 /\ persists = 0 /\ begun = 0 /\ DOMAIN persist = C!Actors
      /\ \A a \in C!Actors : /\ DOMAIN persist[a] = {"step", "lines", "inode", "alone"}
                             /\ persist[a].step = "IDLE" /\ persist[a].alone = TRUE
  BY DEF C!Init, C!Idle, C!NoInode
<1>3. ConfigTypes
  <2>1. DOMAIN data_of = Inode /\ persists \in 0..MaxPersists /\ begun \in 0..2
    BY <1>1, <1>2, ConfigBound DEF Inode
  <2>2. ASSUME NEW a \in C!Actors
        PROVE  persist[a].alone \in BOOLEAN
    BY <1>2
  <2>3. QED
    BY <1>2, <2>1, <2>2 DEF ConfigTypes
<1>4. InodesUsed /\ AloneIsAlone /\ DuringPersist
  BY <1>1, <1>2 DEF InodesUsed, AloneIsAlone, DuringPersist, IsIdle
<1>5. BeforePersist
  BY <1>1, <1>2, ConfigBound DEF BeforePersist, IsIdle, C!Has, C!NoInode
<1>6. QED
  BY <1>3, <1>4, <1>5 DEF ConfigSafe

\* The steps of the other parts do not touch the configuration.
LEMMA ConfigInvKept == ConfigInv /\ [Next]_vars => ConfigInv'
<1>1. ASSUME ConfigInv, part = "CONFIG", part' = part, UNCHANGED config_vars
      PROVE  ConfigInv'
  BY <1>1, ConfigOutside DEF ConfigInv, config_vars
<1>2. QED
  BY <1>1, OtherThanConfig, ConfigStep DEF ConfigInv

\* The last complete configuration is in one of the two files while the next one is written, whenever
\* s2p is killed.
THEOREM ConfigurationSurvives == Spec => []ConfigSurvives
<1>1. Init => ConfigInv
  BY DevicesAssumption, ConfigInitially
<1>2. ConfigInv => ConfigSurvives
  BY DEF ConfigInv, ConfigSafe, ConfigTypes, BeforePersist, DuringPersist, ConfigSurvives,
     C!ConfigSurvives
<1>3. QED
  BY <1>1, <1>2, ConfigInvKept, PTL DEF Spec

(* Induction and recursion over natural numbers, with sets for predicates. *)

\* A set of natural numbers has a smallest one.
LEMMA Smallest ==
  ASSUME NEW A, A \subseteq Nat, A # {}
  PROVE  \E n \in A : \A m \in A : n <= m
<1> DEFINE R == OpToRel(<, Nat)
<1>1. IsWellFoundedOn(R, Nat)
  BY NatLessThanWellFounded
<1>2. \A x, y \in Nat : x < y => <<x, y>> \in R
  BY DEF OpToRel
<1> HIDE DEF R
<1>3. PICK n \in A : \A m \in A : ~ (<<m, n>> \in R)
  BY <1>1, WFMin
<1>4. ASSUME NEW m \in A
      PROVE  n <= m
  <2>1. m \in Nat /\ n \in Nat
    OBVIOUS
  <2>2. ~(m < n)
    BY <1>2, <1>3, <2>1
  <2>3. QED
    BY <2>1, <2>2
<1>5. QED
  BY <1>4

\* Induction up to n.
LEMMA UpTo ==
  ASSUME NEW n \in Nat, NEW A, 0 \in A, \A i \in 0..n - 1 : i \in A => i + 1 \in A
  PROVE  \A i \in 0..n : i \in A
<1> DEFINE B == {i \in 0..n : i \notin A}
<1>1. SUFFICES ASSUME B # {}
               PROVE  FALSE
  OBVIOUS
<1>2. B \subseteq Nat
  OBVIOUS
<1>3. PICK i \in B : \A j \in B : i <= j
  BY <1>1, <1>2, Smallest
<1>4. i \in 1..n /\ i - 1 \in 0..n - 1 /\ i - 1 + 1 = i
  BY <1>3
<1>5. i - 1 \notin B
  BY <1>3, <1>4
<1>6. QED
  BY <1>3, <1>4, <1>5

\* One of several numbers up to n is the largest.
LEMMA Largest ==
  ASSUME NEW n \in Nat, NEW A, A \subseteq 0..n, A # {}
  PROVE  \E m \in A : \A k \in A : k <= m
<1> DEFINE B == {n - k : k \in A}
<1>1. B \subseteq Nat /\ B # {}
  <2>1. \A k \in A : n - k \in Nat
    OBVIOUS
  <2>2. QED
    BY <2>1
<1>2. PICK b \in B : \A c \in B : b <= c
  BY <1>1, Smallest
<1>3. PICK m \in A : b = n - m
  BY <1>2
<1>4. ASSUME NEW k \in A
      PROVE  k <= m
  <2>1. n - m <= n - k
    BY <1>2, <1>3
  <2>2. k \in Nat /\ m \in Nat
    OBVIOUS
  <2>3. QED
    BY <2>1, <2>2
<1>5. QED
  BY <1>4

\* A function that is defined by recursion up to n exists.
Closed(h, V, n) == \A v \in V, i \in 1..n : h[<<v, i>>] \in V
Iterates(f, b, h, n) == f[0] = b /\ \A i \in 1..n : f[i] = h[<<f[i - 1], i>>]

LEMMA Recursion ==
  ASSUME NEW V, NEW b \in V, NEW n \in Nat, NEW h, Closed(h, V, n)
  PROVE  \E f \in [0..n -> V] : Iterates(f, b, h, n)
<1> DEFINE Good(f, k) == f[0] = b /\ \A i \in 1..k : f[i] = h[<<f[i - 1], i>>]
           A == {k \in 0..n : \E f \in [0..k -> V] : Good(f, k)}
<1>1. 0 \in A
  <2> DEFINE f == [i \in 0..0 |-> b]
  <2>1. f \in [0..0 -> V] /\ Good(f, 0)
    OBVIOUS
  <2> HIDE DEF f
  <2>2. \E g \in [0..0 -> V] : Good(g, 0)
    BY <2>1
  <2>3. 0 \in 0..n
    OBVIOUS
  <2>4. QED
    BY <2>2, <2>3
<1>2. ASSUME NEW k \in 0..n - 1, k \in A
      PROVE  k + 1 \in A
  <2>1. PICK f \in [0..k -> V] : Good(f, k)
    BY <1>2
  <2> DEFINE g == [i \in 0..k + 1 |-> IF i = k + 1 THEN h[<<f[k], k + 1>>] ELSE f[i]]
  <2>2. g \in [0..k + 1 -> V]
    BY DEF Closed
  <2>3. Good(g, k + 1)
    <3>1. g[0] = b
      BY <2>1
    <3>2. ASSUME NEW i \in 1..k + 1
          PROVE  g[i] = h[<<g[i - 1], i>>]
      <4>1. g[i - 1] = f[i - 1]
        OBVIOUS
      <4>2. CASE i = k + 1
        BY <4>1, <4>2
      <4>3. CASE i # k + 1
        BY <2>1, <4>1, <4>3
      <4>4. QED
        BY <4>2, <4>3
    <3>3. QED
      BY <3>1, <3>2
  <2> HIDE DEF g
  <2>4. QED
    BY <2>2, <2>3
<1> HIDE DEF A
<1>3. n \in A
  <2>1. \A k \in 0..n - 1 : k \in A => k + 1 \in A
    BY <1>2
  <2>2. \A k \in 0..n : k \in A
    BY <1>1, <2>1, UpTo
  <2>3. n \in 0..n
    OBVIOUS
  <2>4. QED
    BY <2>2, <2>3
<1>4. PICK f \in [0..n -> V] : Good(f, n)
  BY <1>3 DEF A
<1>5. QED
  BY <1>4 DEF Iterates

(* Mode pages. *)

\* The size of a list of pages is a number, and not less than that of the first.
LEMMA SizeOfPages ==
  ASSUME NEW q, q \in Seq([code : Nat, size : Nat])
  PROVE  M!Size(q) \in Nat /\ (q # <<>> => q[1].size <= M!Size(q))
<1> DEFINE n == Len(q)
           z == [i \in 1..n |-> q[i].size]
           h == [x \in Nat \X (1..n) |-> x[1] + z[x[2]]]
           F == CHOOSE upTo : upTo = [i \in 0..n |-> IF i = 0 THEN 0 ELSE upTo[i - 1] + q[i].size]
<1>1. n \in Nat /\ (q # <<>> => n # 0)
  OBVIOUS
<1>2. \A i \in 1..n : z[i] = q[i].size /\ z[i] \in Nat
  <2>1. \A i \in 1..Len(q) : q[i] \in [code : Nat, size : Nat]
    BY ElementOfSeq
  <2>2. \A x \in [code : Nat, size : Nat] : x.size \in Nat
    OBVIOUS
  <2>3. QED
    BY <2>1, <2>2
<1>3. M!Size(q) = F[n]
  BY DEF M!Size
<1> HIDE DEF n, z
<1>4. \A v \in Nat, i \in 1..n : h[<<v, i>>] = v + z[i] /\ h[<<v, i>>] \in Nat
  BY <1>2
<1> HIDE DEF h
<1>5. PICK f \in [0..n -> Nat] : Iterates(f, 0, h, n)
  <2>1. n \in Nat /\ 0 \in Nat
    BY <1>1
  <2>2. Closed(h, Nat, n)
    BY <1>4 DEF Closed
  <2>3. QED
    BY <2>1, <2>2, Recursion
<1>6. f = [i \in 0..n |-> IF i = 0 THEN 0 ELSE f[i - 1] + q[i].size]
  <2>1. ASSUME NEW i \in 0..n, i # 0
        PROVE  h[<<f[i - 1], i>>] = f[i - 1] + q[i].size
    <3>1. i \in 1..n /\ f[i - 1] \in Nat
      BY <1>1, <2>1
    <3>2. QED
      BY <1>2, <1>4, <3>1
  <2>2. ASSUME NEW i \in 0..n
        PROVE  f[i] = IF i = 0 THEN 0 ELSE f[i - 1] + q[i].size
    <3>1. i # 0 => i \in 1..n
      BY <1>1
    <3>2. QED
      BY <1>5, <2>1, <3>1 DEF Iterates
  <2>3. QED
    BY <2>2
<1>7. F = [i \in 0..n |-> IF i = 0 THEN 0 ELSE F[i - 1] + q[i].size]
  BY <1>6
<1> HIDE DEF F
<1>8. F[0] = 0 /\ \A i \in 1..n : F[i] = F[i - 1] + z[i]
  <2>1. F[0] = 0
    BY <1>1, <1>7
  <2>2. ASSUME NEW i \in 1..n
        PROVE  F[i] = F[i - 1] + z[i]
    <3>1. i \in 0..n /\ i # 0
      BY <1>1
    <3>2. QED
      BY <1>2, <1>7, <3>1
  <2>3. QED
    BY <2>1, <2>2
<1> DEFINE A == {i \in 0..n : F[i] \in Nat /\ (i # 0 => z[1] <= F[i])}
<1>9. 0 \in A
  BY <1>1, <1>8
<1>10. ASSUME NEW i \in 0..n - 1, i \in A
       PROVE  i + 1 \in A
  <2>1. i + 1 \in 1..n /\ i + 1 - 1 = i /\ i + 1 \in 0..n
    BY <1>1
  <2>2. F[i + 1] = F[i] + z[i + 1] /\ z[i + 1] \in Nat
    BY <1>2, <1>8, <2>1
  <2>3. F[i] \in Nat /\ (i # 0 => z[1] <= F[i]) /\ (i = 0 => F[i] = 0)
    BY <1>8, <1>10
  <2>4. z[1] \in Nat
    BY <1>1, <1>2, <2>1
  <2>5. QED
    BY <2>1, <2>2, <2>3, <2>4
<1> HIDE DEF A
<1>11. n \in A
  <2>1. \A i \in 0..n - 1 : i \in A => i + 1 \in A
    BY <1>10
  <2>2. \A i \in 0..n : i \in A
    BY <1>1, <1>9, <2>1, UpTo
  <2>3. QED
    BY <1>1, <2>2
<1>12. F[n] \in Nat /\ (n # 0 => z[1] <= F[n])
  BY <1>11 DEF A
<1>13. q # <<>> => z[1] = q[1].size
  <2>1. ASSUME q # <<>>
        PROVE  1 \in 1..n
    BY <1>1, <2>1
  <2>2. QED
    BY <1>2, <2>1
<1>14. QED
  BY <1>1, <1>3, <1>12, <1>13

PageType == [code : Nat, size : Nat]

\* A page with its size, as sizes has it.
PageOf(sizes) == {[code |-> p, size |-> sizes[p]] : p \in DOMAIN sizes}

\* The list of pages has the pages there are with their sizes.
LEMMA PagesInOrder ==
  ASSUME NEW sizes
  PROVE  M!InOrder(sizes) \in Seq(PageOf(sizes))
<1> DEFINE R == PageOf(sizes)
           Q == Seq(R)
           page(p) == [code |-> p, size |-> sizes[p]]
           h == [x \in Q \X (1..63) |->
                   IF x[2] % 63 \in DOMAIN sizes THEN Append(x[1], page(x[2] % 63)) ELSE x[1]]
           F == CHOOSE upTo : upTo = [i \in 0..63 |->
                  IF i = 0 THEN <<>>
                  ELSE IF i % 63 \in DOMAIN sizes
                       THEN Append(upTo[i - 1], page(i % 63)) ELSE upTo[i - 1]]
<1>1. M!InOrder(sizes) = F[63]
  BY DEF M!InOrder
<1>2. \A p \in DOMAIN sizes : page(p) \in R
  BY DEF PageOf
<1> HIDE DEF page, R
<1>3. ASSUME NEW v \in Q, NEW i \in 1..63
      PROVE  /\ h[<<v, i>>] = IF i % 63 \in DOMAIN sizes THEN Append(v, page(i % 63)) ELSE v
             /\ h[<<v, i>>] \in Q
  <2>1. <<v, i>> \in Q \X (1..63)
    OBVIOUS
  <2>2. h[<<v, i>>] = IF i % 63 \in DOMAIN sizes THEN Append(v, page(i % 63)) ELSE v
    BY <2>1
  <2>3. i % 63 \in DOMAIN sizes => Append(v, page(i % 63)) \in Seq(R)
    BY <1>2, AppendProperties
  <2>4. QED
    BY <2>2, <2>3
<1> HIDE DEF h
<1>4. <<>> \in Q /\ 63 \in Nat
  OBVIOUS
<1> HIDE DEF Q
<1>5. Closed(h, Q, 63)
  BY <1>3 DEF Closed
<1>6. PICK f \in [0..63 -> Q] : Iterates(f, <<>>, h, 63)
  BY <1>4, <1>5, Recursion
<1>7. f = [i \in 0..63 |->
             IF i = 0 THEN <<>>
             ELSE IF i % 63 \in DOMAIN sizes THEN Append(f[i - 1], page(i % 63)) ELSE f[i - 1]]
  <2>1. ASSUME NEW i \in 0..63, i # 0
        PROVE  h[<<f[i - 1], i>>] =
                 IF i % 63 \in DOMAIN sizes THEN Append(f[i - 1], page(i % 63)) ELSE f[i - 1]
    <3>1. i \in 1..63 /\ f[i - 1] \in Q
      BY <2>1
    <3>2. QED
      BY <1>3, <3>1
  <2>2. ASSUME NEW i \in 0..63
        PROVE  f[i] = IF i = 0 THEN <<>> ELSE IF i % 63 \in DOMAIN sizes
                                              THEN Append(f[i - 1], page(i % 63)) ELSE f[i - 1]
    <3>1. i # 0 => i \in 1..63
      OBVIOUS
    <3>2. QED
      BY <1>6, <2>1, <3>1 DEF Iterates
  <2>3. QED
    BY <2>2
<1>8. F = [i \in 0..63 |->
             IF i = 0 THEN <<>>
             ELSE IF i % 63 \in DOMAIN sizes THEN Append(F[i - 1], page(i % 63)) ELSE F[i - 1]]
  BY <1>7
<1> HIDE DEF F
<1> DEFINE A == {i \in 0..63 : F[i] \in Q}
<1>9. 0 \in A
  BY <1>4, <1>8
<1>10. ASSUME NEW i \in 0..63 - 1, i \in A
       PROVE  i + 1 \in A
  <2>1. PICK j \in 1..63 : j = i + 1 /\ j - 1 = i
    OBVIOUS
  <2>2. F[j] = IF j % 63 \in DOMAIN sizes THEN Append(F[j - 1], page(j % 63)) ELSE F[j - 1]
    <3>1. j \in 0..63 /\ j # 0
      OBVIOUS
    <3>2. QED
      BY <1>8, <3>1
  <2>3. F[j - 1] \in Q
    BY <1>10, <2>1
  <2>4. F[j] \in Q
    BY <1>3, <2>2, <2>3
  <2>5. QED
    BY <2>1, <2>4
<1> HIDE DEF A
<1>11. \A i \in 0..63 : i \in A
  <2>1. \A i \in 0..63 - 1 : i \in A => i + 1 \in A
    BY <1>10
  <2>2. QED
    BY <1>4, <1>9, <2>1, UpTo
<1>12. F[63] \in Q
  BY <1>11 DEF A
<1>13. QED
  BY <1>1, <1>12 DEF Q, R
\* The properties there are have pages and sizes that are numbers.
PropertyType == [page : Nat, match : BOOLEAN, size : Nat, code : Nat, field : Nat]
LEMMA DefinitionTypes == Definitions \subseteq Seq(PropertyType)
<1>1. \A n \in Nat : (n - 2) % 256 \in Nat
  OBVIOUS
<1>2. /\ \A p, n \in Nat : Page(p, n) \in PropertyType
      /\ [Page(1, 20) EXCEPT !.code = 2] \in PropertyType
      /\ [Page(8, 20) EXCEPT !.field = 3] \in PropertyType
      /\ [Page(7, 20) EXCEPT !.match = FALSE] \in PropertyType
  <2>1. \A p, n \in Nat : Page(p, n) \in PropertyType
    BY <1>1 DEF Page, PropertyType
  <2>2. \A x \in PropertyType : /\ [x EXCEPT !.code = 2] \in PropertyType
                               /\ [x EXCEPT !.field = 3] \in PropertyType
                               /\ [x EXCEPT !.match = FALSE] \in PropertyType
    BY DEF PropertyType
  <2>3. QED
    BY <2>1, <2>2
<1> DEFINE V == PropertyType
<1> HIDE DEF V
<1>3. /\ <<>> \in Seq(V)
      /\ \A a \in V : <<a>> \in Seq(V)
      /\ \A a, b, c \in V : <<a, b, c>> \in Seq(V)
      /\ \A a, b, c, d \in V : <<a, b, c, d>> \in Seq(V)
      /\ \A a, b, c, d, e, f \in V : <<a, b, c, d, e, f>> \in Seq(V)
  OBVIOUS
<1>4. /\ <<Page(8, 20)>> \in Seq(V)
      /\ <<Page(2, 0), Page(10, 0), Page(48, 0), Page(1, 8)>> \in Seq(V)
      /\ <<Page(0, 6), Page(7, 8), Page(7, 12)>> \in Seq(V)
      /\ <<Page(8, 300)>> \in Seq(V)
      /\ <<Page(2, 0), Page(10, 0), Page(48, 0), Page(4, 0), Page(12, 0), Page(37, 0)>> \in Seq(V)
  <2>1. /\ Page(8, 20) \in V /\ Page(2, 0) \in V /\ Page(10, 0) \in V /\ Page(48, 0) \in V
        /\ Page(1, 8) \in V /\ Page(0, 6) \in V /\ Page(7, 8) \in V /\ Page(7, 12) \in V
        /\ Page(8, 300) \in V /\ Page(4, 0) \in V /\ Page(12, 0) \in V /\ Page(37, 0) \in V
    <3>1. \A p, n \in Nat : Page(p, n) \in V
      BY <1>2 DEF V
    <3>2. QED
      BY <3>1
  <2>2. /\ <<Page(8, 20)>> \in Seq(V) /\ <<Page(8, 300)>> \in Seq(V)
        /\ <<Page(0, 6), Page(7, 8), Page(7, 12)>> \in Seq(V)
    BY <1>3, <2>1
  <2>3. <<Page(2, 0), Page(10, 0), Page(48, 0), Page(1, 8)>> \in Seq(V)
    BY <1>3, <2>1
  <2>4. <<Page(2, 0), Page(10, 0), Page(48, 0), Page(4, 0), Page(12, 0), Page(37, 0)>> \in Seq(V)
    BY <1>3, <2>1
  <2>5. QED
    BY <2>2, <2>3, <2>4
<1>5. <<[Page(1, 20) EXCEPT !.code = 2], [Page(8, 20) EXCEPT !.field = 3],
        [Page(7, 20) EXCEPT !.match = FALSE], Page(50, 240)>> \in Seq(V)
  <2>1. Page(50, 240) \in V
    BY <1>2 DEF V
  <2>2. QED
    BY <1>2, <1>3, <2>1 DEF V
<1>6. QED
  BY <1>3, <1>4, <1>5 DEF Definitions, V

\* What the pages are, of a device with properties.
ModeTypes ==
  /\ device \in [type : DeviceTypes, ready : BOOLEAN, properties : Definitions]
  /\ M!TypeOK
  /\ mode_answer.pages \in Seq(PageOf(M!KnownPages))
  /\ sent_back # "NO" => mode_status # "INVALID_FIELD_IN_PARAMETER_LIST" /\ sent_back = "SAME"

ModeInv == part = "MODE" => ModeTypes

\* The size given to a page is that of a property for it, or -1 if there is none.
LEMMA CustomizedSize ==
  ASSUME device.properties \in Seq(PropertyType), NEW p
  PROVE  \/ M!Customized(p) = -1
         \/ /\ M!Customized(p) \in Nat
            /\ \E i \in DOMAIN device.properties : device.properties[i].page = p
<1> DEFINE ps == device.properties
           for == {i \in DOMAIN ps : ps[i].page = p /\ M!IsValid(ps[i])}
           chosen == CHOOSE i \in for : \A j \in for : j <= i
<1>1. CASE for = {}
  BY <1>1 DEF M!Customized
<1>2. CASE for # {}
  <2>1. for \subseteq 0..Len(ps) /\ Len(ps) \in Nat
    OBVIOUS
  <2>2. \E i \in for : \A j \in for : j <= i
    BY <1>2, <2>1, Largest
  <2>3. chosen \in for
    BY <2>2
  <2>4. M!Customized(p) = ps[chosen].size
    BY <1>2 DEF M!Customized
  <2>5. chosen \in DOMAIN ps /\ ps[chosen].page = p
    BY <2>3
  <2>6. ps[chosen] \in PropertyType
    <3>1. chosen \in 1..Len(ps)
      BY <2>5
    <3>2. QED
      BY <3>1, ElementOfSeq
  <2>7. ps[chosen].size \in Nat
    BY <2>6 DEF PropertyType
  <2>8. QED
    BY <2>4, <2>5, <2>7
<1>3. QED
  BY <1>1, <1>2

\* The default pages have numbers and sizes.
LEMMA DefaultPageTypes ==
  ASSUME NEW type \in {"HD", "CD", "MO", "TAPE", "HOST"}
  PROVE  \A p \in DOMAIN M!DefaultPages(type) : p \in Nat /\ M!DefaultPages(type)[p] \in Nat
<1> DEFINE table == M!PagesOf(type)
<1>1. \A t \in table : t[1] \in Nat /\ t[2] \in Nat
  BY DEF M!PagesOf, M!DiskPages, M!StoragePages
<1> HIDE DEF table
<1>2. ASSUME NEW p \in {t[1] : t \in table}
      PROVE  p \in Nat /\ (CHOOSE t \in table : t[1] = p)[2] \in Nat
  <2>1. (CHOOSE t \in table : t[1] = p) \in table
    OBVIOUS
  <2>2. QED
    BY <1>1, <2>1
<1>3. M!DefaultPages(type) = [p \in {t[1] : t \in table} |-> (CHOOSE t \in table : t[1] = p)[2]]
  BY DEF M!DefaultPages, table
<1>4. QED
  BY <1>2, <1>3

\* Whichever pages are asked for, each is one of the pages that MODE SELECT knows, of the size it
\* knows, which is that of the property if there is one.
LEMMA PagesAreKnown ==
  ASSUME device.type \in {"HD", "CD", "MO", "TAPE", "HOST"},
         device.properties \in Seq(PropertyType), NEW code
  PROVE  /\ PageOf(M!PagesFor(code)) \subseteq PageOf(M!KnownPages)
         /\ \A p \in DOMAIN M!KnownPages :
              /\ p \in Nat /\ M!KnownPages[p] \in Nat
              /\ LET n == M!Customized(p) IN n = -1 \/ (n > 0 /\ M!KnownPages[p] = n)
<1> DEFINE d == M!DefaultPages(device.type)
           Custom == M!Custom
           N_(p) == M!Customized(p)
           Pages(c) == {p \in DOMAIN d : c \in {p, 63} /\ N_(p) # 0} \cup Custom
           SizeOf(p) == IF p \in Custom THEN N_(p) ELSE d[p]
<1>1. \A c : M!PagesFor(c) = [p \in Pages(c) |-> SizeOf(p)]
  BY DEF M!PagesFor, M!ALL_PAGES
<1>2. M!KnownPages = [p \in Pages(63) |-> SizeOf(p)]
  BY <1>1 DEF M!KnownPages, M!ALL_PAGES
<1>3. Pages(code) \subseteq Pages(63)
  OBVIOUS
<1>4. \A p \in Custom : N_(p) > 0 /\ p \in {device.properties[i].page : i \in DOMAIN device.properties}
  BY DEF M!Custom
<1>5. \A p \in {device.properties[i].page : i \in DOMAIN device.properties} : p \in Nat
  <2>1. \A i \in DOMAIN device.properties : device.properties[i] \in PropertyType
    BY ElementOfSeq
  <2>2. \A x \in PropertyType : x.page \in Nat
    BY DEF PropertyType
  <2>3. QED
    BY <2>1, <2>2
<1>6. \A p : N_(p) > 0 /\ (\E i \in DOMAIN device.properties : device.properties[i].page = p) => p \in Custom
  BY DEF M!Custom
<1>7. \A p : N_(p) = -1 \/ (N_(p) \in Nat /\ \E i \in DOMAIN device.properties : device.properties[i].page = p)
  BY CustomizedSize
<1>8. \A p \in DOMAIN d : p \in Nat /\ d[p] \in Nat
  BY DefaultPageTypes
<1> HIDE DEF d, Custom, N_
<1>9. ASSUME NEW p \in Pages(63)
      PROVE  p \in Nat /\ SizeOf(p) \in Nat /\ (N_(p) = -1 \/ (N_(p) > 0 /\ SizeOf(p) = N_(p)))
  <2>1. CASE p \in Custom
    BY <2>1, <1>4, <1>5, <1>7
  <2>2. CASE p \notin Custom
    <3>1. p \in DOMAIN d /\ N_(p) # 0
      BY <2>2
    <3>2. N_(p) = -1
      BY <1>6, <1>7, <2>2, <3>1
    <3>3. QED
      BY <1>8, <2>2, <3>1, <3>2
  <2>3. QED
    BY <2>1, <2>2
<1>10. PageOf(M!PagesFor(code)) \subseteq PageOf(M!KnownPages)
  BY <1>1, <1>2, <1>3 DEF PageOf
<1>11. QED
  BY <1>2, <1>9, <1>10 DEF N_
\* MODE SENSE returns pages the device knows.
LEMMA SenseStep ==
  ASSUME DevicesAssumption, ModeTypes, NEW six \in BOOLEAN, NEW dbd \in BOOLEAN,
         NEW long \in BOOLEAN,
         NEW code \in Codes, NEW allocation \in Allocations,
         M!ModeSense(six, code, dbd, long, allocation)
  PROVE  ModeTypes'
<1> DEFINE K == M!KnownPages
           pages == M!InOrder(M!PagesFor(code))
           offset == M!Header(six) + IF dbd \/ ~device.ready THEN 0 ELSE IF long /\ ~six THEN 16 ELSE 8
           whole == offset + M!Size(pages)
<1>1. /\ device.type \in {"HD", "CD", "MO", "TAPE", "HOST"} /\ device.ready \in BOOLEAN
      /\ device.properties \in Seq(PropertyType)
  BY DefinitionTypes DEF ModeTypes, DevicesAssumption
<1>2. /\ PageOf(M!PagesFor(code)) \subseteq PageOf(K)
      /\ \A p \in DOMAIN K : p \in Nat /\ K[p] \in Nat
  BY <1>1, PagesAreKnown
<1>3. pages \in Seq(PageOf(M!PagesFor(code)))
  BY PagesInOrder
<1>4. pages \in Seq(PageOf(K))
  BY <1>2, <1>3, SeqMonotonic
<1>5. PageOf(K) \subseteq PageType
  BY <1>2 DEF PageOf, PageType
<1>6. pages \in Seq(PageType)
  BY <1>4, <1>5, SeqMonotonic
<1>7. M!Size(pages) \in Nat
  BY <1>6, SizeOfPages DEF PageType
<1>8. offset \in {4, 8, 12, 16, 24}
  BY <1>1 DEF M!Header
<1>9. whole \in Nat /\ offset \in Nat /\ allocation \in Nat
  BY <1>7, <1>8 DEF DevicesAssumption
<1>10. UNCHANGED <<device, mode_block>> /\ sent_back' = "NO"
  BY DEF M!ModeSense
<1>11. \/ mode_status' = "INVALID_FIELD_IN_CDB" /\ UNCHANGED mode_answer
       \/ /\ mode_status' = "GOOD"
          /\ \E ps \in {<<>>, pages}, n \in {offset, allocation, whole}, w \in {offset, whole}, b \in {0, mode_block} :
               mode_answer' = [offset |-> offset, pages |-> ps, length |-> n, whole |-> w, sector |-> b]
  BY DEF M!ModeSense
<1> HIDE DEF offset, whole, pages, K
<1>12. K' = K
  BY <1>10
     DEF K, M!KnownPages, M!PagesFor, M!Custom, M!Customized, M!DefaultPages, M!PagesOf,
         M!DiskPages,
               M!StoragePages, M!IsValid
<1>13. /\ mode_answer'.pages \in Seq(PageOf(K)) /\ mode_answer'.length \in Nat
       /\ mode_answer'.offset \in {0, 4, 8, 12, 16, 24}
  <2>1. CASE UNCHANGED mode_answer
    BY <2>1 DEF ModeTypes, M!TypeOK, K
  <2>2. ASSUME NEW ps \in {<<>>, pages}, NEW n \in {offset, allocation, whole}, NEW w, NEW b,
               mode_answer' = [offset |-> offset, pages |-> ps, length |-> n, whole |-> w, sector |-> b]
        PROVE  /\ mode_answer'.pages \in Seq(PageOf(K)) /\ mode_answer'.length \in Nat
               /\ mode_answer'.offset \in {0, 4, 8, 12, 16, 24}
    <3>1. mode_answer'.pages = ps /\ mode_answer'.length = n /\ mode_answer'.offset = offset
      BY <2>2
    <3>2. ps \in Seq(PageOf(K))
      <4>1. <<>> \in Seq(PageOf(K))
        OBVIOUS
      <4>2. QED
        BY <1>4, <2>2, <4>1
    <3>3. n \in Nat
      BY <1>9
    <3>4. QED
      BY <1>8, <3>1, <3>2, <3>3
  <2>3. QED
    BY <1>11, <2>1, <2>2
<1>14. mode_status' \in {"GOOD", "INVALID_FIELD_IN_CDB"}
  BY <1>11
<1>15. M!TypeOK'
  BY <1>10, <1>13, <1>14 DEF ModeTypes, M!TypeOK
<1>16. QED
  BY <1>10, <1>12, <1>13, <1>15 DEF ModeTypes, K

\* What comes after a page in a list has at least its size.
LEMMA PageLeft ==
  ASSUME NEW q, q \in Seq(PageType), NEW i \in DOMAIN q
  PROVE  q[i].size <= M!Size(SubSeq(q, i, Len(q))) /\ M!Size(SubSeq(q, i, Len(q))) \in Nat
<1> DEFINE V == PageType
           t == SubSeq(q, i, Len(q))
<1>1. q \in Seq(V) /\ i \in 1..Len(q) /\ Len(q) \in Nat
  OBVIOUS
<1> HIDE DEF V
<1>2. t \in Seq(V) /\ Len(t) = Len(q) - i + 1 /\ \A j \in 1..Len(q) - i + 1 : t[j] = q[i + j - 1]
  <2>1. i \in Int /\ Len(q) \in Int /\ i <= Len(q)
    BY <1>1
  <2>2. \A j \in i..Len(q) : q[j] \in V
    BY <1>1, ElementOfSeq
  <2>3. t \in Seq(V)
    BY <2>1, <2>2, SubSeqProperties
  <2>4. Len(t) = Len(q) - i + 1
    BY <2>1, <2>2, SubSeqProperties
  <2>5. \A j \in 1..Len(q) - i + 1 : t[j] = q[i + j - 1]
    BY <2>1, <2>2, SubSeqProperties
  <2>6. QED
    BY <2>3, <2>4, <2>5
<1>3. Len(t) # 0 /\ t[1] = q[i]
  BY <1>1, <1>2
<1> HIDE DEF t
<1>4. t # <<>>
  BY <1>3
<1>5. M!Size(t) \in Nat /\ t[1].size <= M!Size(t)
  BY <1>2, <1>4, SizeOfPages DEF V, PageType
<1>6. QED
  BY <1>3, <1>5 DEF t

\* MODE SELECT finds nothing wrong with pages that were received and may be set.
LEMMA NothingWrong ==
  ASSUME DevicesAssumption, ModeTypes, NEW l, M!SendsBack(l)
  PROVE  M!PageError(l, mode_block) # "INVALID_FIELD_IN_PARAMETER_LIST"
<1> DEFINE K == M!KnownPages
           q == l.pages
           Left(i) == M!Size(SubSeq(q, i, Len(q))) - l.cut
           Bad(i) == LET p == l.pages[i] IN
             CASE p.code \notin DOMAIN K          -> "INVALID_FIELD_IN_PARAMETER_LIST"
               [] Left(i) < 2                     -> "PARAMETER_LIST_LENGTH_ERROR"
               [] K[p.code] # M!Told(p) \/ M!Told(p) > Left(i) -> "INVALID_FIELD_IN_PARAMETER_LIST"
               [] ~M!Settable(p, l, mode_block)   -> "INVALID_FIELD_IN_PARAMETER_LIST"
               [] OTHER                           -> "GOOD"
           end == {i \in DOMAIN q : Left(i) <= 0 \/ (q[i].code = 0 /\ 0 \in DOMAIN K)}
           errors == {i \in DOMAIN q : Bad(i) # "GOOD" /\ \A j \in end : i < j}
           first == CHOOSE i \in errors : \A j \in errors : i <= j
<1>1. M!PageError(l, mode_block) = IF errors = {} THEN "GOOD" ELSE Bad(first)
  BY DEF M!PageError
<1>2. /\ q \in Seq(PageOf(K)) /\ l.cut = 0
      /\ \A i \in DOMAIN q : M!Settable(q[i], l, mode_block) /\ M!Told(q[i]) = q[i].size
  BY DEF M!SendsBack, ModeTypes
<1>3. \A p \in DOMAIN K : p \in Nat /\ K[p] \in Nat
  <2>1. /\ device.type \in {"HD", "CD", "MO", "TAPE", "HOST"}
        /\ device.properties \in Seq(PropertyType)
    BY DefinitionTypes DEF ModeTypes, DevicesAssumption
  <2>2. QED
    BY <2>1, PagesAreKnown
<1> HIDE DEF K
<1>4. PageOf(K) \subseteq PageType
  BY <1>3 DEF PageOf, PageType
<1>5. q \in Seq(PageType)
  <2>1. q \in Seq(PageOf(K))
    BY <1>2
  <2>2. QED
    BY <1>4, <2>1, SeqMonotonic
<1>6. ASSUME NEW i \in DOMAIN q
      PROVE  Bad(i) \in {"GOOD", "PARAMETER_LIST_LENGTH_ERROR"}
  <2>1. q[i] \in PageOf(K)
    <3>1. i \in 1..Len(q)
      BY <1>2, SMTT(30)
    <3>2. QED
      BY <1>2, <3>1, ElementOfSeq
  <2>2. q[i].code \in DOMAIN K /\ K[q[i].code] = q[i].size /\ q[i].size \in Nat
    BY <1>3, <2>1 DEF PageOf
  <2>3. Left(i) \in Int /\ q[i].size <= Left(i)
    <3>1. q[i].size <= M!Size(SubSeq(q, i, Len(q))) /\ M!Size(SubSeq(q, i, Len(q))) \in Nat
      BY <1>5, PageLeft
    <3>2. QED
      BY <1>2, <3>1, SMTT(30)
  <2> HIDE DEF Left
  <2>4. M!Told(q[i]) = q[i].size /\ M!Settable(q[i], l, mode_block)
    BY <1>2
  <2>5. ~(K[q[i].code] # M!Told(q[i]) \/ M!Told(q[i]) > Left(i))
    BY <2>2, <2>3, <2>4
  <2>6. QED
    BY <2>2, <2>4, <2>5
<1>7. ASSUME errors # {}
      PROVE  first \in DOMAIN q
  <2>1. errors \subseteq Nat
    <3>1. DOMAIN q \subseteq Nat
      BY <1>5, SMTT(30)
    <3>2. QED
      BY <3>1
  <2>2. \E i \in errors : \A j \in errors : i <= j
    BY <1>7, <2>1, Smallest
  <2>3. first \in errors
    BY <2>2
  <2>4. QED
    BY <2>3
<1>8. QED
  BY <1>1, <1>6, <1>7

\* What is sent back is accepted and changes nothing.
LEMMA SelectStep ==
  ASSUME DevicesAssumption, ModeTypes, NEW l \in M!Lists, NEW pf \in BOOLEAN, NEW save \in BOOLEAN,
         M!ModeSelect(l, pf, save)
  PROVE  ModeTypes'
<1>1. UNCHANGED <<device, mode_answer>>
  BY DEF M!ModeSelect
<1>2. l.size \in BlockSizes \cup {0}
  BY DEF M!Lists
<1>3. \A b : M!PageError(l, b) \in {"GOOD", "INVALID_FIELD_IN_PARAMETER_LIST", "PARAMETER_LIST_LENGTH_ERROR"}
  BY DEF M!PageError
<1>4. \/ mode_block' = mode_block
      \/ mode_block' = l.size /\ l.size # 0
  BY DEF M!ModeSelect
<1>5. \/ mode_status' \in {"INVALID_FIELD_IN_CDB", "BROKEN_OFF", "GOOD"}
      \/ /\ mode_status' = "INVALID_FIELD_IN_PARAMETER_LIST"
         /\ l.size # 0 /\ l.size # mode_block
      \/ /\ mode_status' = M!PageError(l, mode_block')
         /\ mode_block' = IF l.size = 0 THEN mode_block ELSE l.size
  BY DEF M!ModeSelect
<1>6. M!TypeOK'
  BY <1>1, <1>2, <1>3, <1>4, <1>5 DEF ModeTypes, M!TypeOK
<1>7. ASSUME M!SendsBack(l)
      PROVE  mode_block' = mode_block /\ mode_status' # "INVALID_FIELD_IN_PARAMETER_LIST"
  <2>1. l.size \in {0, mode_block}
    BY <1>7 DEF M!SendsBack
  <2>2. mode_block' = mode_block
    BY <1>4, <2>1
  <2>3. M!PageError(l, mode_block) # "INVALID_FIELD_IN_PARAMETER_LIST"
    BY <1>7, NothingWrong
  <2>4. QED
    BY <1>5, <2>1, <2>2, <2>3
<1>8. sent_back' = IF ~M!SendsBack(l) THEN "NO" ELSE IF mode_block' = mode_block THEN "SAME" ELSE "CHANGED"
  BY DEF M!ModeSelect
<1>9. M!KnownPages' = M!KnownPages
  BY <1>1
     DEF M!KnownPages, M!PagesFor, M!Custom, M!Customized, M!DefaultPages, M!PagesOf, M!DiskPages,
              M!StoragePages, M!IsValid
<1>10. QED
  BY <1>1, <1>6, <1>7, <1>8, <1>9 DEF ModeTypes

\* The other parts leave the pages alone.
LEMMA OtherThanMode ==
  ASSUME [Next]_vars
  PROVE  \/ UNCHANGED <<part, mode_vars>>
         \/ part = "MODE" /\ M!Next /\ UNCHANGED part
BY DEF Next, vars, Transfer, Host, Spool, Net, Generic, Disk, TapeCopy, Simh, Exec, Mode, Config

LEMMA ModeInitially == DevicesAssumption /\ Init => ModeInv
<1> SUFFICES ASSUME DevicesAssumption, Init, part = "MODE"
             PROVE  ModeTypes
  BY DEF ModeInv
<1>1. M!Init
  BY DEF Init
<1>2. mode_answer.pages = <<>> /\ mode_answer.length = 0 /\ mode_answer.offset = 0
  BY <1>1 DEF M!Init, M!NoAnswer
<1>3. <<>> \in Seq(PageOf(M!KnownPages))
  OBVIOUS
<1>4. QED
  BY <1>1, <1>2, <1>3 DEF M!Init, ModeTypes, M!TypeOK

LEMMA ModeStep == DevicesAssumption /\ ModeInv /\ [Next]_vars => ModeInv'
<1> SUFFICES ASSUME DevicesAssumption, ModeInv, [Next]_vars
             PROVE  ModeInv'
  OBVIOUS
<1>1. CASE UNCHANGED <<part, mode_vars>>
  <2>1. UNCHANGED <<part, device, mode_block, mode_answer, mode_status, sent_back>>
    BY <1>1 DEF mode_vars
  <2>2. M!KnownPages' = M!KnownPages
    BY <2>1
       DEF M!KnownPages, M!PagesFor, M!Custom, M!Customized, M!DefaultPages, M!PagesOf,
           M!DiskPages,
                M!StoragePages, M!IsValid
  <2>3. QED
    BY <2>1, <2>2 DEF ModeInv, ModeTypes, M!TypeOK
<1>2. CASE part = "MODE" /\ M!Next /\ UNCHANGED part
  BY <1>2, SenseStep, SelectStep DEF ModeInv, M!Next
<1>3. QED
  BY <1>1, <1>2, OtherThanMode

\* What was received is known with the size of its property.
LEMMA AcceptedPages == DevicesAssumption /\ ModeInv => PagesAccepted
<1> SUFFICES ASSUME DevicesAssumption, ModeTypes
             PROVE  M!PagesAccepted
  BY DEF ModeInv, PagesAccepted
<1> DEFINE K == M!KnownPages
           q == mode_answer.pages
<1>1. /\ device.type \in {"HD", "CD", "MO", "TAPE", "HOST"}
      /\ device.properties \in Seq(PropertyType)
  BY DefinitionTypes DEF ModeTypes, DevicesAssumption
<1>2. \A p \in DOMAIN K : LET n == M!Customized(p) IN n = -1 \/ (n > 0 /\ K[p] = n)
  BY <1>1, PagesAreKnown
<1>3. q \in Seq(PageOf(K))
  BY DEF ModeTypes
<1> HIDE DEF K
<1>4. ASSUME NEW i \in DOMAIN q
      PROVE  LET n == M!Customized(q[i].code) IN n = -1 \/ (n > 0 /\ q[i].size = n)
  <2>1. q[i] \in PageOf(K)
    <3>1. i \in 1..Len(q)
      BY <1>3, SMTT(30)
    <3>2. QED
      BY <1>3, <3>1, ElementOfSeq
  <2>2. q[i].code \in DOMAIN K /\ K[q[i].code] = q[i].size
    BY <2>1 DEF PageOf
  <2>3. QED
    BY <1>2, <2>2
<1>5. QED
  BY <1>4 DEF M!PagesAccepted, ModeTypes

\* MODE SELECT accepts the pages that MODE SENSE has returned, whatever properties have made of them
\* (page_handler.cpp:43-103, storage_device.cpp:146-201).
THEOREM PagesAreAccepted == Spec => []PagesAccepted
<1>1. Init => ModeInv
  BY ModeInitially, DevicesAssumption
<1>2. ModeInv /\ [Next]_vars => ModeInv'
  BY ModeStep, DevicesAssumption
<1>3. ModeInv => PagesAccepted
  BY AcceptedPages, DevicesAssumption
<1>4. QED
  BY <1>1, <1>2, <1>3, PTL DEF Spec

(* s2pdump with a tape. *)

TapeObject == [kind : {"RECORD", "BAD", "MARK"}, length : Nat]
FileObject == [kind : {"RECORD", "BAD", "MARK", "OTHER"}, length : Nat, from : Nat]

\* The values of the variables.  The head has passed the object that was read, if there was one.
TapeTypes ==
  /\ driver \in {"BOARD", "SG"} /\ has_error \in BOOLEAN /\ stopped \in BOOLEAN
  /\ tape \in Seq(TapeObject) /\ file \in Seq(FileObject)
  /\ position \in 0..Len(tape) /\ default_length \in Nat /\ glitches \in 0..MaxGlitches
  /\ read_objects \in 0..Len(file)
  /\ tape_step \in {"REWIND", "READ", "SENSE", "SPACE", "BETWEEN", "RESTORE", "DONE", "ERROR"}
  /\ tape_step \in {"REWIND", "READ", "SENSE", "SPACE"} => read_objects = 0 /\ target = <<>> /\ tape # <<>>
  /\ tape_step = "SENSE" => answer \in {"GOOD", "ILI", "FILEMARK", "MEDIUM_ERROR", "GLITCH", "BLANK_CHECK"}
  /\ tape_step = "SPACE" \/ (tape_step = "SENSE" /\ answer \in {"GOOD", "ILI", "FILEMARK", "MEDIUM_ERROR"}) =>
       position > 0

\* What was read is the object at the head.
ReadIs ==
  LET o == tape[position] IN
  CASE answer = "GOOD"         -> o.kind # "MARK" /\ o.length = default_length
    [] answer = "ILI"          -> o.kind # "MARK" /\ o.length # default_length
    [] answer = "FILEMARK"     -> o.kind = "MARK"
    [] answer = "MEDIUM_ERROR" -> o.kind = "BAD"

\* The file has the objects before the head, except the one that is being read.
TapeFollowed ==
  /\ Len(file) <= Len(tape) /\ \A i \in 1..Len(file) : file[i] \in E!ImageOf(i)
  /\ tape_step = "REWIND" => file = <<>> /\ position = 0
  /\ tape_step = "READ" => position = Len(file)
  /\ tape_step = "SPACE" => position = Len(file) + 1
  /\ tape_step = "SENSE" =>
       \/ answer = "BLANK_CHECK" /\ position = Len(file) /\ position = Len(tape)
       \/ answer \in {"GOOD", "ILI", "FILEMARK", "MEDIUM_ERROR"} /\ position = Len(file) + 1 /\ ReadIs
  /\ tape_step \in {"BETWEEN", "RESTORE"} => Len(file) = Len(tape)

\* Objects of the file were restored in their order, if none of them led the tool astray.
TapeRestored ==
  IF read_objects = 0 THEN target = <<>>
  ELSE (\A i \in 1..read_objects : ~E!Derails(file[i])) => target = E!Restorable[read_objects]

TapeSafe == TapeTypes /\ (glitches = 0 /\ tape # <<>> => TapeFollowed) /\ TapeRestored
TapeInv == part = "TAPE" => TapeSafe

\* What the tapes and image files of the model are.
LEMMA TapeValues ==
  /\ \A x \in Tapes : x \in Seq(TapeObject) /\ x # <<>>
  /\ \A x \in Files : x \in Seq([kind : {"RECORD", "MARK", "OTHER"}, length : Nat])
<1>1. ASSUME NEW V, NEW x \in Upto(2, V)
      PROVE  x \in Seq(V) /\ x # <<>>
  <2>1. PICK k \in 1..2 : x \in [1..k -> V]
    BY DEF Upto
  <2>2. QED
    BY <2>1
<1>2. ASSUME NEW V, NEW W, V \subseteq W, NEW x \in Upto(2, V)
      PROVE  x \in Seq(W) /\ x # <<>>
  BY <1>1, <1>2, SeqMonotonic
<1> DEFINE A == [kind : {"RECORD", "BAD"}, length : 1..3] \cup [kind : {"MARK"}, length : {0}]
           B == [kind : {"RECORD"}, length : {1, 2}] \cup [kind : {"MARK"}, length : {0}]
                  \cup [kind : {"OTHER"}, length : {2}]
           D_ == [kind : {"RECORD", "MARK", "OTHER"}, length : Nat]
<1>3. A \subseteq TapeObject /\ B \subseteq D_
  BY DEF TapeObject
<1>4. Tapes = Upto(2, A) /\ Files = Upto(2, B)
  BY DEF Tapes, Files
<1> HIDE DEF A, B, D_
<1>5. (\A x \in Upto(2, A) : x \in Seq(TapeObject) /\ x # <<>>) /\ \A x \in Upto(2, B) : x \in Seq(D_)
  BY <1>2, <1>3
<1>6. QED
  BY <1>4, <1>5 DEF D_

\* The objects without the bad blocks, one after the other.
LEMMA RestorableIs ==
  ASSUME file \in Seq(FileObject)
  PROVE  /\ E!Restorable[0] = <<>>
         /\ \A n \in 1..Len(file) :
              E!Restorable[n] = IF file[n].kind = "BAD" THEN E!Restorable[n - 1]
                                ELSE Append(E!Restorable[n - 1], file[n])
<1> DEFINE n == Len(file)
           V == Seq(FileObject)
           h == [x \in V \X (1..n) |-> IF file[x[2]].kind = "BAD" THEN x[1] ELSE Append(x[1], file[x[2]])]
           F == E!Restorable
<1>1. n \in Nat /\ <<>> \in V /\ \A i \in 1..n : file[i] \in FileObject
  BY ElementOfSeq
<1>2. F = CHOOSE f : f = [i \in 0..n |->
            IF i = 0 THEN <<>>
            ELSE IF file[i].kind = "BAD" THEN f[i - 1] ELSE Append(f[i - 1], file[i])]
  BY DEF E!Restorable
<1> HIDE DEF n, F
<1>3. ASSUME NEW v \in V, NEW i \in 1..n
      PROVE  /\ h[<<v, i>>] = IF file[i].kind = "BAD" THEN v ELSE Append(v, file[i])
             /\ h[<<v, i>>] \in V
  <2>1. h[<<v, i>>] = IF file[i].kind = "BAD" THEN v ELSE Append(v, file[i])
    OBVIOUS
  <2>2. Append(v, file[i]) \in Seq(FileObject)
    BY <1>1, AppendProperties
  <2>3. QED
    BY <2>1, <2>2
<1> HIDE DEF h, V
<1>4. Closed(h, V, n)
  BY <1>3 DEF Closed
<1>5. PICK f \in [0..n -> V] : Iterates(f, <<>>, h, n)
  BY <1>1, <1>4, Recursion
<1>6. f = [i \in 0..n |->
             IF i = 0 THEN <<>>
             ELSE IF file[i].kind = "BAD" THEN f[i - 1] ELSE Append(f[i - 1], file[i])]
  <2>1. ASSUME NEW i \in 0..n
        PROVE  f[i] = IF i = 0 THEN <<>>
                      ELSE IF file[i].kind = "BAD" THEN f[i - 1] ELSE Append(f[i - 1], file[i])
    <3>1. CASE i = 0
      BY <1>5, <3>1 DEF Iterates
    <3>2. CASE i # 0
      <4>1. i \in 1..n /\ i - 1 \in 0..n
        BY <1>1, <3>2
      <4>2. f[i] = h[<<f[i - 1], i>>] /\ f[i - 1] \in V
        BY <1>5, <4>1 DEF Iterates
      <4>3. QED
        BY <1>3, <3>2, <4>1, <4>2
    <3>3. QED
      BY <3>1, <3>2
  <2>2. QED
    BY <2>1
<1>7. F = [i \in 0..n |->
             IF i = 0 THEN <<>>
             ELSE IF file[i].kind = "BAD" THEN F[i - 1] ELSE Append(F[i - 1], file[i])]
  BY <1>2, <1>6
<1>8. F[0] = <<>>
  BY <1>1, <1>7
<1>9. ASSUME NEW i \in 1..n
      PROVE  F[i] = IF file[i].kind = "BAD" THEN F[i - 1] ELSE Append(F[i - 1], file[i])
  <2>1. i \in 0..n /\ i # 0
    BY <1>1
  <2>2. QED
    BY <1>7, <2>1
<1>10. QED
  BY <1>8, <1>9 DEF n, F

\* An object is written to the file, or the tool ends.
LEMMA ObjectWritten ==
  ASSUME TapeTypes, NEW o \in FileObject, E!Object(o)
  PROVE  /\ file' \in Seq(FileObject) /\ has_error' = FALSE
         /\ \/ file' = file /\ tape_step' = "ERROR"
            \/ /\ Len(file') = Len(file) + 1 /\ file'[Len(file) + 1] = o
               /\ \A i \in 1..Len(file) : file'[i] = file[i]
               /\ tape_step' \in {"READ", "DONE"}
<1>1. file \in Seq(FileObject)
  BY DEF TapeTypes
<1>2. /\ Append(file, o) \in Seq(FileObject) /\ Len(Append(file, o)) = Len(file) + 1
      /\ Append(file, o)[Len(file) + 1] = o
      /\ \A i \in 1..Len(file) : Append(file, o)[i] = file[i]
  BY <1>1, AppendProperties
<1>3. QED
  BY <1>1, <1>2 DEF E!Object

\* A READ ends with an answer about the object at the head.
LEMMA TapeRead ==
  ASSUME TapeTypes, E!Read
  PROVE  /\ tape_step = "READ" /\ tape_step' = "SENSE" /\ position' \in 0..Len(tape)
         /\ UNCHANGED <<driver, tape, default_length, has_error, file, read_objects, target, stopped>>
         /\ \/ answer' = "GLITCH" /\ glitches' = glitches + 1 /\ glitches' <= MaxGlitches
            \/ /\ glitches' = glitches
               /\ \/ answer' = "BLANK_CHECK" /\ position' = position /\ position = Len(tape)
                  \/ /\ answer' \in {"GOOD", "ILI", "FILEMARK", "MEDIUM_ERROR"}
                     /\ position' = position + 1 /\ ReadIs'
<1>1. PICK a \in E!Answers :
        /\ a.answer = "GLITCH" => glitches < MaxGlitches
        /\ glitches' = IF a.answer = "GLITCH" THEN glitches + 1 ELSE glitches
        /\ answer' = a.answer /\ position' = a.position
  BY DEF E!Read
<1>2. UNCHANGED <<driver, tape, default_length, has_error, file, read_objects, target, stopped>>
      /\ tape_step = "READ" /\ tape_step' = "SENSE"
  BY DEF E!Read, E!restoring
<1>3. tape \in Seq(TapeObject) /\ position \in 0..Len(tape) /\ Len(tape) \in Nat /\ glitches \in Nat
  BY DEF TapeTypes
<1>4. CASE a = [answer |-> "GLITCH", position |-> position]
  BY <1>1, <1>2, <1>3, <1>4, TapeBounds
<1>5. CASE a = [answer |-> "BLANK_CHECK", position |-> position] /\ position = Len(tape)
  BY <1>1, <1>2, <1>3, <1>5
<1>6. ASSUME NEW o, o = tape[position + 1], position # Len(tape),
             \/ o.kind = "MARK" /\ a = [answer |-> "FILEMARK", position |-> position + 1]
             \/ o.kind = "BAD" /\ a = [answer |-> "MEDIUM_ERROR", position |-> position + 1]
             \/ o.kind # "MARK" /\ a = [answer |-> IF o.length = default_length THEN "GOOD" ELSE "ILI",
                                        position |-> position + 1]
      PROVE  /\ answer' \in {"GOOD", "ILI", "FILEMARK", "MEDIUM_ERROR"} /\ glitches' = glitches
             /\ position' = position + 1 /\ position' \in 0..Len(tape) /\ ReadIs'
  <2>1. position' = position + 1 /\ position' \in 0..Len(tape)
    BY <1>1, <1>3, <1>6
  <2>2. tape'[position'] = o /\ default_length' = default_length
    BY <1>2, <1>6, <2>1
  <2>3. \/ o.kind = "MARK" /\ answer' = "FILEMARK"
        \/ o.kind = "BAD" /\ answer' = "MEDIUM_ERROR"
        \/ o.kind # "MARK" /\ answer' = IF o.length = default_length THEN "GOOD" ELSE "ILI"
    BY <1>1, <1>6
  <2>4. glitches' = glitches
    BY <1>1, <2>3
  <2>5. ReadIs'
    BY <2>2, <2>3 DEF ReadIs
  <2>6. QED
    BY <2>1, <2>3, <2>4, <2>5
<1>7. QED
  BY <1>1, <1>2, <1>4, <1>5, <1>6 DEF E!Answers

\* What the sense data lead to: the end, another attempt, or the object that was read.
SenseLeads ==
  /\ tape_step = "SENSE" /\ default_length' \in Nat /\ file' \in Seq(FileObject) /\ has_error' \in BOOLEAN
  /\ UNCHANGED <<driver, tape, position, answer, read_objects, target, stopped, glitches>>
  /\ \/ file' = file /\ tape_step' = "ERROR"
     \/ answer = "BLANK_CHECK" /\ file' = file /\ tape_step' = "BETWEEN"
     \/ answer \in {"MEDIUM_ERROR", "ILI"} /\ file' = file /\ tape_step' = "SPACE"
     \/ /\ Len(file') = Len(file) + 1 /\ \A i \in 1..Len(file) : file'[i] = file[i]
        /\ tape_step' \in {"READ", "DONE"} /\ answer # "BLANK_CHECK"
        /\ answer # "GLITCH" /\ ReadIs => file'[Len(file) + 1] \in E!ImageOf(position)

LEMMA TapeSense ==
  ASSUME TapeTypes, E!Sense
  PROVE  SenseLeads
<1>1. /\ tape_step = "SENSE"
      /\ UNCHANGED <<driver, tape, position, answer, read_objects, target, stopped, glitches>>
  BY DEF E!Sense, E!restoring
<1>2. /\ answer \in {"GOOD", "ILI", "FILEMARK", "MEDIUM_ERROR", "GLITCH", "BLANK_CHECK"}
      /\ default_length \in Nat /\ has_error \in BOOLEAN /\ file \in Seq(FileObject)
      /\ position \in Nat
  BY <1>1 DEF TapeTypes
<1>3. answer \in {"GOOD", "ILI", "FILEMARK", "MEDIUM_ERROR"} => tape[position] \in TapeObject
  <2>1. ASSUME position > 0
        PROVE  tape[position] \in TapeObject
    <3>1. tape \in Seq(TapeObject) /\ position \in 1..Len(tape)
      BY <2>1 DEF TapeTypes
    <3>2. QED
      BY <3>1, ElementOfSeq
  <2>2. QED
    BY <1>1, <2>1 DEF TapeTypes
<1>4. \A n, p \in Nat : E!Record(n, p) \in FileObject
  BY DEF E!Record, FileObject
<1>5. E!Mark \in FileObject /\ E!BadMark \in FileObject
  BY DEF E!Mark, E!BadMark, FileObject
<1>6. ASSUME NEW o \in FileObject, E!Object(o), default_length' \in Nat, answer # "BLANK_CHECK",
             answer # "GLITCH" /\ ReadIs => o \in E!ImageOf(position)
      PROVE  SenseLeads
  BY <1>1, <1>6, ObjectWritten DEF SenseLeads
<1>7. CASE answer = "GOOD" /\ E!Object(E!Record(default_length, position)) /\ UNCHANGED default_length
  <2>1. ReadIs => E!Record(default_length, position) \in E!ImageOf(position)
    BY <1>7 DEF ReadIs, E!ImageOf
  <2>2. QED
    BY <1>2, <1>4, <1>6, <1>7, <2>1
<1>8. CASE answer = "GLITCH" /\ E!Object(E!Garbage(OddLength)) /\ UNCHANGED default_length
  <2>1. E!Garbage(OddLength) \in FileObject
    BY <1>4, TapeBounds DEF E!Garbage
  <2>2. QED
    BY <1>2, <1>6, <1>8, <2>1
<1>9. CASE answer = "BLANK_CHECK" /\ tape_step' = "BETWEEN" /\ UNCHANGED <<file, has_error, default_length>>
  BY <1>1, <1>2, <1>9 DEF SenseLeads
<1>10. CASE answer = "FILEMARK" /\ E!Object(E!Mark) /\ UNCHANGED default_length
  <2>1. ReadIs => E!Mark \in E!ImageOf(position)
    BY <1>10 DEF ReadIs, E!ImageOf
  <2>2. QED
    BY <1>2, <1>5, <1>6, <1>10, <2>1
<1>11. CASE /\ answer = "MEDIUM_ERROR" /\ UNCHANGED default_length
            /\ IF has_error THEN E!Object(E!BadMark) ELSE has_error' = TRUE /\ E!Again
  <2>1. ReadIs => E!BadMark \in E!ImageOf(position)
    BY <1>11 DEF ReadIs, E!ImageOf
  <2>2. CASE E!Object(E!BadMark)
    BY <1>2, <1>5, <1>6, <1>11, <2>1, <2>2
  <2>3. CASE has_error' = TRUE /\ E!Again
    BY <1>1, <1>2, <1>11, <2>3 DEF E!Again, SenseLeads
  <2>4. QED
    BY <1>11, <2>2, <2>3
<1>12. CASE /\ answer = "ILI" /\ default_length' = E!Missed
            /\ IF E!Missed < default_length THEN E!Object(E!Record(E!Missed, position))
               ELSE E!Again /\ UNCHANGED has_error
  <2>1. E!Missed \in Nat
    BY <1>3, <1>12 DEF E!Missed, TapeObject
  <2>2. CASE E!Object(E!Record(E!Missed, position))
    <3>1. ReadIs => E!Record(E!Missed, position) \in E!ImageOf(position)
      BY <1>12 DEF ReadIs, E!ImageOf, E!Missed
    <3>2. QED
      BY <1>2, <1>4, <1>6, <1>12, <2>1, <2>2, <3>1
  <2>3. CASE E!Again /\ UNCHANGED has_error
    BY <1>1, <1>2, <1>12, <2>1, <2>3 DEF E!Again, SenseLeads
  <2>4. QED
    BY <1>12, <2>2, <2>3
<1>13. QED
  BY <1>7, <1>8, <1>9, <1>10, <1>11, <1>12 DEF E!Sense

\* A step that writes no object and reads none.
LEMMA TapeMoves ==
  ASSUME TapeTypes, E!Rewind \/ E!SpaceBack \/ E!Signal \/ E!StartRestore
  PROVE  /\ UNCHANGED <<driver, tape, default_length, has_error, answer, file, read_objects, target, glitches>>
         /\ stopped' \in BOOLEAN
         /\ \/ tape_step' = "ERROR" /\ position' = position
            \/ tape_step = "REWIND" /\ tape_step' = "READ" /\ position' = position
            \/ tape_step = "SPACE" /\ tape_step' = "READ" /\ position' = position - 1
            \/ tape_step' = tape_step /\ position' = position
            \/ tape_step = "BETWEEN" /\ tape_step' = "RESTORE" /\ position' = position
BY DEF E!Rewind, E!SpaceBack, E!Signal, E!StartRestore, E!restoring, TapeTypes

\* An answer that is about nothing on the tape ends an attempt.
LEMMA TapeStrays ==
  ASSUME TapeTypes, E!NoAnswer \/ E!ReadWithoutCode
  PROVE  /\ UNCHANGED <<driver, tape, position, default_length, answer, read_objects, target, stopped>>
         /\ glitches' = glitches + 1 /\ glitches < MaxGlitches
         /\ tape_step \in {"READ", "SENSE"} /\ has_error' = FALSE
         /\ file' \in Seq(FileObject) /\ tape_step' \in {"ERROR", "READ", "DONE"}
<1>1. \A n \in Nat : E!Garbage(n) \in FileObject
  BY DEF E!Garbage, E!Record, FileObject
<1>2. OddLength \in Nat /\ default_length \in Nat
  BY TapeBounds DEF TapeTypes
<1>3. \E o \in FileObject : E!Object(o)
  BY <1>1, <1>2 DEF E!NoAnswer, E!ReadWithoutCode
<1>4. file' \in Seq(FileObject) /\ tape_step' \in {"ERROR", "READ", "DONE"} /\ has_error' = FALSE
  BY <1>3, ObjectWritten
<1>5. QED
  BY <1>4 DEF E!NoAnswer, E!ReadWithoutCode, E!restoring

\* An object is restored.
LEMMA TapeRestores ==
  ASSUME TapeTypes, E!Restore
  PROVE  /\ UNCHANGED <<driver, tape, position, default_length, has_error, answer, file, stopped, glitches>>
         /\ tape_step = "RESTORE"
         /\ \/ tape_step' \in {"DONE", "ERROR"} /\ UNCHANGED <<read_objects, target>>
            \/ /\ read_objects < Len(file) /\ read_objects' = Len(file)
               /\ E!Derails(file[read_objects + 1]) /\ tape_step' \in {"RESTORE", "ERROR"}
            \/ /\ read_objects < Len(file) /\ read_objects' = read_objects + 1 /\ tape_step' = tape_step
               /\ target' = IF file[read_objects + 1].kind = "BAD" THEN target
                            ELSE Append(target, file[read_objects + 1])
<1>1. /\ UNCHANGED <<driver, tape, position, default_length, has_error, answer, file, stopped, glitches>>
      /\ tape_step = "RESTORE"
  BY DEF E!Restore
<1>2. CASE read_objects = Len(file)
  BY <1>1, <1>2 DEF E!Restore, E!restoring
<1>3. CASE read_objects # Len(file)
  <2> DEFINE o == file[read_objects + 1]
  <2>1. read_objects < Len(file) /\ read_objects + 1 \in 1..Len(file) /\ file \in Seq(FileObject)
    BY <1>3 DEF TapeTypes
  <2>2. o \in FileObject
    BY <2>1, ElementOfSeq
  <2>3. o.kind \in {"RECORD", "BAD", "MARK", "OTHER"}
    BY <2>2 DEF FileObject
  <2>4. \/ tape_step' = "ERROR" /\ UNCHANGED <<read_objects, target>>
        \/ /\ target' = IF o.kind \in {"RECORD", "MARK"} THEN Append(target, o) ELSE target
           /\ IF E!Derails(o) THEN read_objects' = Len(file) /\ tape_step' \in {"RESTORE", "ERROR"}
              ELSE read_objects' = read_objects + 1 /\ UNCHANGED tape_step
    BY <1>3 DEF E!Restore, E!restoring
  <2>5. o.kind = "OTHER" => E!Derails(o)
    BY DEF E!Derails
  <2>6. QED
    BY <1>1, <2>1, <2>3, <2>4, <2>5
<1>4. QED
  BY <1>2, <1>3

LEMMA TapeTypesKept ==
  ASSUME TapeTypes, E!Next
  PROVE  TapeTypes'
<1>1. CASE E!Rewind \/ E!SpaceBack \/ E!Signal \/ E!StartRestore
  BY <1>1, TapeMoves DEF TapeTypes
<1>2. CASE E!Read
  <2>1. tape \in Seq(TapeObject) /\ Len(tape) \in Nat /\ position \in 0..Len(tape) /\ glitches \in 0..MaxGlitches
        /\ MaxGlitches \in Nat
    BY TapeBounds DEF TapeTypes
  <2>2. glitches' \in 0..MaxGlitches
    BY <1>2, <2>1, TapeRead
  <2>3. QED
    BY <1>2, <2>1, <2>2, TapeRead DEF TapeTypes
<1>3. CASE E!Sense
  <2>1. SenseLeads
    BY <1>3, TapeSense
  <2>2. read_objects' \in 0..Len(file')
    BY <2>1 DEF SenseLeads, TapeTypes
  <2>3. QED
    BY <2>1, <2>2 DEF SenseLeads, TapeTypes
<1>4. CASE E!NoAnswer \/ E!ReadWithoutCode
  <2>1. read_objects' = 0 /\ Len(file') \in Nat /\ glitches' \in 0..MaxGlitches
    <3>1. /\ read_objects' = read_objects /\ file' \in Seq(FileObject) /\ tape_step \in {"READ", "SENSE"}
          /\ glitches' = glitches + 1 /\ glitches < MaxGlitches
      BY <1>4, TapeStrays
    <3>2. glitches \in 0..MaxGlitches /\ MaxGlitches \in Nat /\ read_objects = 0
      BY <3>1, TapeBounds DEF TapeTypes
    <3>3. QED
      BY <3>1, <3>2
  <2>2. /\ driver' = driver /\ tape' = tape /\ position' = position /\ default_length' = default_length
        /\ stopped' = stopped /\ has_error' = FALSE /\ file' \in Seq(FileObject) /\ target' = target
        /\ tape_step \in {"READ", "SENSE"} /\ tape_step' \in {"ERROR", "READ", "DONE"}
    BY <1>4, TapeStrays
  <2>3. target = <<>> /\ tape # <<>>
    BY <2>2 DEF TapeTypes
  <2>4. read_objects' \in 0..Len(file')
    BY <2>1
  <2>5. QED
    BY <2>1, <2>2, <2>3, <2>4 DEF TapeTypes
<1>5. CASE E!Restore
  <2>1. read_objects' \in 0..Len(file)
    BY <1>5, TapeRestores DEF TapeTypes
  <2>2. QED
    BY <1>5, <2>1, TapeRestores DEF TapeTypes
<1>6. QED
  BY <1>1, <1>2, <1>3, <1>4, <1>5 DEF E!Next

LEMMA TapeFollowedKept ==
  ASSUME TapeTypes, TapeFollowed, tape # <<>>, glitches' = 0, E!Next
  PROVE  TapeFollowed'
<1>1. /\ tape \in Seq(TapeObject) /\ Len(tape) \in Nat /\ position \in 0..Len(tape)
      /\ file \in Seq(FileObject) /\ Len(file) \in Nat /\ glitches \in Nat
  BY DEF TapeTypes
<1>2. tape' = tape
  BY DEF E!Next, E!Rewind, E!Read, E!Sense, E!SpaceBack, E!NoAnswer, E!ReadWithoutCode, E!Signal,
         E!StartRestore, E!Restore
<1>3. \A i : E!ImageOf(i)' = E!ImageOf(i)
  BY <1>2 DEF E!ImageOf, E!Mark, E!BadMark, E!Record
<1>4. CASE E!Rewind \/ E!SpaceBack \/ E!Signal \/ E!StartRestore
  <2>1. /\ answer' = answer /\ file' = file /\ default_length' = default_length
        /\ \/ tape_step' = "ERROR" /\ position' = position
           \/ tape_step = "REWIND" /\ tape_step' = "READ" /\ position' = position
           \/ tape_step = "SPACE" /\ tape_step' = "READ" /\ position' = position - 1
           \/ tape_step' = tape_step /\ position' = position
           \/ tape_step = "BETWEEN" /\ tape_step' = "RESTORE" /\ position' = position
    BY <1>4, TapeMoves
  <2>2. position' = position => ReadIs' = ReadIs
    BY <1>2, <2>1 DEF ReadIs
  <2>3. /\ Len(file') <= Len(tape') /\ \A i \in 1..Len(file') : file'[i] \in E!ImageOf(i)'
    BY <1>2, <1>3, <2>1 DEF TapeFollowed
  <2>4. QED
    BY <1>1, <1>2, <2>1, <2>2, <2>3 DEF TapeFollowed
<1>5. CASE E!Read
  <2>1. /\ UNCHANGED file /\ tape_step = "READ" /\ tape_step' = "SENSE"
        /\ \/ answer' = "BLANK_CHECK" /\ position' = position /\ position = Len(tape)
           \/ /\ answer' \in {"GOOD", "ILI", "FILEMARK", "MEDIUM_ERROR"}
              /\ position' = position + 1 /\ position' \in 0..Len(tape) /\ ReadIs'
    BY <1>1, <1>5, TapeRead
  <2>2. QED
    BY <1>1, <1>2, <1>3, <2>1 DEF TapeFollowed
<1>6. CASE E!Sense
  <2>1. SenseLeads
    BY <1>6, TapeSense
  <2>2. CASE file' = file
    BY <1>1, <1>2, <1>3, <2>1, <2>2 DEF SenseLeads, TapeFollowed
  <2>3. CASE /\ Len(file') = Len(file) + 1 /\ \A i \in 1..Len(file) : file'[i] = file[i]
             /\ tape_step' \in {"READ", "DONE"} /\ answer # "BLANK_CHECK"
             /\ answer # "GLITCH" /\ ReadIs => file'[Len(file) + 1] \in E!ImageOf(position)
    <3>1. position = Len(file) + 1 /\ ReadIs /\ answer # "GLITCH"
      BY <2>1, <2>3 DEF SenseLeads, TapeFollowed
    <3>2. ASSUME NEW i \in 1..Len(file')
          PROVE  file'[i] \in E!ImageOf(i)
      <4>1. i = Len(file) + 1 \/ i \in 1..Len(file)
        BY <1>1, <2>3
      <4>2. QED
        BY <2>3, <3>1, <4>1 DEF TapeFollowed
    <3>3. QED
      BY <1>1, <1>2, <1>3, <2>1, <2>3, <3>1, <3>2 DEF SenseLeads, TapeFollowed
  <2>4. QED
    BY <2>1, <2>2, <2>3 DEF SenseLeads
<1>7. CASE E!NoAnswer \/ E!ReadWithoutCode
  <2>1. glitches' = glitches + 1
    BY <1>7, TapeStrays
  <2>2. QED
    BY <1>1, <2>1
<1>8. CASE E!Restore
  BY <1>1, <1>2, <1>3, <1>8, TapeRestores DEF TapeFollowed
<1>9. QED
  BY <1>4, <1>5, <1>6, <1>7, <1>8 DEF E!Next

LEMMA TapeRestoredKept ==
  ASSUME TapeTypes, TapeRestored, E!Next
  PROVE  TapeRestored'
<1>1. CASE E!Restore
  <2>1. UNCHANGED <<tape, file>> /\ file \in Seq(FileObject) /\ read_objects \in 0..Len(file)
        /\ Len(file) \in Nat
    BY <1>1, TapeRestores DEF TapeTypes
  <2>2. /\ \A o : E!Derails(o)' = E!Derails(o)
        /\ \A i : E!Restorable[i]' = E!Restorable[i]
    BY <2>1 DEF E!Derails, E!Restorable
  <2>3. CASE UNCHANGED <<read_objects, target>>
    BY <2>1, <2>2, <2>3 DEF TapeRestored
  <2>4. CASE read_objects < Len(file) /\ read_objects' = Len(file) /\ E!Derails(file[read_objects + 1])
    BY <2>1, <2>2, <2>4 DEF TapeRestored
  <2>5. CASE /\ read_objects < Len(file) /\ read_objects' = read_objects + 1
             /\ target' = IF file[read_objects + 1].kind = "BAD" THEN target
                          ELSE Append(target, file[read_objects + 1])
    <3>1. ASSUME \A i \in 1..read_objects' : ~E!Derails(file[i])
          PROVE  target' = E!Restorable[read_objects']
      <4>1. \A i \in 1..read_objects : ~E!Derails(file[i])
        BY <2>1, <2>5, <3>1
      <4>2. target = E!Restorable[read_objects]
        BY <2>1, <4>1, RestorableIs DEF TapeRestored
      <4>3. PICK k \in 1..Len(file) : k = read_objects + 1 /\ k - 1 = read_objects
        BY <2>1, <2>5
      <4>4. E!Restorable[k] = IF file[k].kind = "BAD" THEN E!Restorable[k - 1]
                              ELSE Append(E!Restorable[k - 1], file[k])
        BY <2>1, RestorableIs
      <4>5. QED
        BY <2>5, <4>2, <4>3, <4>4
    <3>2. QED
      BY <2>1, <2>2, <2>5, <3>1 DEF TapeRestored
  <2>6. QED
    BY <1>1, <2>3, <2>4, <2>5, TapeRestores
<1>2. CASE E!Rewind \/ E!SpaceBack \/ E!Signal \/ E!StartRestore
  <2>1. UNCHANGED <<tape, file, read_objects, target>>
    BY <1>2, TapeMoves
  <2>2. QED
    BY <2>1 DEF TapeRestored, E!Derails, E!Restorable
<1>3. CASE E!Read
  <2>1. UNCHANGED <<tape, file, read_objects, target>>
    BY <1>3, TapeRead
  <2>2. QED
    BY <2>1 DEF TapeRestored, E!Derails, E!Restorable
<1>4. CASE E!Sense \/ E!NoAnswer \/ E!ReadWithoutCode
  <2>1. read_objects = 0 /\ target = <<>> /\ UNCHANGED <<read_objects, target>>
    BY <1>4, TapeSense, TapeStrays DEF TapeTypes, SenseLeads
  <2>2. QED
    BY <2>1 DEF TapeRestored
<1>5. QED
  BY <1>1, <1>2, <1>3, <1>4 DEF E!Next

LEMMA TapeInitially == DevicesAssumption /\ Init => TapeInv
<1> SUFFICES ASSUME DevicesAssumption, E!Init
             PROVE  TapeSafe
  BY DEF Init, TapeInv
<1>1. /\ driver \in {"BOARD", "SG"} /\ position = 0 /\ default_length \in Nat /\ has_error = FALSE
      /\ stopped = FALSE /\ read_objects = 0 /\ target = <<>> /\ glitches \in 0..MaxGlitches
  BY TapeBounds DEF E!Init
<1>2. CASE tape \in Tapes /\ file = <<>> /\ tape_step = "REWIND"
  <2>1. tape \in Seq(TapeObject) /\ tape # <<>>
    BY <1>2, TapeValues
  <2>2. file \in Seq(FileObject) /\ Len(file) = 0 /\ position \in 0..Len(tape) /\ read_objects \in 0..Len(file)
    BY <1>1, <1>2, <2>1
  <2>3. TapeTypes
    BY <1>1, <1>2, <2>1, <2>2 DEF TapeTypes
  <2>4. TapeFollowed
    BY <1>1, <1>2, <2>1, <2>2 DEF TapeFollowed
  <2>5. QED
    BY <1>1, <2>3, <2>4 DEF TapeSafe, TapeRestored
<1>3. ASSUME NEW f \in Files, tape = <<>>, tape_step = "BETWEEN",
             file = [i \in DOMAIN f |-> [kind |-> f[i].kind, length |-> f[i].length, from |-> i]]
      PROVE  TapeSafe
  <2> DEFINE V == [kind : {"RECORD", "MARK", "OTHER"}, length : Nat]
  <2>1. f \in Seq(V)
    BY TapeValues
  <2>2. Len(f) \in Nat /\ DOMAIN f = 1..Len(f)
    BY <2>1
  <2>3. \A v \in V, i \in Nat : [kind |-> v.kind, length |-> v.length, from |-> i] \in FileObject
    BY DEF FileObject
  <2> HIDE DEF V
  <2>4. \A i \in 1..Len(f) : [kind |-> f[i].kind, length |-> f[i].length, from |-> i] \in FileObject
    BY <2>1, <2>2, <2>3, ElementOfSeq, SMTT(30)
  <2>5. file = [i \in 1..Len(f) |-> [kind |-> f[i].kind, length |-> f[i].length, from |-> i]]
    BY <1>3, <2>2
  <2>6. file \in Seq(FileObject)
    BY <2>2, <2>4, <2>5, SMTT(30)
  <2>7. /\ tape \in Seq(TapeObject) /\ position \in 0..Len(tape) /\ read_objects \in 0..Len(file)
    BY <1>1, <1>3, <2>6
  <2>8. TapeTypes
    BY <1>1, <1>3, <2>6, <2>7 DEF TapeTypes
  <2>9. QED
    BY <1>1, <1>3, <2>8 DEF TapeSafe, TapeRestored
<1>4. QED
  BY <1>2, <1>3 DEF E!Init

LEMMA OtherThanTape ==
  ASSUME [Next]_vars
  PROVE  \/ UNCHANGED <<part, tape_vars>>
         \/ part = "TAPE" /\ E!Next /\ UNCHANGED part
BY DEF Next, vars, Transfer, Host, Spool, Net, Generic, Disk, TapeCopy, Simh, Exec, Mode, Config

LEMMA TapeStep == DevicesAssumption /\ TapeInv /\ [Next]_vars => TapeInv'
<1> SUFFICES ASSUME DevicesAssumption, TapeInv, [Next]_vars, part' = "TAPE"
             PROVE  TapeSafe'
  BY DEF TapeInv
<1>1. part = "TAPE" /\ TapeSafe
  BY OtherThanTape DEF TapeInv
<1>2. CASE UNCHANGED <<part, tape_vars>>
  <2>1. UNCHANGED <<driver, tape, position, default_length, has_error, answer, file, read_objects, target,
                    tape_step, stopped, glitches>>
    BY <1>2 DEF tape_vars
  <2>2. TapeTypes' = TapeTypes
    BY <2>1 DEF TapeTypes
  <2>3. TapeFollowed' = TapeFollowed
    BY <2>1 DEF TapeFollowed, ReadIs, E!ImageOf, E!Mark, E!BadMark, E!Record
  <2>4. TapeRestored' = TapeRestored
    BY <2>1 DEF TapeRestored, E!Derails, E!Restorable
  <2>5. QED
    BY <1>1, <2>1, <2>2, <2>3, <2>4 DEF TapeSafe
<1>3. CASE E!Next
  <2>1. TapeTypes' /\ TapeRestored'
    BY <1>1, <1>3, TapeTypesKept, TapeRestoredKept DEF TapeSafe
  <2>2. tape' = tape
    BY <1>3 DEF E!Next, E!Rewind, E!Read, E!Sense, E!SpaceBack, E!NoAnswer, E!ReadWithoutCode,
                E!Signal, E!StartRestore, E!Restore
  <2>3. glitches' = 0 => glitches = 0
    <3>1. glitches \in Nat /\ (glitches' = glitches \/ glitches' = glitches + 1)
      BY <1>1, <1>3
         DEF TapeSafe, TapeTypes, E!Next, E!Rewind, E!Read, E!Sense, E!SpaceBack, E!NoAnswer,
                        E!ReadWithoutCode, E!Signal, E!StartRestore, E!Restore
    <3>2. QED
      BY <3>1
  <2>4. QED
    BY <1>1, <1>3, <2>1, <2>2, <2>3, TapeFollowedKept DEF TapeSafe
<1>4. QED
  BY <1>2, <1>3, OtherThanTape

LEMMA TapeCopies == TapeInv => (part = "TAPE" => E!TapeCopied /\ E!TypeOK)
<1> SUFFICES ASSUME TapeSafe
             PROVE  E!TapeCopied /\ E!TypeOK
  BY DEF TapeInv
<1>1. file \in Seq(FileObject) /\ read_objects \in 0..Len(file)
  BY DEF TapeSafe, TapeTypes
<1>2. ASSUME \A i \in 1..read_objects : ~E!Derails(file[i])
      PROVE  target = E!Restorable[read_objects]
  BY <1>1, <1>2, RestorableIs DEF TapeSafe, TapeRestored
<1>3. E!TapeCopied
  BY <1>2 DEF E!TapeCopied, TapeSafe, TapeFollowed
<1>4. E!TypeOK
  BY DEF E!TypeOK, TapeSafe, TapeTypes
<1>5. QED
  BY <1>3, <1>4

(* s2pdump with a disk drive. *)

DiskUnit == [by : {"DISK", "IMAGE", "BUFFER"}, n : Nat]
DiskFirst == job.start * job.sector_size
DiskSize == D!SectorCount * job.sector_size

\* The values of the variables, with either driver.
DiskTypes ==
  /\ job \in Jobs /\ DOMAIN disk = 1..Capacity * job.sector_size
  /\ disk0 \in [1..Capacity * job.sector_size -> DiskUnit]
  /\ effective_size \in 0..W32 - 1 /\ sector_offset \in Nat /\ rest \in 0..effective_size /\ active \in BOOLEAN
  /\ disk_step \in {"INFO", "SIZE", "COPY", "SYNC", "DONE", "NOTHING", "ERROR"}
  /\ job.restore => image \in Seq(DiskUnit)

\* The units that are copied.  All but the last piece have whole sectors.
DiskRange ==
  /\ 0 < D!SectorCount /\ DiskFirst + DiskSize <= Capacity * job.sector_size
  /\ effective_size = IF job.restore THEN D!Least(Len(image), DiskSize) ELSE DiskSize
  /\ rest > 0 => effective_size - rest = (sector_offset - job.start) * job.sector_size
  /\ sector_offset >= job.start

\* A restore has written these units and others of their sectors, a dump has read them.
DiskRestored ==
  /\ \A u \in DOMAIN disk : u <= DiskFirst \/ u > DiskFirst + DiskSize => disk[u] = disk0[u]
  /\ \A i \in 1..effective_size - rest : disk[DiskFirst + i] = image[i]
DiskDumped ==
  /\ Len(image) <= effective_size /\ \A i \in 1..Len(image) : image[i] = disk0[DiskFirst + i]
  /\ disk_step # "ERROR" => Len(image) = effective_size - rest

DiskFollowed ==
  /\ image \in Seq(DiskUnit)
  /\ effective_size = 0 => disk = disk0 /\ disk_step \notin {"COPY", "SYNC", "DONE"}
  /\ disk_step \in {"INFO", "SIZE", "NOTHING"} => effective_size = 0
  /\ disk_step \in {"SIZE", "NOTHING"} /\ ~job.restore => image = <<>>
  /\ effective_size > 0 => DiskRange /\ IF job.restore THEN DiskRestored ELSE DiskDumped

\* The buffer has whole sectors, and the sizes fit their types.
DiskFits ==
  /\ job.driver = "BOARD" /\ job.buffer % job.sector_size = 0 /\ DiskSize < W32
  /\ job.buffer \div job.sector_size < W16

DiskSafe == DiskTypes /\ (DiskFits => DiskFollowed) /\ (~job.restore => disk = disk0)
DiskInv == part = "DISK" => DiskSafe

LEMMA JobTypes ==
  ASSUME job \in Jobs
  PROVE  /\ job.driver \in {"BOARD", "SG"} /\ job.restore \in BOOLEAN /\ job.sasi \in BOOLEAN
         /\ job.sector_size \in {2, 3} /\ job.buffer \in Nat /\ job.start \in Nat /\ job.count \in Nat
         /\ job.image \in Nat
BY DEF Jobs

\* The numbers of a piece.
LEMMA PieceSize ==
  ASSUME DevicesAssumption, job \in Jobs, rest \in Nat, sector_offset \in Nat
  PROVE  /\ D!CurrentCount \in 0..rest /\ D!CurrentCount <= job.buffer /\ D!Sectors \in Nat
         /\ D!CurrentCount <= D!Sectors * job.sector_size
         /\ D!Sectors * job.sector_size < D!CurrentCount + job.sector_size
<1>1. SasiLimit \in Nat
  BY DevicesAssumption
<1>2. CASE job.sector_size = 2
  <2>1. SasiLimit * job.sector_size \in Nat
    BY <1>1, <1>2
  <2>2. D!CurrentCount \in 0..rest /\ D!CurrentCount <= job.buffer
    BY <2>1, JobTypes DEF D!CurrentCount, D!Least
  <2>3. QED
    BY <1>2, <2>2, JobTypes DEF D!Sectors
<1>3. CASE job.sector_size = 3
  <2>1. SasiLimit * job.sector_size \in Nat
    BY <1>1, <1>3
  <2>2. D!CurrentCount \in 0..rest /\ D!CurrentCount <= job.buffer
    BY <2>1, JobTypes DEF D!CurrentCount, D!Least
  <2>3. QED
    BY <1>3, <2>2, JobTypes DEF D!Sectors
<1>4. QED
  BY <1>2, <1>3, JobTypes

\* A piece that is not the last one has whole sectors, and the CDB has their number.
LEMMA PieceFits ==
  ASSUME DevicesAssumption, job \in Jobs, rest \in Nat, sector_offset \in Nat, DiskFits
  PROVE  /\ D!CurrentCount = rest \/ D!CurrentCount = D!Sectors * job.sector_size
         /\ D!Counted = D!Sectors
<1>1. SasiLimit \in Nat /\ W16 \in Nat
  BY DevicesAssumption
<1>2. /\ D!CurrentCount \in 0..rest /\ D!CurrentCount <= job.buffer /\ D!Sectors \in Nat
      /\ D!CurrentCount <= D!Sectors * job.sector_size
      /\ D!Sectors * job.sector_size < D!CurrentCount + job.sector_size
  BY PieceSize
<1>3. D!CurrentCount \in {rest, job.buffer, SasiLimit * job.sector_size}
  BY DEF D!CurrentCount, D!Least
<1>4. job.buffer % job.sector_size = 0 /\ job.buffer \div job.sector_size < W16 /\ job.buffer \in Nat
  BY JobTypes DEF DiskFits
<1>5. CASE job.sector_size = 2
  <2>1. D!CurrentCount = rest \/ D!CurrentCount = D!Sectors * 2
    BY <1>1, <1>2, <1>3, <1>4, <1>5
  <2>2. D!Sectors < W16
    BY <1>1, <1>2, <1>4, <1>5
  <2>3. D!Counted = D!Sectors
    BY <1>1, <1>2, <2>2 DEF D!Counted
  <2>4. QED
    BY <1>5, <2>1, <2>3
<1>6. CASE job.sector_size = 3
  <2>1. D!CurrentCount = rest \/ D!CurrentCount = D!Sectors * 3
    BY <1>1, <1>2, <1>3, <1>4, <1>6
  <2>2. D!Sectors < W16
    BY <1>1, <1>2, <1>4, <1>6
  <2>3. D!Counted = D!Sectors
    BY <1>1, <1>2, <2>2 DEF D!Counted
  <2>4. QED
    BY <1>6, <2>1, <2>3
<1>7. QED
  BY <1>5, <1>6, JobTypes

\* Over the bus, a piece is one range of the drive.
LEMMA PieceIs ==
  ASSUME DevicesAssumption, job \in Jobs, rest \in Nat, sector_offset \in Nat, DiskFits,
         NEW p \in 1..D!Sectors * job.sector_size
  PROVE  D!Unit(p) = D!First + p
BY PieceFits DEF D!Unit, DiskFits

\* Sectors that are not the one and the other: numbers of units.
LEMMA WholeSectors ==
  ASSUME NEW sz \in {2, 3}, NEW a \in Nat, NEW b \in Nat, NEW c \in Nat, NEW n \in Nat
  PROVE  /\ a * sz \in Nat /\ (a + b) * sz = a * sz + b * sz
         /\ a >= b => (a - b) * sz = a * sz - b * sz /\ a * sz >= b * sz
         /\ n <= b * sz /\ a * sz < n + sz => a <= b
         /\ a <= b => a * sz <= b * sz
<1>1. CASE sz = 2
  BY <1>1
<1>2. CASE sz = 3
  BY <1>2
<1>3. QED
  BY <1>1, <1>2

\* The piece is inside the range that is copied, and follows what has been copied.
LEMMA PieceInRange ==
  ASSUME DevicesAssumption, DiskTypes, DiskFits, DiskRange, image \in Seq(DiskUnit), rest > 0
  PROVE  /\ D!First \in Nat /\ DiskFirst \in Nat /\ DiskSize \in Nat
         /\ D!First = DiskFirst + (effective_size - rest) /\ effective_size <= DiskSize
         /\ D!First + D!Sectors * job.sector_size <= DiskFirst + DiskSize
         /\ D!CurrentCount # rest => (sector_offset + D!Sectors - job.start) * job.sector_size
                                        = effective_size - (rest - D!CurrentCount)
<1> DEFINE sz == job.sector_size
           so == sector_offset
           st == job.start
           sc == D!SectorCount
<1>1. /\ sz \in {2, 3} /\ so \in Nat /\ st \in Nat /\ so >= st /\ rest \in Nat /\ effective_size \in Nat
      /\ rest <= effective_size /\ Len(image) \in Nat /\ Capacity \in Nat
      /\ job \in Jobs /\ W32 \in Nat
  BY JobTypes, DevicesAssumption DEF DiskTypes, DiskRange
<1>2. sc \in Nat
  <2>1. job.count \in Nat /\ job.start \in Nat
    BY <1>1, JobTypes
  <2>2. 0 < sc /\ (sc = Capacity - job.start \/ sc = job.count)
    BY DEF DiskRange, D!SectorCount
  <2>3. Capacity - job.start \in Int
    BY <1>1, <2>1, SMTT(30)
  <2>4. sc \in Int
    BY <2>1, <2>2, <2>3, SMTT(30)
  <2>5. QED
    BY <2>2, <2>4, SMTT(30)
<1>3. DiskFirst = st * sz /\ DiskSize = sc * sz /\ D!First = so * sz
  BY DEF DiskFirst, DiskSize, D!First
<1>4. DiskFirst \in Nat /\ DiskSize \in Nat /\ D!First \in Nat
  BY <1>1, <1>2, <1>3, WholeSectors
<1>5. effective_size - rest = (so - st) * sz /\ effective_size <= DiskSize
  BY <1>1, <1>4, SMTT(30) DEF DiskRange, D!Least
<1>6. PICK cc \in Nat : cc = D!CurrentCount
  BY <1>1, PieceSize
<1>7. PICK ns \in Nat : ns = D!Sectors
  BY <1>1, PieceSize
<1>8. /\ cc <= rest /\ cc <= ns * sz /\ ns * sz < cc + sz /\ (cc = rest \/ cc = ns * sz)
  <2>1. cc <= rest /\ cc <= ns * sz /\ ns * sz < cc + sz
    BY <1>1, <1>6, <1>7, PieceSize, SMTT(30)
  <2>2. cc = rest \/ cc = ns * sz
    BY <1>1, <1>6, <1>7, PieceFits
  <2>3. QED
    BY <2>1, <2>2
<1> HIDE DEF sz, so, st, sc
<1>9. PICK q \in Nat : q = so - st
  BY <1>1
<1>10. so = st + q /\ so * sz = st * sz + q * sz /\ q * sz \in Nat /\ st * sz \in Nat
  <2>1. so = st + q
    BY <1>1, <1>9
  <2>2. QED
    BY <1>1, <1>9, <2>1, WholeSectors
<1>11. D!First = DiskFirst + (effective_size - rest)
  BY <1>1, <1>3, <1>5, <1>9, <1>10
<1>12. ns + q <= sc
  <2>1. ns * sz + q * sz = (ns + q) * sz /\ ns * sz \in Nat /\ ns + q \in Nat
    BY <1>1, <1>7, <1>9, WholeSectors
  <2>2. q * sz + cc <= sc * sz
    <3>1. effective_size - rest = q * sz
      BY <1>5, <1>9
    <3>2. q * sz + cc <= effective_size
      BY <1>1, <1>6, <1>8, <1>10, <3>1
    <3>3. QED
      BY <1>1, <1>3, <1>4, <1>5, <1>6, <1>10, <3>2
  <2>3. (ns + q) * sz < q * sz + cc + sz
    <3>1. ns * sz < cc + sz
      BY <1>8
    <3>2. sz \in Nat
      BY <1>1
    <3>3. \A a, b, c, d \in Nat : a < c + d => a + b < b + c + d
      OBVIOUS
    <3>4. QED
      BY <1>6, <1>10, <2>1, <3>1, <3>2, <3>3
  <2>4. PICK k \in Nat : k = q * sz + cc
    BY <1>10, <1>6, SMTT(30)
  <2>5. QED
    BY <1>1, <1>2, <2>1, <2>2, <2>3, <2>4, WholeSectors
<1>13. D!First + ns * sz <= DiskFirst + DiskSize
  <2>1. (ns + q) * sz <= sc * sz /\ ns * sz + q * sz = (ns + q) * sz /\ ns * sz \in Nat
    BY <1>1, <1>2, <1>7, <1>9, <1>12, WholeSectors
  <2>2. ns * sz + q * sz <= DiskSize
    BY <1>3, <2>1
  <2>3. D!First = DiskFirst + q * sz
    BY <1>3, <1>10
  <2>4. \A a, b, c, d \in Nat : a + b <= c => d + b + a <= d + c
    OBVIOUS
  <2>5. DiskFirst + q * sz + ns * sz <= DiskFirst + DiskSize
    BY <1>4, <1>10, <2>1, <2>2, <2>4
  <2>6. QED
    BY <2>3, <2>5
<1>14. ASSUME cc # rest
       PROVE  (so + ns - st) * sz = effective_size - (rest - cc)
  <2>1. so + ns - st = q + ns /\ (q + ns) * sz = q * sz + ns * sz /\ ns * sz \in Nat
    BY <1>1, <1>7, <1>9, WholeSectors
  <2>2. QED
    BY <1>1, <1>5, <1>6, <1>8, <1>9, <1>10, <1>14, <2>1
<1>15. QED
  BY <1>4, <1>5, <1>6, <1>7, <1>11, <1>13, <1>14 DEF sz, so, st

\* What the drive has after the first units of a buffer.
LEMMA WrittenUnits ==
  ASSUME DevicesAssumption, DiskTypes, DiskFits, rest > 0, D!First \in Nat,
         NEW n \in 0..D!Sectors * job.sector_size
  PROVE  /\ DOMAIN D!Overwritten(n) = DOMAIN disk
         /\ \A u \in DOMAIN disk : u <= D!First \/ u > D!First + n => D!Overwritten(n)[u] = disk[u]
         /\ \A p \in 1..n : D!First + p \in DOMAIN disk => D!Overwritten(n)[D!First + p] = D!FromFile(p)
<1>1. /\ rest \in Nat /\ sector_offset \in Nat /\ job \in Jobs /\ D!Sectors * job.sector_size \in Nat
  <2>1. rest \in Nat /\ sector_offset \in Nat /\ job \in Jobs
    BY DevicesAssumption DEF DiskTypes
  <2>2. D!Sectors \in Nat /\ job.sector_size \in Nat
    BY <2>1, PieceSize, JobTypes
  <2>3. QED
    BY <2>1, <2>2
<1>2. \A p \in 1..n : D!Unit(p) = D!First + p
  BY <1>1, PieceIs
<1>3. DOMAIN D!Overwritten(n) = DOMAIN disk
  BY DEF D!Overwritten
<1>4. ASSUME NEW u \in DOMAIN disk
      PROVE  /\ ~(\E p \in 1..n : D!Unit(p) = u) => D!Overwritten(n)[u] = disk[u]
             /\ (\E p \in 1..n : D!Unit(p) = u) =>
                  D!Overwritten(n)[u] = D!FromFile(CHOOSE p \in 1..n : D!Unit(p) = u)
  BY DEF D!Overwritten
<1>5. ASSUME NEW u \in DOMAIN disk, u <= D!First \/ u > D!First + n
      PROVE  D!Overwritten(n)[u] = disk[u]
  <2>1. u \in Int /\ n \in Nat
    BY <1>1 DEF DiskTypes
  <2>2. \A p \in 1..n : D!Unit(p) # u
    BY <1>2, <1>5, <2>1
  <2>3. QED
    BY <1>4, <2>2
<1>6. ASSUME NEW p \in 1..n, D!First + p \in DOMAIN disk
      PROVE  D!Overwritten(n)[D!First + p] = D!FromFile(p)
  <2>1. D!Unit(p) = D!First + p
    BY <1>2
  <2>2. \A r \in 1..n : D!Unit(r) = D!First + p => r = p
    BY <1>1, <1>2
  <2>3. (CHOOSE r \in 1..n : D!Unit(r) = D!First + p) = p
    BY <2>1, <2>2
  <2>4. QED
    BY <1>4, <1>6, <2>1, <2>3
<1>7. QED
  BY <1>3, <1>5, <1>6

\* What never changes.
LEMMA DiskKeeps ==
  ASSUME D!Next
  PROVE  /\ UNCHANGED <<job, disk0>> /\ DiskFits' = DiskFits /\ DiskFirst' = DiskFirst
         /\ DiskSize' = DiskSize /\ D!SectorCount' = D!SectorCount
<1>1. UNCHANGED <<job, disk0>>
  BY
     DEF D!Next, D!DeviceInfo, D!CalculateEffectiveSize, D!Copy, D!Finish, D!SynchronizeCache,
         D!Signal
<1>2. D!SectorCount' = D!SectorCount
  BY <1>1 DEF D!SectorCount
<1>3. DiskSize' = DiskSize /\ DiskFirst' = DiskFirst
  BY <1>1, <1>2 DEF DiskSize, DiskFirst
<1>4. QED
  BY <1>1, <1>2, <1>3 DEF DiskFits

LEMMA DiskTypesKept ==
  ASSUME DevicesAssumption, DiskTypes, ~job.restore => disk = disk0, D!Next
  PROVE  DiskTypes' /\ (~job'.restore => disk' = disk0')
<1>1. UNCHANGED <<job, disk0>> /\ (job.restore => image' = image)
  BY DiskKeeps
     DEF D!Next, D!DeviceInfo, D!CalculateEffectiveSize, D!Copy, D!Finish, D!SynchronizeCache,
         D!Signal
<1>2. CASE D!DeviceInfo \/ D!Finish \/ D!SynchronizeCache \/ D!Signal
  <2>1. UNCHANGED <<disk, effective_size, sector_offset, rest>>
    BY <1>2 DEF D!DeviceInfo, D!Finish, D!SynchronizeCache, D!Signal
  <2>2. active' \in BOOLEAN /\ disk_step' \in {"INFO", "SIZE", "COPY", "SYNC", "DONE", "NOTHING", "ERROR"}
    BY <1>2 DEF DiskTypes, D!DeviceInfo, D!Finish, D!SynchronizeCache, D!Signal
  <2>3. QED
    BY <1>1, <2>1, <2>2 DEF DiskTypes
<1>3. CASE D!CalculateEffectiveSize
  <2>1. UNCHANGED <<disk, active>>
    BY <1>3 DEF D!CalculateEffectiveSize
  <2>2. disk_step' \in {"INFO", "SIZE", "COPY", "SYNC", "DONE", "NOTHING", "ERROR"}
    BY <1>3 DEF D!CalculateEffectiveSize
  <2>3. effective_size' \in 0..W32 - 1 /\ sector_offset' \in Nat /\ rest' \in 0..effective_size'
    <3>1. CASE UNCHANGED <<effective_size, sector_offset, rest>>
      BY <3>1 DEF DiskTypes
    <3> DEFINE size == DiskSize % W32
               bytes == IF job.restore THEN D!Least(Len(image), size) ELSE size
    <3>2. CASE effective_size' = bytes /\ rest' = bytes /\ sector_offset' = job.start
      <4>1. job.start \in Nat /\ job.count \in Nat /\ job.sector_size \in {2, 3} /\ Capacity \in Nat
        BY DevicesAssumption, JobTypes DEF DiskTypes
      <4>2. D!SectorCount \in Int
        BY <4>1 DEF D!SectorCount
      <4>3. DiskSize \in Int
        BY <4>1, <4>2 DEF DiskSize
      <4>4. W32 \in Nat \ {0}
        BY DevicesAssumption
      <4>5. DiskSize % W32 \in 0..W32 - 1
        BY <4>3, <4>4
      <4>6. job.restore => Len(image) \in Nat
        BY DEF DiskTypes
      <4>7. bytes \in 0..W32 - 1
        <5>1. size \in 0..W32 - 1
          BY <4>5
        <5> HIDE DEF size
        <5>2. job.restore => D!Least(Len(image), size) \in 0..W32 - 1
          BY <4>4, <4>6, <5>1 DEF D!Least
        <5>3. QED
          BY <5>1, <5>2
      <4> HIDE DEF bytes
      <4>8. bytes \in 0..bytes
        BY <4>4, <4>7
      <4>9. QED
        BY <3>2, <4>1, <4>7, <4>8
    <3>3. QED
      BY <1>3, <3>1, <3>2 DEF D!CalculateEffectiveSize, DiskSize
  <2>4. QED
    BY <1>1, <2>1, <2>2, <2>3 DEF DiskTypes
<1>4. CASE D!Copy
  <2>1. UNCHANGED <<effective_size, active>> /\ disk_step' \in {"COPY", "ERROR"}
    BY <1>4 DEF D!Copy
  <2>2. job \in Jobs /\ rest \in Nat /\ rest <= effective_size /\ effective_size \in Nat /\ sector_offset \in Nat
    BY DevicesAssumption DEF DiskTypes
  <2>3. D!CurrentCount \in 0..rest /\ D!Sectors \in Nat
    BY <2>2, PieceSize
  <2>4. sector_offset' \in Nat /\ rest' \in 0..effective_size'
    <3>1. \/ rest' = rest - D!CurrentCount /\ sector_offset' = sector_offset + D!Sectors
          \/ rest' = rest /\ sector_offset' = sector_offset
      BY <1>4 DEF D!Copy
    <3>2. QED
      BY <2>1, <2>2, <2>3, <3>1
  <2>5. disk' = disk \/ (job.restore /\ \E n : disk' = D!Overwritten(n))
    BY <1>4 DEF D!Copy
  <2>6. DOMAIN disk' = DOMAIN disk /\ (~job.restore => disk' = disk)
    BY <2>5 DEF D!Overwritten
  <2>7. QED
    BY <1>1, <2>1, <2>4, <2>6 DEF DiskTypes
<1>5. QED
  BY <1>2, <1>3, <1>4 DEF D!Next

\* The range that is calculated.
LEMMA DiskBegins ==
  ASSUME DevicesAssumption, DiskTypes, DiskFits, DiskFollowed, D!CalculateEffectiveSize
  PROVE  DiskFollowed'
<1> DEFINE size == DiskSize % W32
           bytes == IF job.restore THEN D!Least(Len(image), size) ELSE size
<1>1. /\ effective_size = 0 /\ disk_step = "SIZE" /\ disk = disk0 /\ image \in Seq(DiskUnit)
      /\ ~job.restore => image = <<>>
  BY DEF DiskFollowed, D!CalculateEffectiveSize
<1>2. UNCHANGED <<job, disk, disk0, image, DiskFirst, DiskSize>> /\ D!SectorCount' = D!SectorCount
  BY DiskKeeps DEF D!CalculateEffectiveSize, D!Next
<1>3. CASE disk_step' = "NOTHING" /\ effective_size' = effective_size
  BY <1>1, <1>2, <1>3 DEF DiskFollowed
<1>4. ASSUME /\ ~(Capacity <= job.start \/ Capacity < job.start + D!SectorCount \/ bytes = 0)
             /\ disk_step' = "COPY" /\ effective_size' = bytes /\ rest' = bytes /\ sector_offset' = job.start
      PROVE  DiskFollowed'
  <2>1. /\ job.start \in Nat /\ job.count \in Nat /\ job.sector_size \in {2, 3} /\ Capacity \in Nat
        /\ W32 \in Nat \ {0}
    BY DevicesAssumption, JobTypes DEF DiskTypes
  <2>2. D!SectorCount = IF job.count = 0 THEN Capacity - job.start ELSE job.count
    BY DEF D!SectorCount
  <2>3. D!SectorCount \in Nat /\ 0 < D!SectorCount /\ job.start + D!SectorCount <= Capacity
    <3>1. ~(Capacity <= job.start) /\ ~(Capacity < job.start + D!SectorCount)
      BY <1>4
    <3>2. D!SectorCount \in Nat /\ 0 < D!SectorCount
      BY <2>1, <2>2, <3>1
    <3>3. QED
      BY <2>1, <3>1, <3>2
  <2>4. DiskSize \in Nat /\ DiskFirst \in Nat /\ DiskFirst + DiskSize <= Capacity * job.sector_size
    <3>1. CASE job.sector_size = 2
      BY <2>1, <2>3, <3>1 DEF DiskSize, DiskFirst
    <3>2. CASE job.sector_size = 3
      BY <2>1, <2>3, <3>2 DEF DiskSize, DiskFirst
    <3>3. QED
      BY <2>1, <3>1, <3>2
  <2>5. DiskSize % W32 = DiskSize
    BY <2>1, <2>4 DEF DiskFits
  <2>6. Len(image) \in Nat
    BY <1>1
  <2>7. bytes = IF job.restore THEN D!Least(Len(image), DiskSize) ELSE DiskSize
    BY <2>5
  <2>8. bytes \in Nat /\ bytes > 0
    BY <1>4, <2>4, <2>6, <2>7, SMTT(30) DEF D!Least
  <2> HIDE DEF bytes, size
  <2>9. (sector_offset - job.start)' = 0 /\ ((sector_offset - job.start) * job.sector_size)' = 0
    BY <1>2, <1>4, <2>1
  <2>10. (effective_size - rest)' = 0
    BY <1>4, <2>8
  <2>11. DiskRange'
    BY <1>2, <1>4, <2>1, <2>3, <2>4, <2>7, <2>9, <2>10 DEF DiskRange, D!Least
  <2>12. DiskRestored'
    BY <1>1, <1>2, <2>10 DEF DiskRestored
  <2>13. ~job.restore => DiskDumped'
    BY <1>1, <1>2, <1>4, <2>8, <2>10 DEF DiskDumped
  <2>14. QED
    BY <1>1, <1>2, <1>4, <2>8, <2>11, <2>12, <2>13 DEF DiskFollowed
<1>5. QED
  BY <1>3, <1>4 DEF D!CalculateEffectiveSize, DiskSize

\* What less than the rest is added to stays within the same bound.
LEMMA SumsInOrder == \A a, b, c, d \in Nat : c <= b /\ a + b <= d => a + c <= d
OBVIOUS

\* A piece goes to the drive, all of it or a part.
LEMMA DiskWrites ==
  ASSUME DevicesAssumption, DiskTypes, DiskFits, DiskRange, image \in Seq(DiskUnit), rest > 0,
         DiskRestored, NEW n \in 0..D!Sectors * job.sector_size,
         UNCHANGED <<job, image, disk0, effective_size>>, disk' = D!Overwritten(n),
         \/ rest' = rest
         \/ rest' = rest - D!CurrentCount /\ n = D!Sectors * job.sector_size
  PROVE  DiskRestored'
<1>1. /\ D!First \in Nat /\ DiskFirst \in Nat /\ DiskSize \in Nat
      /\ D!First = DiskFirst + (effective_size - rest) /\ effective_size <= DiskSize
      /\ D!First + D!Sectors * job.sector_size <= DiskFirst + DiskSize
  BY PieceInRange
<1>2. /\ rest \in Nat /\ effective_size \in Nat /\ rest <= effective_size /\ sector_offset \in Nat /\ job \in Jobs
      /\ DOMAIN disk = 1..Capacity * job.sector_size /\ job.sector_size \in {2, 3} /\ Capacity \in Nat
  BY DevicesAssumption, JobTypes DEF DiskTypes
<1>3. /\ D!CurrentCount \in 0..rest /\ D!Sectors \in Nat /\ D!CurrentCount <= D!Sectors * job.sector_size
  BY <1>2, PieceSize
<1>4. PICK sx \in Nat, cx \in Nat : sx = D!Sectors * job.sector_size /\ cx = Capacity * job.sector_size
  <2>1. D!Sectors * job.sector_size \in Nat /\ Capacity * job.sector_size \in Nat
    BY <1>2, <1>3, WholeSectors
  <2>2. QED
    BY <2>1
<1>5. /\ DOMAIN disk' = DOMAIN disk
      /\ \A u \in DOMAIN disk : u <= D!First \/ u > D!First + n => disk'[u] = disk[u]
      /\ \A p \in 1..n : D!First + p \in DOMAIN disk => disk'[D!First + p] = D!FromFile(p)
  BY <1>1, WrittenUnits
<1>6. UNCHANGED <<DiskFirst, DiskSize>>
  BY DEF DiskFirst, DiskSize, D!SectorCount
<1>7. /\ sx \in Nat /\ cx \in Nat /\ n \in 0..sx /\ DiskFirst + DiskSize <= cx /\ D!CurrentCount <= sx
      /\ D!First + sx <= DiskFirst + DiskSize /\ DOMAIN disk = 1..cx /\ D!First >= DiskFirst
  <2>1. D!First >= DiskFirst
    BY <1>1, <1>2, SMTT(30)
  <2>2. QED
    BY <1>1, <1>2, <1>3, <1>4, <2>1 DEF DiskRange
<1>8. ASSUME NEW u \in DOMAIN disk, u <= DiskFirst \/ u > DiskFirst + DiskSize
      PROVE  disk'[u] = disk0[u]
  <2>1. u \in Int /\ DiskFirst \in Nat /\ DiskSize \in Nat /\ D!First \in Nat
    BY <1>1, <1>7
  <2>2. D!First + n <= DiskFirst + DiskSize /\ D!First + n \in Nat
    <3>1. n \in Nat /\ sx \in Nat /\ n <= sx /\ DiskFirst + DiskSize \in Nat
      BY ONLY <1>7, <2>1
    <3>2. QED
      BY ONLY <1>7, <2>1, <3>1, SumsInOrder
  <2>3. CASE u <= DiskFirst
    <3>1. u <= D!First
      BY ONLY <1>7, <2>1, <2>3
    <3>2. QED
      BY <1>5, <2>3, <3>1 DEF DiskRestored
  <2>4. CASE u > DiskFirst + DiskSize
    <3>0. /\ D!First + n \in Int /\ DiskFirst + DiskSize \in Int /\ u \in Int
      BY ONLY <2>1, <2>2
    <3>9. \A a, b, c \in Int : a <= b /\ c > b => c > a
      OBVIOUS
    <3>1. u > D!First + n
      BY <2>2, <2>4, <3>0, <3>9
    <3>2. QED
      BY <1>5, <2>4, <3>1 DEF DiskRestored
  <2>5. QED
    BY <1>8, <2>3, <2>4
<1>9. PICK k \in Nat : k = effective_size - rest
  BY <1>2, SMTT(30)
<1>11. k \in Nat /\ DiskFirst \in Nat /\ DiskSize \in Nat /\ D!First \in Nat /\ D!First = DiskFirst + k
  BY <1>1, <1>9
<1>12. ASSUME NEW i \in 1..k
       PROVE  disk'[DiskFirst + i] = image[i]
  <2>1. DiskFirst + i \in DOMAIN disk /\ DiskFirst + i <= D!First
    BY <1>7, <1>11
  <2>2. disk[DiskFirst + i] = image[i]
    BY <1>9 DEF DiskRestored
  <2>3. QED
    BY <1>5, <2>1, <2>2
<1>13. ASSUME NEW p \in 1..D!CurrentCount, n = sx
       PROVE  disk'[DiskFirst + (k + p)] = image[k + p]
  <2>1. p \in 1..n
    <3>1. D!CurrentCount \in Nat
      BY <1>3
    <3>2. QED
      BY <1>7, <1>13, <3>1
  <2>2. D!First + p \in DOMAIN disk
    BY <1>7, <1>11, <2>1
  <2>3. DiskFirst + (k + p) = D!First + p
    BY <1>11, <2>1, SMTT(30)
  <2>4. D!FromFile(p) = image[k + p]
    <3>1. p <= D!CurrentCount
      BY <1>3
    <3>2. QED
      BY <1>9, <3>1 DEF D!FromFile
  <2>5. QED
    BY <1>5, <2>1, <2>2, <2>3, <2>4
<1>14. (effective_size - rest)' = k \/ ((effective_size - rest)' = k + D!CurrentCount /\ n = sx)
  <2>1. PICK cc \in Nat : cc = D!CurrentCount
    BY <1>3
  <2>2. rest' = rest \/ (rest' = rest - cc /\ n = sx)
    BY <1>4, <2>1
  <2>3. QED
    BY <1>2, <1>9, <2>1, <2>2, SMTT(30)
<1>15. ASSUME NEW i \in 1..(effective_size - rest)'
       PROVE  disk'[DiskFirst + i] = image[i]
  <2>1. CASE i \in 1..k
    BY <1>12, <2>1
  <2>2. CASE i \notin 1..k
    <3>1. n = sx /\ i \in 1..k + D!CurrentCount /\ D!CurrentCount \in Nat
      BY <1>3, <1>14, <2>2, SMTT(30)
    <3>2. PICK p \in 1..D!CurrentCount : i = k + p
      <4>1. i - k \in 1..D!CurrentCount /\ i = k + (i - k)
        BY <1>11, <2>2, <3>1
      <4>2. QED
        BY <4>1
    <3>3. QED
      BY <1>13, <3>1, <3>2
  <2>3. QED
    BY <2>1, <2>2
<1>16. QED
  BY <1>5, <1>6, <1>8, <1>15 DEF DiskRestored

\* A piece of the drive goes to the file, all of it or the first units.
LEMMA DiskReads ==
  ASSUME DevicesAssumption, DiskTypes, DiskFits, DiskRange, image \in Seq(DiskUnit), rest > 0,
         disk = disk0, DiskDumped, disk_step = "COPY", D!Readable,
         NEW m \in 0..D!CurrentCount, image' = image \o D!UpTo(m, D!FromDisk)
  PROVE  /\ image' \in Seq(DiskUnit) /\ Len(image') = effective_size - rest + m
         /\ \A i \in 1..Len(image') : image'[i] = disk0[DiskFirst + i]
<1> DEFINE bytes == D!UpTo(m, D!FromDisk)
<1>0. bytes = [p \in 1..m |-> D!FromDisk[p]] /\ image' = image \o bytes
  BY DEF D!UpTo
<1> HIDE DEF bytes
<1>1. /\ D!First \in Nat /\ DiskFirst \in Nat /\ D!First = DiskFirst + (effective_size - rest)
  BY PieceInRange
<1>2. /\ rest \in Nat /\ effective_size \in Nat /\ rest <= effective_size /\ sector_offset \in Nat /\ job \in Jobs
      /\ DOMAIN disk = 1..Capacity * job.sector_size /\ job.sector_size \in {2, 3} /\ Capacity \in Nat
  BY DevicesAssumption, JobTypes DEF DiskTypes
<1>3. /\ D!CurrentCount \in 0..rest /\ D!Sectors \in Nat /\ D!CurrentCount <= D!Sectors * job.sector_size
  BY <1>2, PieceSize
<1>4. PICK sx \in Nat, cx \in Nat : sx = D!Sectors * job.sector_size /\ cx = Capacity * job.sector_size
  <2>1. D!Sectors * job.sector_size \in Nat /\ Capacity * job.sector_size \in Nat
    BY <1>2, <1>3, WholeSectors
  <2>2. QED
    BY <2>1
<1>5. /\ sx \in Nat /\ cx \in Nat /\ D!CurrentCount <= sx /\ m \in 0..D!CurrentCount /\ D!CurrentCount \in Nat
      /\ DOMAIN disk = 1..cx
  <2>1. sx \in Nat /\ cx \in Nat /\ DOMAIN disk = 1..cx
    BY <1>2, <1>4
  <2>2. D!CurrentCount <= sx /\ m \in 0..D!CurrentCount
    BY <1>3, <1>4
  <2>3. D!CurrentCount \in Nat
    BY <1>2, <1>3
  <2>4. QED
    BY <2>1, <2>2, <2>3
<1>6. ASSUME NEW p \in 1..m
      PROVE  bytes[p] = disk0[D!First + p] /\ bytes[p] \in DiskUnit
  <2>1. p \in 1..sx /\ p \in 1..D!CurrentCount /\ p \in Nat /\ p > 0
    BY ONLY <1>5, <1>6
  <2>2. D!Unit(p) = D!First + p
    BY <1>2, <1>4, <2>1, PieceIs
  <2>3. D!Unit(p) <= cx
    BY <1>4, <2>1 DEF D!Readable, D!Buffer
  <2>4. D!First + p \in 1..cx /\ D!First + p # 0
    <3>1. D!First + p <= cx /\ D!First \in Nat /\ cx \in Nat
      BY <1>1, <1>5, <2>2, <2>3
    <3>2. QED
      BY <2>1, <3>1
  <2>5. D!FromDisk[p] = disk[D!First + p]
    BY <2>1, <2>2, <2>4 DEF D!FromDisk
  <2>6. disk0[D!First + p] \in DiskUnit
    BY <1>4, <2>4 DEF DiskTypes
  <2>7. QED
    BY <1>0, <2>5, <2>6
<1>7. m \in Nat /\ bytes \in Seq(DiskUnit) /\ Len(bytes) = m
  <2>1. m \in Nat
    BY <1>5
  <2>2. bytes \in [1..m -> DiskUnit]
    BY <1>0, <1>6
  <2>3. QED
    BY <2>1, <2>2
<1>8. /\ image \o bytes \in Seq(DiskUnit) /\ Len(image \o bytes) = Len(image) + Len(bytes)
      /\ \A i \in 1..Len(image) + Len(bytes) :
           (image \o bytes)[i] = IF i <= Len(image) THEN image[i] ELSE bytes[i - Len(image)]
  BY <1>7, ConcatProperties
<1>9. PICK k \in Nat : k = effective_size - rest
  BY <1>2
<1>10. Len(image) = k /\ k \in Nat /\ D!First = DiskFirst + k
  BY <1>1, <1>9 DEF DiskDumped
<1>11. ASSUME NEW i \in 1..k + m
       PROVE  (image \o bytes)[i] = disk0[DiskFirst + i]
  <2>1. CASE i <= k
    <3>1. k \in Nat /\ m \in Nat /\ i \in 1..k + m /\ Len(image) = k /\ Len(bytes) = m
      BY <1>7, <1>10
    <3>2. i \in 1..Len(image) + Len(bytes) /\ i \in 1..Len(image) /\ i <= Len(image)
      BY ONLY <2>1, <3>1
    <3>3. (image \o bytes)[i] = image[i]
      BY <1>8, <3>2
    <3>4. QED
      BY <3>2, <3>3 DEF DiskDumped
  <2>2. CASE i > k
    <3>4. k \in Nat /\ m \in Nat /\ i \in 1..k + m /\ DiskFirst \in Nat
      BY <1>1, <1>7, <1>10
    <3>5. i - k \in 1..m
      BY <2>2, <3>4
    <3>6. DiskFirst + k + (i - k) = DiskFirst + i
      BY <3>4
    <3>1. i - k \in 1..m /\ D!First + (i - k) = DiskFirst + i
      BY <1>10, <3>5, <3>6
    <3>7. i \in 1..Len(image) + Len(bytes) /\ ~(i <= Len(image))
      BY <1>7, <1>10, <2>2, <3>4
    <3>2. (image \o bytes)[i] = bytes[i - k]
      BY <1>8, <1>10, <3>7
    <3>3. QED
      BY <1>6, <3>1, <3>2
  <2>3. QED
    BY <1>7, <1>10, <2>1, <2>2, SMTT(30)
<1>12. QED
  BY <1>0, <1>7, <1>8, <1>9, <1>10, <1>11

\* The range stays what it is when a piece has been copied.
LEMMA DiskRangeKept ==
  ASSUME DevicesAssumption, DiskTypes, DiskFits, DiskRange, image \in Seq(DiskUnit), rest > 0,
         UNCHANGED <<job, effective_size>>, job.restore => image' = image,
         \/ UNCHANGED <<rest, sector_offset>>
         \/ rest' = rest - D!CurrentCount /\ sector_offset' = sector_offset + D!Sectors
  PROVE  DiskRange'
<1>1. /\ rest \in Nat /\ effective_size \in Nat /\ sector_offset \in Nat /\ job \in Jobs /\ job.start \in Nat
  BY DevicesAssumption, JobTypes DEF DiskTypes
<1>2. UNCHANGED <<DiskFirst, DiskSize>> /\ D!SectorCount' = D!SectorCount
  BY DEF DiskFirst, DiskSize, D!SectorCount
<1>3. /\ 0 < D!SectorCount' /\ DiskFirst' + DiskSize' <= Capacity * job'.sector_size
      /\ effective_size' = IF job'.restore THEN D!Least(Len(image'), DiskSize') ELSE DiskSize'
  BY <1>2 DEF DiskRange
<1>4. CASE UNCHANGED <<rest, sector_offset>>
  BY <1>3, <1>4 DEF DiskRange, D!Least
<1>5. CASE rest' = rest - D!CurrentCount /\ sector_offset' = sector_offset + D!Sectors
  <2>1. D!CurrentCount \in Nat /\ D!Sectors \in Nat
    BY <1>1, PieceSize, SMTT(30)
  <2>2. sector_offset' >= job.start
    BY <1>1, <1>5, <2>1, SMTT(30) DEF DiskRange
  <2>3. ASSUME rest' > 0
        PROVE  (effective_size - rest)' = ((sector_offset - job.start) * job.sector_size)'
    <3>1. D!CurrentCount # rest
      BY <1>1, <1>5, <2>1, <2>3
    <3>2. (sector_offset + D!Sectors - job.start) * job.sector_size = effective_size - (rest - D!CurrentCount)
      BY <3>1, PieceInRange
    <3>3. (effective_size - rest)' = effective_size - (rest - D!CurrentCount)
      BY <1>5
    <3>4. ((sector_offset - job.start) * job.sector_size)' = (sector_offset + D!Sectors - job.start) * job.sector_size
      <4>1. sector_offset' - job'.start = sector_offset + D!Sectors - job.start
        <5>1. sector_offset' = sector_offset + D!Sectors
          BY <1>5
        <5>2. job' = job
          OBVIOUS
        <5>3. \A a, b, c \in Nat : (a + b) - c = a + b - c
          OBVIOUS
        <5>4. (sector_offset + D!Sectors) - job.start = sector_offset + D!Sectors - job.start
          BY <1>1, <2>1, <5>3, SMTT(30)
        <5>5. QED
          BY <5>1, <5>2, <5>4
      <4>2. job'.sector_size = job.sector_size
        OBVIOUS
      <4>3. QED
        BY <4>1, <4>2
    <3>5. QED
      BY <3>2, <3>3, <3>4
  <2>4. QED
    BY <1>3, <2>2, <2>3 DEF DiskRange, D!Least
<1>6. QED
  BY <1>4, <1>5

LEMMA DiskCopiesPiece ==
  ASSUME DevicesAssumption, DiskTypes, DiskFits, DiskFollowed, ~job.restore => disk = disk0, D!Copy
  PROVE  DiskFollowed'
<1>1. /\ disk_step = "COPY" /\ rest > 0 /\ effective_size > 0 /\ image \in Seq(DiskUnit) /\ DiskRange
      /\ IF job.restore THEN DiskRestored ELSE DiskDumped
  <2>1. disk_step = "COPY" /\ rest > 0
    BY DEF D!Copy
  <2>2. effective_size > 0
    BY <2>1 DEF DiskFollowed, DiskTypes
  <2>3. QED
    BY <2>1, <2>2 DEF DiskFollowed
<1>2. /\ UNCHANGED <<job, effective_size, disk0>> /\ (job.restore => image' = image)
      /\ disk_step' \in {"COPY", "ERROR"}
      /\ \/ UNCHANGED <<rest, sector_offset>> /\ disk_step' = "ERROR"
         \/ rest' = rest - D!CurrentCount /\ sector_offset' = sector_offset + D!Sectors
  BY <1>1 DEF D!Copy
<1>3. DiskRange'
  BY <1>1, <1>2, DiskRangeKept
<1>4. effective_size' > 0 /\ UNCHANGED <<DiskFirst>>
  BY <1>1, <1>2 DEF DiskFirst
<1>5. /\ job \in Jobs /\ rest \in Nat /\ sector_offset \in Nat /\ effective_size \in Nat /\ rest <= effective_size
      /\ job.sector_size \in {2, 3}
  BY DevicesAssumption, JobTypes DEF DiskTypes
<1>6. D!CurrentCount \in 0..rest /\ D!CurrentCount \in Nat /\ D!Sectors \in Nat
  BY <1>5, PieceSize
<1>7. ASSUME job.restore
      PROVE  image' \in Seq(DiskUnit) /\ DiskRestored'
  <2>1. image' = image /\ DiskRestored
    BY <1>1, <1>2, <1>7
  <2>2. CASE disk' = disk /\ rest' = rest
    <3>1. DiskSize' = DiskSize
      BY <1>2 DEF DiskSize, D!SectorCount
    <3>2. QED
      BY <1>1, <1>2, <1>4, <2>1, <2>2, <3>1 DEF DiskRestored
  <2>3. ASSUME NEW k \in 0..D!Sectors, disk' = D!Overwritten(k * job.sector_size),
               rest' = rest \/ (rest' = rest - D!CurrentCount /\ k = D!Sectors)
        PROVE  DiskRestored'
    <3>1. k \in Nat /\ k <= D!Sectors
      BY <1>6
    <3>2. k * job.sector_size \in Nat /\ D!Sectors * job.sector_size \in Nat
          /\ k * job.sector_size <= D!Sectors * job.sector_size
      BY <1>5, <1>6, <3>1, WholeSectors
    <3>3. PICK n \in 0..D!Sectors * job.sector_size : n = k * job.sector_size
      BY <3>2
    <3>4. \/ rest' = rest
          \/ rest' = rest - D!CurrentCount /\ n = D!Sectors * job.sector_size
      BY <2>3, <3>3
    <3>5. disk' = D!Overwritten(n)
      BY <2>3, <3>3
    <3>6. QED
      BY <1>1, <1>2, <2>1, <3>4, <3>5, DiskWrites
  <2>4. \/ disk' = disk /\ rest' = rest
        \/ disk' = D!Overwritten(D!Sectors * job.sector_size) /\ rest' = rest - D!CurrentCount
        \/ rest' = rest /\ \E k \in 1..D!Sectors : disk' = D!Overwritten(k * job.sector_size)
    BY <1>7 DEF D!Copy
  <2>5. D!Sectors \in 0..D!Sectors /\ \A k \in 1..D!Sectors : k \in 0..D!Sectors
    BY <1>6
  <2>6. DiskRestored'
    BY <2>2, <2>3, <2>4, <2>5
  <2>7. QED
    BY <1>1, <2>1, <2>6
<1>8. ASSUME ~job.restore
      PROVE  image' \in Seq(DiskUnit) /\ DiskDumped'
  <2>1. disk = disk0 /\ DiskDumped
    BY <1>1, <1>8
  <2>2. CASE image' = image /\ rest' = rest /\ disk_step' = "ERROR"
    BY <1>1, <1>2, <1>4, <2>1, <2>2 DEF DiskDumped
  <2>3. ASSUME D!Readable, NEW m \in 0..D!CurrentCount, image' = image \o D!UpTo(m, D!FromDisk),
               disk_step' = "ERROR" \/ (rest' = rest - D!CurrentCount /\ m = D!CurrentCount)
        PROVE  image' \in Seq(DiskUnit) /\ DiskDumped'
    <3>1. /\ image' \in Seq(DiskUnit) /\ Len(image') = effective_size - rest + m
          /\ \A i \in 1..Len(image') : image'[i] = disk0[DiskFirst + i]
      BY <1>1, <2>1, <2>3, DiskReads
    <3>2. m \in Nat /\ m <= rest
      BY <1>5, <1>6
    <3>3. Len(image') <= effective_size
      <4>1. \A a, b, c \in Nat : b <= a /\ c <= b => a - b + c <= a
        OBVIOUS
      <4>2. effective_size - rest + m <= effective_size
        BY <1>5, <3>2, <4>1
      <4>3. QED
        BY <3>1, <4>2
    <3>4. disk_step' # "ERROR" => Len(image') = (effective_size - rest)'
      BY <1>2, <1>5, <1>6, <2>3, <3>1
    <3>5. QED
      BY <1>2, <1>4, <3>1, <3>3, <3>4 DEF DiskDumped
  <2>4. \/ image' = image /\ rest' = rest /\ disk_step' = "ERROR"
        \/ D!Readable /\ image' = image \o D!FromDisk /\ rest' = rest - D!CurrentCount
        \/ /\ disk_step' = "ERROR" /\ D!Readable
           /\ \E m \in 0..D!CurrentCount : image' = image \o D!UpTo(m, D!FromDisk)
    BY <1>8 DEF D!Copy
  <2>5. D!FromDisk = D!UpTo(D!CurrentCount, D!FromDisk) /\ D!CurrentCount \in 0..D!CurrentCount
    BY <1>6 DEF D!FromDisk, D!UpTo
  <2>6. QED
    BY <2>2, <2>3, <2>4, <2>5
<1>9. ~job.restore => disk' = disk0'
  BY DiskTypesKept, <1>2 DEF D!Next
<1>10. QED
  BY <1>1, <1>2, <1>3, <1>4, <1>7, <1>8 DEF DiskFollowed

LEMMA DiskFollowedKept ==
  ASSUME DevicesAssumption, DiskTypes, DiskFits, DiskFollowed, ~job.restore => disk = disk0, D!Next
  PROVE  DiskFollowed'
<1>1. /\ UNCHANGED <<job, disk0>> /\ UNCHANGED <<DiskFirst, DiskSize>> /\ D!SectorCount' = D!SectorCount
  BY DiskKeeps
<1>2. CASE D!DeviceInfo
  <2>1. /\ disk_step = "INFO" /\ UNCHANGED <<disk, effective_size>> /\ disk_step' \in {"ERROR", "SIZE"}
        /\ image' = image \/ (~job.restore /\ image' = <<>>)
        /\ disk_step' = "SIZE" => (job.restore \/ image' = <<>>)
    BY <1>2 DEF D!DeviceInfo
  <2>2. effective_size = 0 /\ disk = disk0 /\ image \in Seq(DiskUnit) /\ <<>> \in Seq(DiskUnit)
    BY <2>1 DEF DiskFollowed
  <2>3. job' = job /\ disk0' = disk0
    BY <1>1
  <2>4. image' \in Seq(DiskUnit)
    BY <2>1, <2>2
  <2>5. QED
    BY <2>1, <2>2, <2>3, <2>4, SMTT(30) DEF DiskFollowed
<1>3. CASE D!CalculateEffectiveSize
  BY <1>3, DiskBegins
<1>4. CASE D!Copy
  BY <1>4, DiskCopiesPiece
<1>5. CASE D!Finish \/ D!SynchronizeCache \/ D!Signal
  <2>1. /\ UNCHANGED <<disk, image, effective_size, sector_offset, rest>>
        /\ \/ disk_step' = disk_step
           \/ disk_step \in {"COPY", "SYNC"} /\ disk_step' \in {"SYNC", "DONE"}
    BY <1>5 DEF D!Finish, D!SynchronizeCache, D!Signal
  <2>2. DiskRange' = DiskRange
    BY <1>1, <2>1 DEF DiskRange, D!Least
  <2>3. DiskRestored' = DiskRestored
    BY <1>1, <2>1 DEF DiskRestored
  <2>4. DiskDumped => DiskDumped'
    BY <1>1, <2>1 DEF DiskDumped
  <2>5. QED
    BY <1>1, <2>1, <2>2, <2>3, <2>4 DEF DiskFollowed
<1>6. QED
  BY <1>2, <1>3, <1>4, <1>5 DEF D!Next

LEMMA DiskInitially == DevicesAssumption /\ Init => DiskInv
<1> SUFFICES ASSUME DevicesAssumption, D!Init
             PROVE  DiskSafe
  BY DEF Init, DiskInv
<1>1. /\ job \in Jobs /\ job.sector_size \in {2, 3} /\ job.image \in Nat /\ Capacity \in Nat /\ W32 \in Nat \ {0}
  BY DevicesAssumption, JobTypes DEF D!Init
<1>2. /\ disk = [u \in 1..Capacity * job.sector_size |-> D!Of("DISK", u)] /\ disk0 = disk
      /\ image = [u \in 1..job.image |-> D!Of("IMAGE", u)]
      /\ effective_size = 0 /\ sector_offset = 0 /\ rest = 0 /\ active = TRUE /\ disk_step = "INFO"
  BY DEF D!Init
<1>3. \A u \in Nat : D!Of("DISK", u) \in DiskUnit /\ D!Of("IMAGE", u) \in DiskUnit
  BY DEF D!Of, DiskUnit
<1>4. \A u \in 1..Capacity * job.sector_size : u \in Nat
  OBVIOUS
<1>5. disk0 \in [1..Capacity * job.sector_size -> DiskUnit]
  BY <1>2, <1>3, <1>4
<1>6. image \in [1..job.image -> DiskUnit]
  BY <1>2, <1>3
<1>7. image \in Seq(DiskUnit)
  BY <1>1, <1>6, SMTT(30)
<1>8. DiskTypes
  BY <1>1, <1>2, <1>5, <1>7 DEF DiskTypes
<1>9. DiskFollowed
  BY <1>2, <1>7 DEF DiskFollowed
<1>10. QED
  BY <1>2, <1>8, <1>9 DEF DiskSafe

LEMMA OtherThanDisk ==
  ASSUME [Next]_vars
  PROVE  \/ UNCHANGED <<part, disk_vars>>
         \/ part = "DISK" /\ D!Next /\ UNCHANGED part
BY DEF Next, vars, Transfer, Host, Spool, Net, Generic, Disk, TapeCopy, Simh, Exec, Mode, Config

LEMMA DiskStep == DevicesAssumption /\ DiskInv /\ [Next]_vars => DiskInv'
<1> SUFFICES ASSUME DevicesAssumption, DiskInv, [Next]_vars, part' = "DISK"
             PROVE  DiskSafe'
  BY DEF DiskInv
<1>1. part = "DISK" /\ DiskSafe
  BY OtherThanDisk DEF DiskInv
<1>2. CASE UNCHANGED <<part, disk_vars>>
  <2>1. UNCHANGED <<job, disk, image, effective_size, sector_offset, rest, active, disk_step, disk0>>
    BY <1>2 DEF disk_vars
  <2>2. DiskTypes' = DiskTypes
    BY <2>1 DEF DiskTypes
  <2>3. DiskFits' = DiskFits /\ DiskFollowed' = DiskFollowed
    BY <2>1 DEF DiskFits, DiskFollowed, DiskRange, DiskRestored, DiskDumped, DiskFirst, DiskSize,
                D!SectorCount, D!Least
  <2>4. QED
    BY <1>1, <2>1, <2>2, <2>3 DEF DiskSafe
<1>3. CASE D!Next
  <2>1. DiskTypes' /\ (~job'.restore => disk' = disk0')
    BY <1>1, <1>3, DiskTypesKept DEF DiskSafe
  <2>2. DiskFits' = DiskFits
    BY <1>3, DiskKeeps
  <2>3. QED
    BY <1>1, <1>3, <2>1, <2>2, DiskFollowedKept DEF DiskSafe
<1>4. QED
  BY <1>2, <1>3, OtherThanDisk

LEMMA DiskCopies == DevicesAssumption /\ DiskInv => (part = "DISK" => D!DiskCopied /\ D!TypeOK)
<1> SUFFICES ASSUME DevicesAssumption, DiskSafe
             PROVE  D!DiskCopied /\ D!TypeOK
  BY DEF DiskInv
<1>1. D!TypeOK
  BY DEF DiskSafe, DiskTypes, D!TypeOK
<1>2. ASSUME job.driver = "BOARD", job.buffer % job.sector_size = 0, DiskSize < W32,
             job.buffer \div job.sector_size < W16
      PROVE  IF job.restore
             THEN /\ \A u \in DOMAIN disk : u <= DiskFirst \/ u > DiskFirst + DiskSize => disk[u] = disk0[u]
                  /\ disk_step = "DONE" /\ rest = 0 =>
                       \A i \in 1..D!Least(DiskSize, Len(image)) : disk[DiskFirst + i] = image[i]
             ELSE /\ \A i \in 1..Len(image) : disk_step \notin {"INFO", "SIZE"} /\ effective_size > 0 =>
                       image[i] = disk0[DiskFirst + i]
                  /\ disk_step = "DONE" /\ rest = 0 => Len(image) = DiskSize
  <2>1. DiskFollowed /\ effective_size \in Nat /\ DiskTypes
    BY <1>2, DevicesAssumption, SMTT(30) DEF DiskFits, DiskSafe, DiskTypes
  <2>2. CASE effective_size = 0
    BY <2>1, <2>2 DEF DiskFollowed
  <2>3. CASE effective_size > 0
    <3>1. DiskRange /\ Len(image) \in Nat /\ effective_size - 0 = effective_size
      BY <2>1, <2>3 DEF DiskFollowed
    <3>2. CASE job.restore
      <4>1. DiskRestored
        BY <2>1, <2>3, <3>2 DEF DiskFollowed
      <4>2. DiskSize \in Int
        <5>1. job.start \in Nat /\ job.count \in Nat /\ job.sector_size \in {2, 3} /\ Capacity \in Nat
          BY <2>1, DevicesAssumption, JobTypes DEF DiskTypes
        <5>2. D!SectorCount \in Int
          BY <5>1 DEF D!SectorCount
        <5>3. QED
          BY <5>1, <5>2 DEF DiskSize
      <4>3. D!Least(DiskSize, Len(image)) = D!Least(Len(image), DiskSize)
        BY <3>1, <4>2 DEF D!Least
      <4>4. QED
        BY <3>1, <3>2, <4>1, <4>3 DEF DiskRestored, DiskRange
    <3>3. CASE ~job.restore
      <4>1. DiskDumped
        BY <2>1, <2>3, <3>3 DEF DiskFollowed
      <4>2. QED
        BY <3>1, <3>3, <4>1 DEF DiskDumped, DiskRange
    <3>4. QED
      BY <3>2, <3>3
  <2>4. QED
    BY <2>1, <2>2, <2>3
<1>3. ~job.restore => disk = disk0
  BY DEF DiskSafe
<1>4. QED
  BY <1>1, <1>2, <1>3 DEF D!DiskCopied, D!CopiesAll, DiskFirst, DiskSize

(* s2psimh. *)

SimhClass == {"RECORD", "GOOD", "BAD", "PRIVATE", "RESERVED", "GARBAGE"}
SimhObject == [cls : SimhClass, value : Nat]
Meta(o, k) == [is |-> "META", of |-> <<o.cls, o.value, k>>]
SimhByte ==
  {S!Zero, S!Undefined} \cup {S!Data(k) : k \in Nat} \cup {Meta(o, k) : o \in SimhObject, k \in 1..2}
Listed == [cls : SimhClass, value : Nat, data : Seq(SimhByte)]

\* The bytes of an object in the file, and where the objects end in it.
SizeOf(o) == IF S!IsRecord(o) THEN S!Pad(o.value) + 4 ELSE 2
Layout ==
  CHOOSE at \in [0..Len(S!Objects) -> Nat] :
    at[0] = 0 /\ \A i \in 1..Len(S!Objects) : at[i] = at[i - 1] + SizeOf(S!Objects[i])

\* The file has an object, with its part of the data file or zeros.
PartOf(i) ==
  [k \in 1..S!Objects[i].value |-> IF S!HasDataFile THEN S!Data(S!Offset[i - 1] + k) ELSE S!Zero]
FileHas(i) ==
  LET o == S!Objects[i] IN
  /\ simh_file[Layout[i - 1] + 1] = Meta(o, 1) /\ simh_file[Layout[i - 1] + 2] = Meta(o, 2)
  /\ S!IsRecord(o) =>
       /\ \A k \in 1..o.value : simh_file[Layout[i - 1] + 2 + k] = PartOf(i)[k]
       /\ simh_file[Layout[i] - 1] = Meta(o, 1) /\ simh_file[Layout[i]] = Meta(o, 2)

SimhTypes ==
  /\ addition \in [objects : Seq(SimhObject), data : Int] /\ limit \in Limits
  /\ simh_file \in Seq(SimhByte) /\ index \in 0..Len(S!Objects) /\ data_index \in Nat
  /\ simh_position \in Nat /\ lost \in BOOLEAN
  /\ simh_step \in {"OPEN", "ADD", "ANALYZE", "ADD_ERROR", "ERROR", "SUCCESS"}

\* The objects that were added are in the file.
SimhWritten ==
  /\ Len(simh_file) = Layout[index] /\ \A i \in 1..index : FileHas(i)
  /\ data_index = IF S!HasDataFile THEN S!Offset[index] ELSE 0

\* What was found so far are these objects, and the next one is at the position.
SimhListed ==
  LET n == Len(listing) IN
  /\ listing \in Seq(Listed) /\ n <= Len(S!Objects) /\ simh_position = Layout[n]
  /\ \A i \in 1..n : /\ listing[i].cls = S!Objects[i].cls /\ listing[i].value = S!Objects[i].value
                     /\ S!IsRecord(S!Objects[i]) => listing[i].data = PartOf(i)
                     /\ S!Ends(S!Objects[i]) => i = n /\ simh_step = "SUCCESS"
  /\ simh_step = "SUCCESS" => n = Len(S!Objects) \/ (n > 0 /\ S!Ends(S!Objects[n]))

SimhFollowed ==
  /\ simh_step = "OPEN" => index = 0 /\ data_index = 0
  /\ simh_step \in {"OPEN", "ADD", "ADD_ERROR"} => simh_position = 0 /\ listing = <<>>
  /\ simh_step = "ADD_ERROR" => index = 0
  /\ simh_step = "ADD" => SimhWritten
  /\ simh_step # "ERROR"
  /\ simh_step \in {"ANALYZE", "SUCCESS"} => index = Len(S!Objects) /\ SimhWritten /\ SimhListed

SimhInv == part = "SIMH" => SimhTypes /\ (S!Proper => SimhFollowed)

\* Partial sums: there are some, and they do not decrease.
LEMMA SumsExist ==
  ASSUME NEW n \in Nat, NEW z \in [1..n -> Nat]
  PROVE  \E f \in [0..n -> Nat] : f[0] = 0 /\ \A i \in 1..n : f[i] = f[i - 1] + z[i]
<1> DEFINE h == [x \in Nat \X (1..n) |-> x[1] + z[x[2]]]
<1>1. \A v \in Nat, i \in 1..n : h[<<v, i>>] = v + z[i] /\ h[<<v, i>>] \in Nat
  OBVIOUS
<1> HIDE DEF h
<1>2. Closed(h, Nat, n)
  BY <1>1 DEF Closed
<1>3. PICK f \in [0..n -> Nat] : Iterates(f, 0, h, n)
  BY <1>2, Recursion
<1>4. f[0] = 0
  BY <1>3 DEF Iterates
<1>5. ASSUME NEW i \in 1..n
      PROVE  f[i] = f[i - 1] + z[i]
  <2>1. f[i] = h[<<f[i - 1], i>>]
    BY <1>3 DEF Iterates
  <2>2. i - 1 \in 0..n
    OBVIOUS
  <2>3. f[i - 1] \in Nat
    BY <2>2
  <2>4. QED
    BY <1>1, <2>1, <2>3
<1>6. QED
  BY <1>4, <1>5

LEMMA SumsGrow ==
  ASSUME NEW n \in Nat, NEW z \in [1..n -> Nat], NEW F, F[0] = 0,
         \A i \in 1..n : F[i] = F[i - 1] + z[i]
  PROVE  \A i \in 0..n : F[i] \in Nat /\ \A j \in 0..i : F[j] <= F[i]
<1> DEFINE A == {i \in 0..n : F[i] \in Nat /\ \A j \in 0..i : F[j] \in Nat /\ F[j] <= F[i]}
<1>1. 0 \in A
  OBVIOUS
<1>2. ASSUME NEW i \in 0..n - 1, i \in A
      PROVE  i + 1 \in A
  <2>1. i + 1 \in 1..n /\ i + 1 - 1 = i /\ i + 1 \in 0..n
    OBVIOUS
  <2>2. F[i + 1] = F[i] + z[i + 1] /\ z[i + 1] \in Nat
    BY <2>1
  <2>3. F[i] \in Nat /\ F[i + 1] \in Nat /\ F[i] <= F[i + 1]
    BY <1>2, <2>2
  <2>4. ASSUME NEW j \in 0..i + 1
        PROVE  F[j] \in Nat /\ F[j] <= F[i + 1]
    <3>1. CASE j = i + 1
      BY <2>3, <3>1
    <3>2. CASE j # i + 1
      <4>1. j \in 0..i
        BY <3>2
      <4>2. F[j] <= F[i] /\ F[j] \in Nat
        BY <1>2, <4>1
      <4>3. QED
        BY <2>3, <4>2
    <3>3. QED
      BY <3>1, <3>2
  <2>5. QED
    BY <2>1, <2>3, <2>4
<1> HIDE DEF A
<1>3. \A i \in 0..n : i \in A
  BY <1>1, <1>2, UpTo
<1>4. QED
  BY <1>3 DEF A

LEMMA SizeIs ==
  ASSUME NEW o \in SimhObject
  PROVE  /\ S!IsRecord(o) \in BOOLEAN /\ S!Pad(o.value) \in Nat /\ SizeOf(o) \in Nat /\ SizeOf(o) >= 2
         /\ o.value \in Nat /\ o.value <= S!Pad(o.value) /\ o.cls \in SimhClass
<1>1. o.value \in Nat /\ o.cls \in SimhClass
  BY DEF SimhObject
<1>2. S!Pad(o.value) \in Nat /\ o.value <= S!Pad(o.value)
  BY <1>1 DEF S!Pad
<1>3. S!IsRecord(o) \in BOOLEAN
  BY DEF S!IsRecord
<1>4. QED
  BY <1>1, <1>2, <1>3 DEF SizeOf

\* Objects follow each other in the file.
LEMMA LayoutIs ==
  ASSUME S!Objects \in Seq(SimhObject)
  PROVE  /\ Layout[0] = 0 /\ \A i \in 1..Len(S!Objects) : Layout[i] = Layout[i - 1] + SizeOf(S!Objects[i])
         /\ \A i \in 0..Len(S!Objects) : Layout[i] \in Nat /\ \A j \in 0..i : Layout[j] <= Layout[i]
<1> DEFINE n == Len(S!Objects)
           z == [i \in 1..n |-> SizeOf(S!Objects[i])]
<1>1. n \in Nat
  OBVIOUS
<1>2. \A i \in 1..n : SizeOf(S!Objects[i]) \in Nat
  BY SizeIs, ElementOfSeq
<1>3. z \in [1..n -> Nat] /\ \A i \in 1..n : z[i] = SizeOf(S!Objects[i])
  BY <1>2
<1>4. Layout = CHOOSE f \in [0..n -> Nat] : f[0] = 0 /\ \A i \in 1..n : f[i] = f[i - 1] + SizeOf(S!Objects[i])
  BY DEF Layout
<1> HIDE DEF n, z
<1>5. \E f \in [0..n -> Nat] : f[0] = 0 /\ \A i \in 1..n : f[i] = f[i - 1] + z[i]
  BY <1>1, <1>3, SumsExist
<1>6. \E f \in [0..n -> Nat] : f[0] = 0 /\ \A i \in 1..n : f[i] = f[i - 1] + SizeOf(S!Objects[i])
  BY <1>3, <1>5
<1>7. Layout[0] = 0 /\ \A i \in 1..n : Layout[i] = Layout[i - 1] + SizeOf(S!Objects[i])
  BY <1>4, <1>6
<1>8. \A i \in 1..n : Layout[i] = Layout[i - 1] + z[i]
  BY <1>3, <1>7
<1>9. \A i \in 0..n : Layout[i] \in Nat /\ \A j \in 0..i : Layout[j] <= Layout[i]
  BY <1>1, <1>3, <1>7, <1>8, SumsGrow
<1>10. QED
  BY <1>7, <1>9 DEF n

\* The data of the records follow each other in the data file.
DataOf(o) == IF S!IsRecord(o) THEN o.value ELSE 0
LEMMA OffsetIs ==
  ASSUME S!Objects \in Seq(SimhObject)
  PROVE  /\ S!Offset[0] = 0 /\ \A i \in 1..Len(S!Objects) : S!Offset[i] = S!Offset[i - 1] + DataOf(S!Objects[i])
         /\ \A i \in 0..Len(S!Objects) : S!Offset[i] \in Nat /\ \A j \in 0..i : S!Offset[j] <= S!Offset[i]
<1> DEFINE n == Len(S!Objects)
           z == [i \in 1..n |-> DataOf(S!Objects[i])]
           F == S!Offset
<1>1. n \in Nat
  OBVIOUS
<1>2. \A i \in 1..n : DataOf(S!Objects[i]) \in Nat
  <2>1. \A i \in 1..Len(S!Objects) : S!Objects[i] \in SimhObject
    BY ElementOfSeq
  <2>2. \A o \in SimhObject : DataOf(o) \in Nat
    BY SizeIs DEF DataOf
  <2>3. QED
    BY <2>1, <2>2
<1>3. z \in [1..n -> Nat] /\ \A i \in 1..n : z[i] = DataOf(S!Objects[i])
  BY <1>2
<1>4. F = CHOOSE f : f = [i \in 0..n |-> IF i = 0 THEN 0 ELSE f[i - 1] + DataOf(S!Objects[i])]
  BY DEF S!Offset, DataOf
<1> HIDE DEF n, z, F
<1>5. PICK f \in [0..n -> Nat] : f[0] = 0 /\ \A i \in 1..n : f[i] = f[i - 1] + z[i]
  BY <1>1, <1>3, SumsExist
<1>6. f = [i \in 0..n |-> IF i = 0 THEN 0 ELSE f[i - 1] + DataOf(S!Objects[i])]
  <2>1. ASSUME NEW i \in 0..n
        PROVE  f[i] = IF i = 0 THEN 0 ELSE f[i - 1] + DataOf(S!Objects[i])
    <3>1. i # 0 => i \in 1..n
      BY <1>1
    <3>2. QED
      BY <1>3, <1>5, <3>1
  <2>2. QED
    BY <2>1
<1>7. F = [i \in 0..n |-> IF i = 0 THEN 0 ELSE F[i - 1] + DataOf(S!Objects[i])]
  BY <1>4, <1>6
<1>8. F[0] = 0 /\ \A i \in 1..n : F[i] = F[i - 1] + DataOf(S!Objects[i])
  <2>1. F[0] = 0
    BY <1>1, <1>7
  <2>2. ASSUME NEW i \in 1..n
        PROVE  F[i] = F[i - 1] + DataOf(S!Objects[i])
    <3>1. i \in 0..n /\ i # 0
      BY <1>1
    <3>2. QED
      BY <1>7, <3>1
  <2>3. QED
    BY <2>1, <2>2
<1>9. \A i \in 1..n : F[i] = F[i - 1] + z[i]
  BY <1>3, <1>8
<1>10. \A i \in 0..n : F[i] \in Nat /\ \A j \in 0..i : F[j] <= F[i]
  BY <1>1, <1>3, <1>8, <1>9, SumsGrow
<1>11. QED
  BY <1>8, <1>10 DEF n, F

LEMMA TwoBytes ==
  ASSUME simh_file \in Seq(SimhByte), NEW p \in Nat, p + 2 <= Len(simh_file), NEW at,
         at = SubSeq(simh_file, p + 1, p + 2)
  PROVE  /\ DOMAIN at = 1..2 /\ at[1] = simh_file[p + 1] /\ at[2] = simh_file[p + 2]
         /\ at[1] \in SimhByte /\ at[2] \in SimhByte
<1>1. p + 1 \in Int /\ p + 2 \in Int /\ Len(simh_file) \in Nat
  OBVIOUS
<1>2. \A i \in p + 1..p + 2 : simh_file[i] \in SimhByte
  <2>1. ASSUME NEW i \in p + 1..p + 2
        PROVE  i \in 1..Len(simh_file)
    BY <1>1
  <2>2. QED
    BY <2>1, ElementOfSeq
<1>3. /\ at \in Seq(SimhByte)
      /\ Len(at) = IF p + 1 <= p + 2 THEN p + 2 - (p + 1) + 1 ELSE 0
      /\ \A i \in 1..p + 2 - (p + 1) + 1 : at[i] = simh_file[p + 1 + i - 1]
  BY <1>1, <1>2, SubSeqProperties
<1>4. Len(at) = 2 /\ DOMAIN at = 1..2
  <2>1. p + 2 - (p + 1) + 1 = 2 /\ p + 1 <= p + 2
    OBVIOUS
  <2>2. Len(at) = 2
    BY <1>3, <2>1
  <2>3. QED
    BY <1>3, <2>2, LenProperties
<1>5. /\ p + 2 - (p + 1) + 1 = 2 /\ p + 1 + 1 - 1 = p + 1 /\ p + 1 + 2 - 1 = p + 2
  OBVIOUS
<1>6. 1 \in 1..p + 2 - (p + 1) + 1 /\ 2 \in 1..p + 2 - (p + 1) + 1
  BY <1>5
<1>7. at[1] = simh_file[p + 1] /\ at[2] = simh_file[p + 2]
  BY <1>3, <1>5, <1>6
<1>8. p + 1 \in p + 1..p + 2 /\ p + 2 \in p + 1..p + 2
  OBVIOUS
<1>9. QED
  BY <1>2, <1>4, <1>7, <1>8

\* Bytes that are one of a length field come from an object.
LEMMA MetaBytes ==
  /\ \A b \in SimhByte : b.is = "META" => \E o \in SimhObject, k \in 1..2 : b = Meta(o, k)
  /\ \A o \in SimhObject, k \in 1..2 :
       /\ Meta(o, k) \in SimhByte /\ Meta(o, k).is = "META" /\ Meta(o, k).of[1] = o.cls
       /\ Meta(o, k).of[2] = o.value /\ Meta(o, k).of[3] = k
  /\ S!Zero \in SimhByte /\ S!Undefined \in SimhByte /\ \A k \in Nat : S!Data(k) \in SimhByte
<1>1. ASSUME NEW b \in SimhByte, b.is = "META"
      PROVE  \E o \in SimhObject, k \in 1..2 : b = Meta(o, k)
  BY <1>1 DEF SimhByte, S!Zero, S!Undefined, S!Data
<1>2. ASSUME NEW o \in SimhObject, NEW k \in 1..2
      PROVE  /\ Meta(o, k) \in SimhByte /\ Meta(o, k).is = "META" /\ Meta(o, k).of[1] = o.cls
             /\ Meta(o, k).of[2] = o.value /\ Meta(o, k).of[3] = k
  <2>1. Meta(o, k) \in SimhByte
    BY DEF SimhByte
  <2>2. QED
    BY <2>1 DEF Meta
<1>3. S!Zero \in SimhByte /\ S!Undefined \in SimhByte /\ \A k \in Nat : S!Data(k) \in SimhByte
  BY DEF SimhByte
<1>4. QED
  BY <1>1, <1>2, <1>3

LEMMA MetaTypes ==
  ASSUME W28 \in Nat \ {0}, simh_file \in Seq(SimhByte), NEW p \in Nat, p + 2 <= Len(simh_file)
  PROVE  S!MetaAt(p) \in SimhObject
<1> DEFINE at == SubSeq(simh_file, p + 1, p + 2)
           kinds == {at[i].is : i \in DOMAIN at}
<1>1. DOMAIN at = 1..2 /\ at[1] \in SimhByte
  BY TwoBytes
<1>2. S!MetaAt(p) = IF kinds = {"META"} /\ at[1].of[3] = 1 THEN [cls |-> at[1].of[1], value |-> at[1].of[2]]
                    ELSE IF kinds = {"ZERO"} THEN [cls |-> "GOOD", value |-> 0]
                    ELSE [cls |-> "GARBAGE", value |-> W28]
  BY DEF S!MetaAt, S!META_DATA_SIZE
<1>3. at[1].is \in kinds
  BY <1>1
<1> HIDE DEF at, kinds
<1>4. ASSUME kinds = {"META"}
      PROVE  [cls |-> at[1].of[1], value |-> at[1].of[2]] \in SimhObject
  <2>1. at[1].is = "META"
    BY <1>3, <1>4
  <2>2. PICK o \in SimhObject, k \in 1..2 : at[1] = Meta(o, k)
    BY <1>1, <2>1, MetaBytes
  <2>3. at[1].of[1] = o.cls /\ at[1].of[2] = o.value
    BY <2>2, MetaBytes
  <2>4. QED
    BY <2>3 DEF SimhObject
<1>5. [cls |-> "GOOD", value |-> 0] \in SimhObject /\ [cls |-> "GARBAGE", value |-> W28] \in SimhObject
  BY DEF SimhObject, SimhClass
<1>6. QED
  BY <1>2, <1>4, <1>5

LEMMA MetaIs ==
  ASSUME simh_file \in Seq(SimhByte), NEW p \in Nat, p + 2 <= Len(simh_file), NEW o \in SimhObject,
         simh_file[p + 1] = Meta(o, 1), simh_file[p + 2] = Meta(o, 2)
  PROVE  S!MetaAt(p) = o
<1> DEFINE at == SubSeq(simh_file, p + 1, p + 2)
           kinds == {at[i].is : i \in DOMAIN at}
<1>1. DOMAIN at = 1..2 /\ at[1] = Meta(o, 1) /\ at[2] = Meta(o, 2)
  BY TwoBytes
<1>2. S!MetaAt(p) = IF kinds = {"META"} /\ at[1].of[3] = 1 THEN [cls |-> at[1].of[1], value |-> at[1].of[2]]
                    ELSE IF kinds = {"ZERO"} THEN [cls |-> "GOOD", value |-> 0]
                    ELSE [cls |-> "GARBAGE", value |-> W28]
  BY DEF S!MetaAt, S!META_DATA_SIZE
<1>3. \A i \in 1..2 : at[i].is = "META"
  <2>1. at[1].is = "META" /\ at[2].is = "META"
    BY <1>1, MetaBytes
  <2>2. QED
    BY <2>1
<1>4. kinds = {"META"}
  <2>1. 1 \in DOMAIN at
    BY <1>1
  <2>2. \A i \in DOMAIN at : at[i].is = "META"
    BY <1>1, <1>3
  <2> HIDE DEF at
  <2>3. QED
    BY <2>1, <2>2
<1>5. at[1].of[1] = o.cls /\ at[1].of[2] = o.value /\ at[1].of[3] = 1
  BY <1>1, MetaBytes
<1> HIDE DEF at, kinds
<1>6. S!MetaAt(p) = [cls |-> o.cls, value |-> o.value]
  BY <1>2, <1>4, <1>5
<1>7. QED
  BY <1>6 DEF SimhObject

LEMMA LengthFields ==
  ASSUME W28 \in Nat \ {0}, NEW o \in SimhObject
  PROVE  /\ S!ToLittleEndian(o) \in Seq(SimhByte) /\ Len(S!ToLittleEndian(o)) = 2 /\ o.value % W28 \in Nat
         /\ o.value < W28 => /\ o.value % W28 = o.value
                            /\ S!ToLittleEndian(o)[1] = Meta(o, 1) /\ S!ToLittleEndian(o)[2] = Meta(o, 2)
<1>1. o.value \in Nat /\ o.cls \in SimhClass
  BY SizeIs
<1>2. o.value % W28 \in Nat
  BY <1>1
<1> DEFINE v == o.value % W28
           q == [cls |-> o.cls, value |-> v]
<1> HIDE DEF v
<1>3. q \in SimhObject
  BY <1>1, <1>2 DEF SimhObject, v
<1>4. S!ToLittleEndian(o) = [i \in 1..2 |-> Meta(q, i)]
  BY DEF S!ToLittleEndian, S!META_DATA_SIZE, Meta, v
<1>5. \A i \in 1..2 : Meta(q, i) \in SimhByte
  BY <1>3, MetaBytes
<1>6. S!ToLittleEndian(o) \in Seq(SimhByte) /\ Len(S!ToLittleEndian(o)) = 2
  BY <1>4, <1>5
<1>7. ASSUME o.value < W28
      PROVE  /\ o.value % W28 = o.value
             /\ S!ToLittleEndian(o)[1] = Meta(o, 1) /\ S!ToLittleEndian(o)[2] = Meta(o, 2)
  <2>1. v = o.value
    BY <1>1, <1>7 DEF v
  <2>2. Meta(q, 1) = Meta(o, 1) /\ Meta(q, 2) = Meta(o, 2)
    BY <2>1 DEF Meta
  <2>3. S!ToLittleEndian(o)[1] = Meta(q, 1) /\ S!ToLittleEndian(o)[2] = Meta(q, 2)
    BY <1>4
  <2>4. QED
    BY <2>1, <2>2, <2>3 DEF v
<1>8. QED
  BY <1>2, <1>6, <1>7

\* The bytes of a record: its part of the data file or a hole, and the pad byte.
LEMMA RecordIs ==
  ASSUME data_index \in Nat, addition.data \in Int, NEW n \in Nat
  PROVE  LET r == S!RecordBytes(n) IN
         /\ r \in Seq(SimhByte)
         /\ S!HasDataFile \/ n % 2 = 0 => Len(r) = S!Pad(n)
         /\ Len(r) \in Nat /\ Len(r) >= n
         /\ \A k \in 1..n : r[k] = IF ~S!HasDataFile THEN S!Zero
                                    ELSE IF data_index + k <= addition.data THEN S!Data(data_index + k)
                                    ELSE S!Undefined
<1> DEFINE b == IF S!HasDataFile THEN S!FromDataFile(n) ELSE S!Hole(S!Pad(n))
           p == IF n # S!Pad(n) THEN <<S!Zero>> ELSE <<>>
           r == S!RecordBytes(n)
           m == IF S!HasDataFile THEN n ELSE S!Pad(n)
           e(k) == IF ~S!HasDataFile THEN S!Zero
                   ELSE IF data_index + k <= addition.data THEN S!Data(data_index + k) ELSE S!Undefined
<1>1. S!Pad(n) \in Nat /\ n <= S!Pad(n) /\ S!Pad(n) <= n + 1 /\ (n % 2 = 0 => S!Pad(n) = n)
  BY DEF S!Pad
<1>2. r = b \o p
  BY DEF S!RecordBytes
<1>3. b = [k \in 1..m |-> e(k)]
  BY DEF S!FromDataFile, S!Hole
<1>4. m \in Nat /\ n <= m
  BY <1>1
<1>5. \A k \in 1..m : e(k) \in SimhByte
  BY <1>4, MetaBytes
<1>6. p \in Seq(SimhByte) /\ Len(p) = IF n # S!Pad(n) THEN 1 ELSE 0
  BY MetaBytes
<1> HIDE DEF p
<1>7. b \in Seq(SimhByte) /\ Len(b) = m /\ \A k \in 1..n : b[k] = e(k)
  <2>1. b \in [1..m -> SimhByte]
    BY <1>3, <1>5
  <2> HIDE DEF e, m
  <2>2. \A k \in 1..n : k \in 1..m
    BY <1>4
  <2>3. \A k \in 1..n : b[k] = e(k)
    BY <1>3, <2>2
  <2> HIDE DEF b
  <2>4. b \in Seq(SimhByte) /\ Len(b) = m
    BY <1>4, <2>1
  <2>5. QED
    BY <2>3, <2>4
<1> HIDE DEF b, r
<1>8. /\ b \o p \in Seq(SimhByte) /\ Len(b \o p) = Len(b) + Len(p)
      /\ \A i \in 1..Len(b) + Len(p) : (b \o p)[i] = IF i <= Len(b) THEN b[i] ELSE p[i - Len(b)]
  BY <1>6, <1>7, ConcatProperties
<1>9. Len(r) = m + (IF n # S!Pad(n) THEN 1 ELSE 0) /\ r \in Seq(SimhByte)
  BY <1>2, <1>6, <1>7, <1>8
<1>10. ASSUME NEW k \in 1..n
       PROVE  r[k] = e(k)
  <2>1. k \in 1..Len(b) + Len(p) /\ k <= Len(b)
    BY <1>4, <1>6, <1>7
  <2>2. (b \o p)[k] = b[k]
    BY <1>8, <2>1
  <2>3. QED
    BY <1>2, <1>7, <2>2
<1>11. S!HasDataFile \/ n % 2 = 0 => Len(r) = S!Pad(n)
  BY <1>1, <1>9 DEF S!Pad
<1>12. Len(r) \in Nat /\ Len(r) >= n
  BY <1>1, <1>4, <1>9
<1>13. QED
  BY <1>9, <1>10, <1>11, <1>12 DEF r

Follows(g, n, m) == \A i \in 1..Len(m) : g[n + i] = m[i]
LEMMA Joined ==
  ASSUME NEW V, NEW f \in Seq(V), NEW m \in Seq(V)
  PROVE  /\ f \o m \in Seq(V) /\ Len(f \o m) = Len(f) + Len(m)
         /\ \A i \in 1..Len(f) : (f \o m)[i] = f[i]
         /\ Follows(f \o m, Len(f), m)
<1>1. /\ f \o m \in Seq(V) /\ Len(f \o m) = Len(f) + Len(m)
      /\ \A i \in 1..Len(f) + Len(m) : (f \o m)[i] = IF i <= Len(f) THEN f[i] ELSE m[i - Len(f)]
  BY ConcatProperties
<1>2. Len(f) \in Nat /\ Len(m) \in Nat
  BY LenProperties
<1>3. ASSUME NEW i \in 1..Len(f)
      PROVE  (f \o m)[i] = f[i]
  <2>1. i \in 1..Len(f) + Len(m) /\ i <= Len(f)
    BY <1>2
  <2>2. QED
    BY <1>1, <2>1
<1>4. ASSUME NEW i \in 1..Len(m)
      PROVE  (f \o m)[Len(f) + i] = m[i]
  <2>1. Len(f) + i \in 1..Len(f) + Len(m) /\ ~(Len(f) + i <= Len(f)) /\ Len(f) + i - Len(f) = i
    BY <1>2
  <2>2. QED
    BY <1>1, <2>1
<1>5. QED
  BY <1>1, <1>3, <1>4 DEF Follows

\* A record in the file: the length, the data, and the length again.
Frames(g, f, m, r, x, y) ==
  /\ Len(g) = x + y + 4
  /\ \A i \in 1..x : g[i] = f[i]
  /\ g[x + 1] = m[1] /\ g[x + 2] = m[2]
  /\ \A k \in 1..y : g[x + 2 + k] = r[k]
  /\ g[x + y + 3] = m[1] /\ g[x + y + 4] = m[2]
LEMMA Framed ==
  ASSUME NEW V, NEW f \in Seq(V), NEW m \in Seq(V), NEW r \in Seq(V), Len(m) = 2,
         NEW x \in Nat, NEW y \in Nat, Len(f) = x, Len(r) = y
  PROVE  f \o m \o r \o m \in Seq(V) /\ Frames(f \o m \o r \o m, f, m, r, x, y)
<1> DEFINE a == f \o m
           b == a \o r
           g == b \o m
<1>1. PICK x2 \in Nat, xy \in Nat : x2 = x + 2 /\ xy = x2 + y
  OBVIOUS
<1>2. /\ a \in Seq(V) /\ Len(a) = x2 /\ \A i \in 1..x : a[i] = f[i]
      /\ \A i \in 1..2 : a[x + i] = m[i]
  <2>1. /\ a \in Seq(V) /\ Len(a) = Len(f) + Len(m) /\ \A i \in 1..Len(f) : a[i] = f[i]
        /\ Follows(a, Len(f), m)
    BY Joined
  <2>2. QED
    BY <1>1, <2>1 DEF Follows
<1> HIDE DEF a
<1>3. /\ b \in Seq(V) /\ Len(b) = xy /\ \A i \in 1..x2 : b[i] = a[i]
      /\ \A i \in 1..y : b[x2 + i] = r[i]
  <2>1. /\ b \in Seq(V) /\ Len(b) = Len(a) + Len(r) /\ \A i \in 1..Len(a) : b[i] = a[i]
        /\ Follows(b, Len(a), r)
    BY <1>2, Joined, ZenonT(30)
  <2>2. QED
    BY <1>1, <1>2, <2>1 DEF Follows
<1> HIDE DEF b
<1>4. /\ g \in Seq(V) /\ Len(g) = xy + 2 /\ \A i \in 1..xy : g[i] = b[i]
      /\ \A i \in 1..2 : g[xy + i] = m[i]
  <2>1. /\ g \in Seq(V) /\ Len(g) = Len(b) + Len(m) /\ \A i \in 1..Len(b) : g[i] = b[i]
        /\ Follows(g, Len(b), m)
    BY <1>3, Joined, ZenonT(30)
  <2>2. QED
    BY <1>3, <2>1 DEF Follows
<1> HIDE DEF g
<1>5. Len(g) = x + y + 4
  BY <1>1, <1>4
<1>6. ASSUME NEW i \in 1..x
      PROVE  g[i] = f[i]
  <2>1. i \in 1..x2 /\ i \in 1..xy
    BY <1>1
  <2>2. QED
    BY <1>2, <1>3, <1>4, <2>1
<1>7. ASSUME NEW i \in 1..2
      PROVE  g[x + i] = m[i]
  <2>1. x + i \in 1..x2 /\ x + i \in 1..xy
    BY <1>1
  <2>2. QED
    BY <1>2, <1>3, <1>4, <2>1
<1>8. ASSUME NEW k \in 1..y
      PROVE  g[x + 2 + k] = r[k]
  <2>1. x2 + k \in 1..xy /\ x2 + k = x + 2 + k
    BY <1>1
  <2>2. QED
    BY <1>3, <1>4, <2>1
<1>9. xy + 1 = x + y + 3 /\ xy + 2 = x + y + 4
  BY <1>1
<1>10. g[x + 1] = m[1] /\ g[x + 2] = m[2] /\ g[x + y + 3] = m[1] /\ g[x + y + 4] = m[2]
  <2>1. 1 \in 1..2 /\ 2 \in 1..2
    OBVIOUS
  <2>2. g[xy + 1] = m[1] /\ g[xy + 2] = m[2]
    BY <1>4, <2>1
  <2>3. g[x + 1] = m[1] /\ g[x + 2] = m[2]
    BY <1>7, <2>1
  <2>4. QED
    BY <1>9, <2>2, <2>3
<1>11. QED
  <2>1. g \in Seq(V) /\ Frames(g, f, m, r, x, y)
    BY <1>4, <1>5, <1>6, <1>8, <1>10 DEF Frames
  <2>2. QED
    BY <2>1 DEF g, b, a

\* What never changes, and what a failed write changes.
LEMMA SimhKeeps ==
  ASSUME S!Next
  PROVE  /\ UNCHANGED <<addition, limit>> /\ S!Objects' = S!Objects /\ Layout' = Layout /\ S!Offset' = S!Offset
         /\ S!HasDataFile' = S!HasDataFile /\ (lost' = lost \/ lost' = TRUE) /\ (lost' = lost => S!Proper' = S!Proper)
<1>1. UNCHANGED <<addition, limit>> /\ (lost' = lost \/ lost' = TRUE)
  BY DEF S!Next, S!Open, S!AddObject, S!WriteFails, S!Added, S!AnalyzeObject
<1>2. S!Objects' = S!Objects /\ S!HasDataFile' = S!HasDataFile
  BY <1>1 DEF S!Objects, S!HasDataFile
<1>3. Layout' = Layout /\ S!Offset' = S!Offset
  BY <1>2 DEF Layout, S!Offset
<1>4. lost' = lost => S!Proper' = S!Proper
  BY <1>1, <1>2, <1>3 DEF S!Proper
<1>5. QED
  BY <1>1, <1>2, <1>3, <1>4

\* Adding an object keeps the types.
LEMMA AddTypes ==
  ASSUME DevicesAssumption, SimhTypes, S!AddObject
  PROVE  SimhTypes'
<1>1. /\ W28 \in Nat \ {0} /\ simh_file \in Seq(SimhByte) /\ data_index \in Nat /\ addition.data \in Int
      /\ S!Objects \in Seq(SimhObject) /\ index \in 0..Len(S!Objects) - 1 /\ Len(S!Objects) \in Nat
  <2>1. addition.objects \in Seq(SimhObject) /\ addition.data \in Int
    BY DEF SimhTypes
  <2>2. Len(addition.objects) \in Nat /\ index < Len(addition.objects) /\ index \in 0..Len(addition.objects)
    BY <2>1 DEF SimhTypes, S!AddObject, S!Objects
  <2>3. QED
    BY <2>1, <2>2, DevicesAssumption DEF SimhTypes, S!Objects
<1> DEFINE o == S!Objects[index + 1]
           length == o.value % W28
           meta == S!ToLittleEndian(o)
<1>2. index + 1 \in 1..Len(S!Objects)
  BY <1>1
<1>3. o \in SimhObject
  BY <1>1, <1>2, ElementOfSeq
<1>4. meta \in Seq(SimhByte) /\ Len(meta) = 2 /\ length \in Nat
  BY <1>1, <1>3, LengthFields
<1> HIDE DEF meta, length
<1>5. S!RecordBytes(length) \in Seq(SimhByte)
  BY <1>1, <1>4, RecordIs
<1>6. simh_file \o meta \in Seq(SimhByte)
  BY <1>1, <1>4, ConcatProperties
<1>7. simh_file \o meta \o S!RecordBytes(length) \o meta \in Seq(SimhByte)
  <2>1. Len(simh_file) \in Nat /\ Len(S!RecordBytes(length)) \in Nat
    BY <1>1, <1>5, SMTT(30)
  <2>2. QED
    BY <1>1, <1>4, <1>5, <2>1, Framed
<1>8. /\ simh_file' \in {simh_file \o meta, simh_file \o meta \o S!RecordBytes(length) \o meta}
      /\ data_index' \in {data_index, data_index + length} /\ simh_step' \in {simh_step, "ADD_ERROR"}
      /\ index' = index + 1 /\ UNCHANGED <<addition, limit, simh_position, lost>>
  BY DEF S!AddObject, S!Objects, meta, length
<1>9. simh_file' \in Seq(SimhByte)
  BY <1>6, <1>7, <1>8
<1>10. data_index' \in Nat /\ S!Objects' = S!Objects
  BY <1>1, <1>4, <1>8, SMTT(30) DEF S!Objects
<1>11. index' \in 0..Len(S!Objects')
  BY <1>1, <1>8, <1>10
<1>12. QED
  BY <1>8, <1>9, <1>10, <1>11 DEF SimhTypes

LEMMA SimhTypesKept ==
  ASSUME DevicesAssumption, SimhTypes, S!Next
  PROVE  SimhTypes'
<1>1. CASE S!Open \/ S!Added
  <2>1. /\ UNCHANGED <<addition, limit, index, data_index, simh_position, lost>>
        /\ simh_file' \in {simh_file, <<>>} /\ simh_step' \in {"ADD_ERROR", "ADD", "ANALYZE"}
    BY <1>1 DEF S!Open, S!Added
  <2>2. simh_file' \in Seq(SimhByte)
    <3>1. <<>> \in Seq(SimhByte) /\ simh_file \in Seq(SimhByte)
      BY EmptySeq DEF SimhTypes
    <3>2. QED
      BY <2>1, <3>1
  <2>3. S!Objects' = S!Objects
    BY <2>1 DEF S!Objects
  <2>4. QED
    BY <2>1, <2>2, <2>3 DEF SimhTypes
<1>2. CASE S!AddObject
  BY <1>2, AddTypes
<1>3. CASE S!WriteFails
  <2>1. /\ UNCHANGED <<addition, limit, index, data_index, simh_position>> /\ lost' = TRUE
        /\ simh_step' \in {"ADD_ERROR", "ANALYZE"}
    BY <1>3 DEF S!WriteFails
  <2>2. PICK n \in 0..Len(simh_file) - 1 : simh_file' = SubSeq(simh_file, 1, n)
    BY <1>3 DEF S!WriteFails
  <2>3. simh_file' \in Seq(SimhByte)
    <3>1. simh_file \in Seq(SimhByte) /\ Len(simh_file) \in Nat
      BY DEF SimhTypes
    <3>2. \A i \in 1..n : simh_file[i] \in SimhByte
      BY <3>1, ElementOfSeq, SMTT(30)
    <3>3. 1 \in Int /\ n \in Int
      BY <3>1
    <3>4. SubSeq(simh_file, 1, n) \in Seq(SimhByte)
      BY <3>2, <3>3, SubSeqProperties
    <3>5. QED
      BY <2>2, <3>4
  <2>4. S!Objects' = S!Objects
    BY <2>1 DEF S!Objects
  <2>5. QED
    BY <2>1, <2>3, <2>4 DEF SimhTypes
<1>4. CASE S!AnalyzeObject
  <2>1. /\ UNCHANGED <<addition, limit, simh_file, index, data_index, lost>>
        /\ simh_step = "ANALYZE" /\ simh_step' \in {"ANALYZE", "SUCCESS", "ERROR"}
    BY <1>4 DEF S!AnalyzeObject, S!PrintRecord
  <2>2. simh_position' \in Nat
    <3>1. /\ simh_position \in Nat /\ simh_file \in Seq(SimhByte) /\ Len(simh_file) \in Nat /\ W28 \in Nat \ {0}
      BY DevicesAssumption DEF SimhTypes
    <3> DEFINE meta == S!ReadMetaData
    <3>2. meta \in SimhObject \/ (meta.cls = "RESERVED" /\ meta.value = W28 - 1)
      BY <3>1, MetaTypes, SMTT(30) DEF S!ReadMetaData, S!META_DATA_SIZE, S!END_OF_MEDIUM
    <3>3. meta.value \in Nat
      BY <3>1, <3>2, SizeIs, SMTT(30)
    <3>4. S!Pad(meta.value) \in Nat
      BY <3>3 DEF S!Pad
    <3> HIDE DEF meta
    <3>5. simh_position' \in {simh_position, simh_position + 2, simh_position + 2 + S!Pad(meta.value) + 2}
      BY <1>4 DEF S!AnalyzeObject, S!PrintRecord, S!META_DATA_SIZE, meta
    <3>6. simh_position + 2 \in Nat /\ simh_position + 2 + S!Pad(meta.value) + 2 \in Nat
      <4>1. \A a, b \in Nat : a + 2 \in Nat /\ a + 2 + b + 2 \in Nat
        OBVIOUS
      <4>2. QED
        BY <3>1, <3>4, <4>1
    <3>7. QED
      BY <3>1, <3>5, <3>6
  <2>3. S!Objects' = S!Objects
    BY <2>1 DEF S!Objects
  <2>4. QED
    BY <2>1, <2>2, <2>3 DEF SimhTypes
<1>5. QED
  BY <1>1, <1>2, <1>3, <1>4 DEF S!Next

\* The places of an object in the file.
LEMMA PlacesOf ==
  ASSUME S!Objects \in Seq(SimhObject), NEW i \in 1..Len(S!Objects)
  PROVE  LET o == S!Objects[i] IN
         /\ o \in SimhObject /\ Layout[i - 1] \in Nat /\ Layout[i] \in Nat
         /\ 1 <= Layout[i - 1] + 1 /\ Layout[i - 1] + 2 <= Layout[i]
         /\ S!IsRecord(o) => /\ Layout[i] = Layout[i - 1] + S!Pad(o.value) + 4 /\ S!Pad(o.value) \in Nat
                            /\ o.value \in Nat /\ o.value <= S!Pad(o.value)
         /\ ~S!IsRecord(o) => Layout[i] = Layout[i - 1] + 2
<1> DEFINE o == S!Objects[i]
<1>1. o \in SimhObject
  BY ElementOfSeq
<1>2. i - 1 \in 0..Len(S!Objects) /\ i \in 0..Len(S!Objects)
  <2>1. Len(S!Objects) \in Nat
    OBVIOUS
  <2>2. QED
    BY <2>1
<1>3. Layout[i] = Layout[i - 1] + SizeOf(o) /\ Layout[i - 1] \in Nat /\ Layout[i] \in Nat
  BY <1>2, LayoutIs
<1>4. /\ S!Pad(o.value) \in Nat /\ SizeOf(o) \in Nat /\ SizeOf(o) >= 2
      /\ o.value \in Nat /\ o.value <= S!Pad(o.value)
  BY <1>1, SizeIs
<1> HIDE DEF o
<1>5. S!IsRecord(o) => Layout[i] = Layout[i - 1] + S!Pad(o.value) + 4
  BY <1>3, <1>4 DEF SizeOf
<1>6. ~S!IsRecord(o) => Layout[i] = Layout[i - 1] + 2
  BY <1>3, <1>4 DEF SizeOf
<1>7. 1 <= Layout[i - 1] + 1 /\ Layout[i - 1] + 2 <= Layout[i]
  BY <1>3, <1>4
<1>8. QED
  BY <1>1, <1>3, <1>4, <1>5, <1>6, <1>7 DEF o

LEMMA StillHas ==
  ASSUME S!Objects \in Seq(SimhObject), NEW i \in 1..Len(S!Objects), NEW x \in Nat, Layout[i] <= x,
         \A p \in 1..x : simh_file'[p] = simh_file[p], UNCHANGED <<addition, Layout>>, FileHas(i)
  PROVE  FileHas(i)'
<1> DEFINE o == S!Objects[i]
<1>1. /\ o \in SimhObject /\ Layout[i - 1] \in Nat /\ Layout[i] \in Nat /\ Layout[i - 1] + 2 <= Layout[i]
      /\ S!IsRecord(o) => /\ Layout[i] = Layout[i - 1] + S!Pad(o.value) + 4 /\ S!Pad(o.value) \in Nat
                         /\ o.value \in Nat /\ o.value <= S!Pad(o.value)
  BY PlacesOf
<1>2. S!Objects' = S!Objects /\ PartOf(i)' = PartOf(i)
  BY DEF S!Objects, PartOf, S!HasDataFile, S!Offset
<1>3. /\ simh_file[Layout[i - 1] + 1] = Meta(o, 1) /\ simh_file[Layout[i - 1] + 2] = Meta(o, 2)
      /\ S!IsRecord(o) => /\ \A k \in 1..o.value : simh_file[Layout[i - 1] + 2 + k] = PartOf(i)[k]
                         /\ simh_file[Layout[i] - 1] = Meta(o, 1) /\ simh_file[Layout[i]] = Meta(o, 2)
  BY DEF FileHas
<1> HIDE DEF o
<1>4. simh_file'[Layout[i - 1] + 1] = Meta(o, 1) /\ simh_file'[Layout[i - 1] + 2] = Meta(o, 2)
  <2>1. Layout[i - 1] + 1 \in 1..x /\ Layout[i - 1] + 2 \in 1..x
    BY <1>1
  <2>2. QED
    BY <1>3, <2>1
<1>5. ASSUME S!IsRecord(o)
      PROVE  /\ \A k \in 1..o.value : simh_file'[Layout[i - 1] + 2 + k] = PartOf(i)[k]
             /\ simh_file'[Layout[i] - 1] = Meta(o, 1) /\ simh_file'[Layout[i]] = Meta(o, 2)
  <2>1. Layout[i] - 1 \in 1..x /\ Layout[i] \in 1..x
    BY <1>1, <1>5, SMTT(30)
  <2>2. \A k \in 1..o.value : Layout[i - 1] + 2 + k \in 1..x
    <3>1. \A a, b, c \in Nat : a + b + 4 <= x /\ c <= b => \A k \in 1..c : a + 2 + k \in 1..x
      OBVIOUS
    <3>2. Layout[i - 1] + S!Pad(o.value) + 4 <= x
      BY <1>1, <1>5
    <3>3. QED
      BY <1>1, <1>5, <3>1, <3>2
  <2>3. QED
    BY <1>3, <1>5, <2>1, <2>2
<1>6. (S!Objects[i])' = o
  BY <1>2 DEF o
<1>7. QED
  BY <1>2, <1>4, <1>5, <1>6 DEF FileHas, S!IsRecord, Meta

\* An object that is added is in the file, and those before it still are.
LEMMA SimhAdds ==
  ASSUME DevicesAssumption, SimhTypes, S!Proper, simh_step = "ADD", SimhWritten, S!AddObject
  PROVE  simh_step' = "ADD" /\ SimhWritten'
<1> DEFINE n == Len(S!Objects)
           x == Len(simh_file)
<1>1. /\ W28 \in Nat \ {0} /\ simh_file \in Seq(SimhByte) /\ data_index \in Nat /\ addition.data \in Int
      /\ S!Objects \in Seq(SimhObject) /\ index \in 0..n - 1 /\ n \in Nat /\ x \in Nat
  <2>1. addition.objects \in Seq(SimhObject) /\ addition.data \in Int /\ simh_file \in Seq(SimhByte)
    BY DEF SimhTypes
  <2>2. Len(addition.objects) \in Nat /\ index < Len(addition.objects) /\ index \in 0..Len(addition.objects)
    BY <2>1 DEF SimhTypes, S!AddObject, S!Objects
  <2>3. QED
    BY <2>1, <2>2, DevicesAssumption, SMTT(30) DEF SimhTypes, S!Objects
<1>2. PICK j \in 1..n : j = index + 1 /\ j \in 0..n /\ index \in 0..n /\ j - 1 = index /\ index \in Nat /\ index \in 0..j
  BY <1>1
<1> DEFINE o == S!Objects[j]
           meta == S!ToLittleEndian(o)
           r == S!RecordBytes(o.value)
<1>3. o \in SimhObject
  BY <1>1, <1>2, ElementOfSeq
<1>4. o.value < W28 /\ o.value \in Nat /\ S!Pad(o.value) \in Nat /\ o.value <= S!Pad(o.value)
  BY <1>2, <1>3, SizeIs DEF S!Proper
<1>5. /\ o.value % W28 = o.value /\ meta \in Seq(SimhByte) /\ Len(meta) = 2
      /\ meta[1] = Meta(o, 1) /\ meta[2] = Meta(o, 2)
  BY <1>1, <1>3, <1>4, LengthFields
<1>6. /\ Layout[j] = Layout[index] + SizeOf(o) /\ Layout[index] \in Nat
      /\ \A i \in 0..index : Layout[i] <= Layout[index] /\ Layout[i] \in Nat
  <2>1. \A i \in 0..index : i \in 0..n
    BY <1>1
  <2>2. QED
    BY <1>1, <1>2, <2>1, LayoutIs
<1>7. /\ S!Offset[j] = S!Offset[index] + DataOf(o) /\ S!Offset[index] \in Nat /\ S!Offset[j] \in Nat
      /\ S!Offset[n] \in Nat /\ S!Offset[j] <= S!Offset[n]
  <2>1. j \in 0..n /\ n \in 0..n
    BY <1>1, <1>2
  <2>2. QED
    BY <1>1, <1>2, <2>1, OffsetIs
<1>8. x = Layout[index] /\ data_index = IF S!HasDataFile THEN S!Offset[index] ELSE 0
  BY DEF SimhWritten
<1>9. UNCHANGED <<addition, Layout>> /\ S!Objects' = S!Objects /\ S!Offset' = S!Offset /\ S!HasDataFile' = S!HasDataFile
      /\ index' = j
  BY <1>2, SimhKeeps DEF S!Next, S!AddObject
<1> HIDE DEF n, o, meta, r, x
<1>10. ASSUME ~S!IsRecord(o)
       PROVE  /\ simh_step' = "ADD" /\ Len(simh_file') = Layout[j]
              /\ data_index' = IF S!HasDataFile THEN S!Offset[j] ELSE 0
              /\ \A i \in 1..x : simh_file'[i] = simh_file[i]
              /\ simh_file'[x + 1] = Meta(o, 1) /\ simh_file'[x + 2] = Meta(o, 2)
  <2>1. simh_file' = simh_file \o meta /\ simh_step' = "ADD" /\ data_index' = data_index
    BY <1>2, <1>10 DEF S!AddObject, S!Objects, o, meta
  <2>2. /\ Len(simh_file') = x + 2 /\ \A i \in 1..x : simh_file'[i] = simh_file[i]
        /\ Follows(simh_file', x, meta)
    <3>1. /\ Len(simh_file \o meta) = Len(simh_file) + Len(meta)
          /\ \A i \in 1..Len(simh_file) : (simh_file \o meta)[i] = simh_file[i]
          /\ Follows(simh_file \o meta, Len(simh_file), meta)
      <4>1. simh_file \in Seq(SimhByte) /\ meta \in Seq(SimhByte)
        BY <1>1, <1>5
      <4>2. QED
        BY <4>1, Joined
    <3>2. Len(meta) = 2
      BY <1>5
    <3>3. QED
      BY <2>1, <3>1, <3>2 DEF x
  <2>3. 1 \in 1..Len(meta) /\ 2 \in 1..Len(meta)
    BY <1>5
  <2>4. SizeOf(o) = 2 /\ DataOf(o) = 0
    BY <1>10 DEF SizeOf, DataOf
  <2>5. simh_file'[x + 1] = Meta(o, 1) /\ simh_file'[x + 2] = Meta(o, 2)
    BY <1>5, <2>2, <2>3 DEF Follows
  <2>6. Layout[j] = x + 2
    BY <1>6, <1>8, <2>4
  <2>7. S!Offset[j] = S!Offset[index]
    BY <1>7, <2>4
  <2>8. QED
    BY <1>8, <2>1, <2>2, <2>5, <2>6, <2>7
<1>11. ASSUME S!IsRecord(o)
       PROVE  /\ simh_step' = "ADD" /\ Len(simh_file') = Layout[j]
              /\ data_index' = IF S!HasDataFile THEN S!Offset[j] ELSE 0
              /\ \A i \in 1..x : simh_file'[i] = simh_file[i]
              /\ simh_file'[x + 1] = Meta(o, 1) /\ simh_file'[x + 2] = Meta(o, 2)
              /\ \A k \in 1..o.value : simh_file'[x + 2 + k] = PartOf(j)[k]
              /\ simh_file'[Layout[j] - 1] = Meta(o, 1) /\ simh_file'[Layout[j]] = Meta(o, 2)
  <2>1. S!HasDataFile => S!Offset[n] <= addition.data /\ data_index < addition.data
    BY <1>2, <1>8, <1>11 DEF S!Proper, n, o
  <2>2. ~S!HasDataFile => o.value % 2 = 0
    BY <1>2, <1>11 DEF S!Proper, n, o
  <2>3. ~(S!HasDataFile /\ data_index >= addition.data)
    <3>1. data_index \in Int /\ addition.data \in Int
      BY <1>1
    <3>2. data_index < addition.data => ~(data_index >= addition.data)
      BY <3>1
    <3>3. QED
      BY <2>1, <3>2
  <2>4. /\ simh_file' = simh_file \o meta \o r \o meta /\ simh_step' = "ADD"
        /\ data_index' = IF S!HasDataFile THEN data_index + o.value ELSE data_index
    BY <1>2, <1>5, <1>11, <2>3 DEF S!AddObject, S!Objects, o, meta, r
  <2>5. /\ r \in Seq(SimhByte) /\ Len(r) = S!Pad(o.value)
        /\ \A k \in 1..o.value : r[k] = IF ~S!HasDataFile THEN S!Zero
                                        ELSE IF data_index + k <= addition.data THEN S!Data(data_index + k)
                                        ELSE S!Undefined
    BY <1>1, <1>4, <2>2, RecordIs DEF r
  <2>6. PICK y \in Nat : y = Len(r)
    BY <1>4, <2>5
  <2>7. /\ Len(simh_file') = x + y + 4 /\ \A i \in 1..x : simh_file'[i] = simh_file[i]
        /\ simh_file'[x + 1] = meta[1] /\ simh_file'[x + 2] = meta[2]
        /\ \A k \in 1..y : simh_file'[x + 2 + k] = r[k]
        /\ simh_file'[x + y + 3] = meta[1] /\ simh_file'[x + y + 4] = meta[2]
    <3>1. Len(simh_file) = x
      BY DEF x
    <3> DEFINE g == simh_file \o meta \o r \o meta
    <3>2. Frames(g, simh_file, meta, r, x, y)
      <4>1. /\ simh_file \in Seq(SimhByte) /\ meta \in Seq(SimhByte) /\ r \in Seq(SimhByte) /\ Len(meta) = 2
            /\ x \in Nat /\ y \in Nat /\ Len(r) = y
        BY <1>1, <1>5, <2>5, <2>6
      <4>2. QED
        BY <3>1, <4>1, Framed
    <3> HIDE DEF g
    <3>3. simh_file' = g
      BY <2>4 DEF g
    <3>4. QED
      BY <3>2, <3>3 DEF Frames
  <2>8. Layout[j] = x + y + 4 /\ Layout[j] - 1 = x + y + 3 /\ DataOf(o) = o.value
    <3>1. SizeOf(o) = y + 4 /\ DataOf(o) = o.value
      BY <1>11, <2>5, <2>6 DEF SizeOf, DataOf
    <3>2. \A a, b, c, d \in Nat : c = d + 4 /\ b = a + c => b = a + d + 4 /\ b - 1 = a + d + 3
      OBVIOUS
    <3>3. Layout[j] = x + SizeOf(o) /\ x \in Nat /\ SizeOf(o) \in Nat /\ Layout[j] \in Nat /\ y \in Nat
      <4>1. SizeOf(o) \in Nat
        BY <1>3, SizeIs
      <4>2. Layout[j] = x + SizeOf(o) /\ x \in Nat
        BY <1>6, <1>8
      <4>3. QED
        BY <2>6, <4>1, <4>2, SMTT(30)
    <3>4. QED
      BY <3>1, <3>2, <3>3, SMTT(30)
  <2>9. ASSUME NEW k \in 1..o.value
        PROVE  simh_file'[x + 2 + k] = PartOf(j)[k]
    <3>1. k \in 1..y
      BY <1>4, <2>5, <2>6, SMTT(30)
    <3>2. PartOf(j)[k] = IF S!HasDataFile THEN S!Data(S!Offset[index] + k) ELSE S!Zero
      BY <1>2 DEF PartOf, o
    <3>3. S!HasDataFile => data_index + k <= addition.data
      <4>1. ASSUME S!HasDataFile
            PROVE  data_index + k <= addition.data
        <5>1. /\ data_index = S!Offset[index] /\ S!Offset[j] = S!Offset[index] + o.value
              /\ S!Offset[n] <= addition.data
          BY <1>7, <1>8, <2>1, <2>8, <4>1
        <5>2. \A a, b, c, d, e, w \in Int : a = b /\ c = b + d /\ c <= e /\ e <= w => \A z \in 1..d : a + z <= w
          OBVIOUS
        <5>3. S!Offset[j] <= S!Offset[n] /\ S!Offset[n] \in Int /\ S!Offset[j] \in Int /\ S!Offset[index] \in Int
              /\ o.value \in Int /\ data_index \in Int /\ addition.data \in Int
          <6>1. S!Offset[j] <= S!Offset[n] /\ S!Offset[n] \in Int /\ S!Offset[j] \in Int /\ S!Offset[index] \in Int
            BY <1>7
          <6>2. o.value \in Int /\ data_index \in Int /\ addition.data \in Int
            BY <1>1, <1>4, SMTT(30)
          <6>3. QED
            BY <6>1, <6>2
        <5>4. QED
          BY <5>1, <5>2, <5>3
      <4>2. QED
        BY <4>1
    <3>4. S!HasDataFile => data_index = S!Offset[index]
      BY <1>8
    <3>5. r[k] = PartOf(j)[k]
      BY <2>5, <3>2, <3>3, <3>4, SMTT(30)
    <3>6. QED
      BY <2>7, <3>1, <3>5
  <2>10. QED
    BY <1>5, <1>7, <1>8, <2>4, <2>7, <2>8, <2>9
<1>12. /\ simh_step' = "ADD" /\ Len(simh_file') = Layout[j]
       /\ data_index' = IF S!HasDataFile THEN S!Offset[j] ELSE 0
       /\ \A i \in 1..x : simh_file'[i] = simh_file[i]
       /\ simh_file'[x + 1] = Meta(o, 1) /\ simh_file'[x + 2] = Meta(o, 2)
  BY <1>10, <1>11
<1>13. ASSUME NEW i \in 1..index
       PROVE  FileHas(i)'
  <2>1. i \in 1..Len(S!Objects) /\ i \in 0..index
    BY <1>1 DEF n
  <2>2. Layout[i] <= x
    BY <1>6, <1>8, <2>1
  <2>3. FileHas(i)
    BY DEF SimhWritten
  <2>4. QED
    BY <1>1, <1>9, <1>12, <2>1, <2>2, <2>3, StillHas
<1>14. FileHas(j)'
  <2>1. (S!Objects[j])' = o /\ PartOf(j)' = PartOf(j) /\ Layout'[j - 1] = x /\ Layout'[j] = Layout[j]
    BY <1>2, <1>8, <1>9 DEF o, PartOf
  <2>2. QED
    BY <1>11, <1>12, <2>1 DEF FileHas, S!IsRecord, Meta
<1>15. \A i \in 1..j : FileHas(i)'
  <2>1. \A i \in 1..j : i \in 1..index \/ i = j
    BY <1>2
  <2>2. QED
    BY <1>13, <1>14, <2>1
<1>16. QED
  BY <1>9, <1>12, <1>15 DEF SimhWritten

\* The data of a record that are read are those that were written.
LEMMA DataRead ==
  ASSUME simh_file \in Seq(SimhByte), NEW a \in Nat, NEW v \in Nat, a + v <= Len(simh_file),
         NEW q, DOMAIN q = 1..v, q = [k \in 1..v |-> q[k]], \A k \in 1..v : simh_file[a + k] = q[k]
  PROVE  SubSeq(simh_file, a + 1, a + v) = q /\ SubSeq(simh_file, a + 1, a + v) \in Seq(SimhByte)
<1> DEFINE d == SubSeq(simh_file, a + 1, a + v)
<1>1. a + 1 \in Int /\ a + v \in Int /\ Len(simh_file) \in Nat
  OBVIOUS
<1>2. \A i \in a + 1..a + v : simh_file[i] \in SimhByte
  <2>1. ASSUME NEW i \in a + 1..a + v
        PROVE  i \in 1..Len(simh_file)
    BY <1>1
  <2>2. QED
    BY <2>1, ElementOfSeq
<1>3. /\ d \in Seq(SimhByte)
      /\ Len(d) = IF a + 1 <= a + v THEN a + v - (a + 1) + 1 ELSE 0
      /\ \A i \in 1..a + v - (a + 1) + 1 : d[i] = simh_file[a + 1 + i - 1]
  BY <1>1, <1>2, SubSeqProperties
<1> HIDE DEF d
<1>4. a + v - (a + 1) + 1 = v /\ (IF a + 1 <= a + v THEN a + v - (a + 1) + 1 ELSE 0) = v
  OBVIOUS
<1>5. Len(d) = v
  BY <1>3, <1>4
<1>6. ASSUME NEW k \in 1..v
      PROVE  d[k] = q[k]
  <2>1. a + 1 + k - 1 = a + k
    OBVIOUS
  <2>2. d[k] = simh_file[a + 1 + k - 1]
    BY <1>3, <1>4
  <2>3. QED
    BY <2>1, <2>2
<1>7. d = [k \in 1..v |-> d[k]]
  <2>1. d \in [1..Len(d) -> SimhByte]
    BY <1>3, LenProperties
  <2>2. QED
    BY <1>5, <2>1
<1>8. d = q
  BY <1>6, <1>7
<1>9. QED
  BY <1>3, <1>8 DEF d

\* What is found at the place of an object that is in the file.
LEMMA ObjectFound ==
  ASSUME DevicesAssumption, SimhTypes, NEW i \in 1..Len(S!Objects), FileHas(i),
         Layout[i] <= Len(simh_file),
         simh_position = Layout[i - 1], S!AnalyzeObject
  PROVE  LET o == S!Objects[i] IN
         /\ simh_position' = Layout[i] /\ UNCHANGED <<addition, simh_file, index, data_index, lost>>
         /\ simh_step' = IF ~S!IsRecord(o) /\ S!Ends(o) THEN "SUCCESS" ELSE "ANALYZE"
         /\ \E d \in Seq(SimhByte) :
              /\ listing' = Append(listing, [cls |-> o.cls, value |-> o.value, data |-> d])
              /\ S!IsRecord(o) => d = PartOf(i)
<1> DEFINE o == S!Objects[i]
           x == Len(simh_file)
           p == Layout[i - 1]
           f == Layout[i]
           v == o.value
           pad == S!Pad(v)
<1>1. /\ simh_file \in Seq(SimhByte) /\ x \in Nat /\ S!Objects \in Seq(SimhObject) /\ limit \in Nat
  <2>1. simh_file \in Seq(SimhByte) /\ S!Objects \in Seq(SimhObject) /\ limit \in Limits /\ Limits \subseteq Nat
    BY DevicesAssumption DEF SimhTypes, S!Objects
  <2>2. QED
    BY <2>1
<1>2. /\ o \in SimhObject /\ p \in Nat /\ f \in Nat /\ p + 2 <= f
      /\ S!IsRecord(o) => f = p + pad + 4 /\ pad \in Nat /\ v \in Nat /\ v <= pad
      /\ ~S!IsRecord(o) => f = p + 2
  BY <1>1, PlacesOf
<1>3. /\ simh_file[p + 1] = Meta(o, 1) /\ simh_file[p + 2] = Meta(o, 2)
      /\ S!IsRecord(o) => /\ \A k \in 1..v : simh_file[p + 2 + k] = PartOf(i)[k]
                         /\ simh_file[f - 1] = Meta(o, 1) /\ simh_file[f] = Meta(o, 2)
  BY DEF FileHas
<1>4. DOMAIN PartOf(i) = 1..v /\ PartOf(i) = [k \in 1..v |-> PartOf(i)[k]]
  BY DEF PartOf
<1>5. simh_position = p /\ f <= x
  OBVIOUS
<1> HIDE DEF o, x, p, f, v, pad
<1>6. p + 2 <= x
  BY <1>1, <1>2, <1>5
<1>7. S!MetaAt(p) = o
  BY <1>1, <1>2, <1>3, <1>6, MetaIs DEF x
<1>8. S!ReadMetaData = o /\ ~(simh_position >= Len(simh_file))
  <2>1. ~(p + 2 > x) /\ ~(p >= x)
    <3>1. p \in Nat /\ x \in Nat
      BY <1>1, <1>2
    <3>2. QED
      BY ONLY <1>6, <3>1
  <2>2. QED
    BY <1>5, <1>7, <2>1 DEF S!ReadMetaData, S!META_DATA_SIZE, x
<1>9. /\ UNCHANGED <<addition, simh_file, index, data_index, lost>> /\ simh_step = "ANALYZE"
      /\ IF S!IsRecord(o) THEN S!PrintRecord(o)
         ELSE /\ S!List(o, <<>>)
              /\ simh_step' = IF S!Ends(o) THEN "SUCCESS" ELSE "ANALYZE"
              /\ simh_position' = simh_position + S!META_DATA_SIZE
  BY <1>8 DEF S!AnalyzeObject
<1>10. CASE ~S!IsRecord(o)
  <2>1. listing' = Append(listing, [cls |-> o.cls, value |-> o.value, data |-> <<>>]) /\ simh_position' = f
    BY <1>2, <1>5, <1>9, <1>10 DEF S!List, S!META_DATA_SIZE
  <2>2. <<>> \in Seq(SimhByte)
    BY EmptySeq
  <2>3. simh_step' = IF S!Ends(o) THEN "SUCCESS" ELSE "ANALYZE"
    BY <1>9, <1>10
  <2>4. QED
    BY <1>9, <1>10, <2>1, <2>2, <2>3 DEF o, f
<1>11. CASE S!IsRecord(o)
  <2>1. f = p + pad + 4 /\ pad \in Nat /\ v \in Nat /\ v <= pad
    BY <1>2, <1>11
  <2>2. PICK end \in Nat : end = p + 2 + pad
    BY <1>2, <2>1
  <2>3. end + 2 = f /\ end + 1 = f - 1 /\ end + 2 <= x /\ ~(end + 2 > x) /\ p + 2 + v <= x
    BY <1>1, <1>2, <1>5, <2>1, <2>2
  <2>4. S!MetaAt(end) = o
    <3>1. simh_file[end + 1] = Meta(o, 1) /\ simh_file[end + 2] = Meta(o, 2)
      BY <1>3, <1>11, <2>3
    <3>2. end + 2 <= Len(simh_file)
      BY <2>3 DEF x
    <3>3. QED
      BY <1>1, <1>2, <3>1, <3>2, MetaIs
  <2>5. S!TrailingLength(end) = v
    BY <2>3, <2>4 DEF S!TrailingLength, S!META_DATA_SIZE, x, v
  <2>6. ASSUME NEW shown, shown \in {limit, v}, shown <= v
        PROVE  ~(p + 2 + shown > x)
    <3>1. shown \in Nat
      BY <1>1, <2>1, <2>6
    <3>2. QED
      BY <1>1, <1>2, <2>1, <2>3, <2>6, <3>1
  <2> DEFINE shown == IF limit < v THEN limit ELSE v
  <2>7. shown \in {limit, v} /\ shown <= v
    BY <1>1, <2>1
  <2>8. ~(p + 2 + shown > x)
    BY <2>6, <2>7
  <2> HIDE DEF shown
  <2>9. S!PrintRecord(o)
    BY <1>9, <1>11
  <2>10. /\ S!List(o, SubSeq(simh_file, p + 2 + 1, p + 2 + v))
         /\ simh_position' = end + 2 /\ simh_step' = simh_step
    BY <1>5, <2>2, <2>5, <2>8, <2>9 DEF S!PrintRecord, S!META_DATA_SIZE, shown, v, pad, x
  <2>11. PICK a \in Nat : a = p + 2
    BY <1>2
  <2>12. SubSeq(simh_file, a + 1, a + v) = PartOf(i) /\ SubSeq(simh_file, a + 1, a + v) \in Seq(SimhByte)
    <3>1. \A k \in 1..v : simh_file[a + k] = PartOf(i)[k]
      BY <1>3, <1>11, <2>11
    <3>2. a + v <= Len(simh_file)
      BY <2>3, <2>11 DEF x
    <3>3. QED
      BY <1>1, <1>4, <2>1, <3>1, <3>2, DataRead
  <2>13. listing' = Append(listing, [cls |-> o.cls, value |-> o.value, data |-> PartOf(i)])
         /\ PartOf(i) \in Seq(SimhByte)
    BY <2>10, <2>11, <2>12 DEF S!List
  <2>14. simh_step' = "ANALYZE" /\ simh_position' = f
    BY <1>9, <2>3, <2>10
  <2>15. QED
    BY <1>9, <1>11, <2>13, <2>14 DEF o, f
<1>12. QED
  BY <1>10, <1>11

\* Analyzing the file keeps to the objects.
LEMMA SimhFinds ==
  ASSUME DevicesAssumption, SimhTypes, simh_step = "ANALYZE", index = Len(S!Objects), SimhWritten,
         SimhListed,
         S!AnalyzeObject
  PROVE  simh_step' # "ERROR" /\ index' = Len(S!Objects') /\ SimhWritten' /\ SimhListed'
<1> DEFINE n == Len(listing)
           l == Len(S!Objects)
<1>1. /\ S!Objects \in Seq(SimhObject) /\ l \in Nat /\ simh_file \in Seq(SimhByte) /\ Len(simh_file) \in Nat
      /\ listing \in Seq(Listed) /\ n \in Nat /\ n <= l /\ simh_position = Layout[n] /\ Len(simh_file) = Layout[l]
  <2>1. S!Objects \in Seq(SimhObject) /\ simh_file \in Seq(SimhByte) /\ listing \in Seq(Listed)
    BY DEF SimhTypes, SimhListed, S!Objects
  <2>2. n <= l /\ simh_position = Layout[n] /\ Len(simh_file) = Layout[l]
    BY DEF SimhWritten, SimhListed
  <2>3. QED
    BY <2>1, <2>2, SMTT(30)
<1>2. UNCHANGED <<addition, simh_file, index, data_index, lost>>
  BY DEF S!AnalyzeObject
<1>3. S!Objects' = S!Objects /\ Layout' = Layout /\ \A i : PartOf(i)' = PartOf(i)
  BY <1>2 DEF S!Objects, Layout, PartOf, S!HasDataFile, S!Offset
<1>4. SimhWritten'
  <2>1. ASSUME NEW i \in 1..index
        PROVE  FileHas(i)'
    <3>1. FileHas(i)
      BY DEF SimhWritten
    <3>2. QED
      BY <1>2, <1>3, <3>1 DEF FileHas, S!IsRecord, Meta
  <2>2. S!Offset' = S!Offset /\ S!HasDataFile' = S!HasDataFile
    BY <1>2, <1>3 DEF S!Offset, S!HasDataFile
  <2>3. QED
    BY <1>2, <1>3, <2>1, <2>2 DEF SimhWritten
<1>5. \A i \in 1..n : /\ listing[i].cls = S!Objects[i].cls /\ listing[i].value = S!Objects[i].value
                      /\ S!IsRecord(S!Objects[i]) => listing[i].data = PartOf(i)
                      /\ ~S!Ends(S!Objects[i])
  BY DEF SimhListed
<1> HIDE DEF n, l
<1>6. CASE n = l
  <2>1. simh_step' = "SUCCESS" /\ UNCHANGED <<simh_position, listing>>
    <3>1. simh_position >= Len(simh_file)
      BY <1>1, <1>6, SMTT(30)
    <3>2. QED
      BY <3>1 DEF S!AnalyzeObject
  <2>2. SimhListed'
    BY <1>1, <1>3, <1>5, <1>6, <2>1 DEF SimhListed, n, l, S!IsRecord, S!Ends
  <2>3. QED
    BY <1>2, <1>3, <1>4, <2>1, <2>2
<1>7. CASE n # l
  <2>1. PICK j \in 1..l : j = n + 1 /\ j - 1 = n
    BY <1>1, <1>7
  <2>2. j \in 1..Len(S!Objects) /\ j <= l /\ FileHas(j) /\ Layout[j] <= Len(simh_file)
    <3>1. j \in 1..Len(S!Objects) /\ j \in 1..index /\ j <= l /\ j \in 0..l /\ l \in 0..l
      BY <1>1, <2>1 DEF l
    <3>2. Layout[j] <= Layout[l]
      BY <1>1, <3>1, LayoutIs DEF l
    <3>3. QED
      BY <1>1, <3>1, <3>2 DEF SimhWritten
  <2> DEFINE o == S!Objects[j]
             e(d) == [cls |-> o.cls, value |-> o.value, data |-> d]
  <2>3. /\ simh_position' = Layout[j] /\ simh_step' = IF ~S!IsRecord(o) /\ S!Ends(o) THEN "SUCCESS" ELSE "ANALYZE"
        /\ \E d \in Seq(SimhByte) : listing' = Append(listing, e(d)) /\ (S!IsRecord(o) => d = PartOf(j))
    BY <1>1, <2>1, <2>2, ObjectFound
  <2>4. PICK d \in Seq(SimhByte) : listing' = Append(listing, e(d)) /\ (S!IsRecord(o) => d = PartOf(j))
    BY <2>3
  <2>5. S!IsRecord(o) => ~S!Ends(o)
    BY DEF S!IsRecord, S!Ends
  <2>6. o \in SimhObject
    BY <1>1, <2>2, ElementOfSeq
  <2>7. e(d) \in Listed
    BY <2>6 DEF SimhObject, Listed
  <2>8. /\ listing' \in Seq(Listed) /\ Len(listing') = j /\ \A i \in 1..n : listing'[i] = listing[i]
        /\ listing'[j] = e(d)
    <3>1. /\ Append(listing, e(d)) \in Seq(Listed) /\ Len(Append(listing, e(d))) = Len(listing) + 1
          /\ \A i \in 1..Len(listing) : Append(listing, e(d))[i] = listing[i]
          /\ Append(listing, e(d))[Len(listing) + 1] = e(d)
      <4> HIDE DEF e
      <4>1. QED
        BY <1>1, <2>7, AppendProperties
    <3>2. QED
      BY <2>1, <2>4, <3>1 DEF n
  <2>9. /\ listing'[j].cls = o.cls /\ listing'[j].value = o.value
        /\ S!IsRecord(o) => listing'[j].data = PartOf(j)
    BY <2>4, <2>8, SMTT(30)
  <2> HIDE DEF o, e
  <2>10. S!Ends(o) <=> simh_step' = "SUCCESS"
    BY <2>3, <2>5
  <2>11. ASSUME NEW i \in 1..j
         PROVE  /\ listing'[i].cls = S!Objects[i].cls /\ listing'[i].value = S!Objects[i].value
                /\ S!IsRecord(S!Objects[i]) => listing'[i].data = PartOf(i)
                /\ S!Ends(S!Objects[i]) => i = j /\ simh_step' = "SUCCESS"
    <3>1. CASE i = j
      BY <2>9, <2>10, <3>1 DEF o
    <3>2. CASE i # j
      <4>1. i \in 1..n
        <5>1. n \in Nat /\ j = n + 1
          BY <1>1, <2>1
        <5>2. QED
          BY <3>2, <5>1
      <4>2. listing'[i] = listing[i]
        BY <2>8, <4>1
      <4>3. QED
        BY <1>5, <4>1, <4>2
    <3>3. QED
      BY <3>1, <3>2
  <2>12. simh_step' = "SUCCESS" => j > 0 /\ S!Ends(S!Objects[j])
    <3>1. j > 0
      <4>1. n \in Nat /\ j = n + 1
        BY <1>1, <2>1
      <4>2. QED
        BY ONLY <4>1
    <3>2. QED
      BY <2>10, <3>1 DEF o
  <2>13. simh_step' # "ERROR"
    BY <2>3
  <2>14. SimhListed'
    <3>1. Layout'[j] = Layout[j] /\ Len(S!Objects') = l
      BY <1>3 DEF l
    <3>3. /\ listing' \in Seq(Listed) /\ j <= Len(S!Objects') /\ simh_position' = Layout'[j]
      BY <2>2, <2>3, <2>8, <3>1
    <3>4. QED
      BY <1>3, <2>8, <2>11, <2>12, <3>1, <3>3 DEF SimhListed, S!IsRecord, S!Ends
  <2>15. QED
    BY <1>2, <1>3, <1>4, <2>13, <2>14
<1>8. QED
  BY <1>6, <1>7

LEMMA SimhFollowedKept ==
  ASSUME DevicesAssumption, SimhTypes, S!Proper, SimhFollowed, S!Next, lost' = lost
  PROVE  SimhFollowed'
<1>1. /\ UNCHANGED <<addition, limit>> /\ S!Objects' = S!Objects /\ Layout' = Layout /\ S!Offset' = S!Offset
      /\ S!HasDataFile' = S!HasDataFile
  BY SimhKeeps
<1>2. S!Objects \in Seq(SimhObject) /\ ~lost
  BY DEF SimhTypes, S!Proper, S!Objects
<1>3. CASE S!Open
  <2>1. /\ simh_step = "OPEN" /\ UNCHANGED <<index, data_index, simh_position, listing>>
        /\ simh_step' = "ADD_ERROR" \/ (simh_step' = "ADD" /\ simh_file' = <<>>)
    BY <1>3 DEF S!Open
  <2>2. index' = 0 /\ data_index' = 0 /\ simh_position' = 0 /\ listing' = <<>>
    BY <2>1 DEF SimhFollowed
  <2>3. simh_step' = "ADD" => SimhWritten'
    <3>1. Layout'[0] = 0 /\ S!Offset'[0] = 0
      BY <1>1, <1>2, LayoutIs, OffsetIs
    <3>2. ASSUME simh_step' = "ADD"
          PROVE  SimhWritten'
      <4>1. Len(simh_file') = 0
        BY <2>1, <3>2
      <4>2. \A i \in 1..index' : FALSE
        BY <2>2
      <4>3. QED
        BY <2>2, <3>1, <4>1, <4>2 DEF SimhWritten
    <3>3. QED
      BY <3>2
  <2>4. QED
    BY <2>1, <2>2, <2>3 DEF SimhFollowed
<1>4. CASE S!AddObject
  <2>1. simh_step = "ADD" /\ UNCHANGED <<simh_position, listing>>
    BY <1>4 DEF S!AddObject
  <2>2. simh_step' = "ADD" /\ SimhWritten'
    BY <1>4, <2>1, SimhAdds DEF SimhFollowed
  <2>3. QED
    BY <2>1, <2>2 DEF SimhFollowed
<1>5. CASE S!WriteFails
  BY <1>2, <1>5 DEF S!WriteFails
<1>6. CASE S!Added
  <2>1. /\ (simh_step = "ADD" /\ index = Len(addition.objects)) \/ (simh_step = "ADD_ERROR" /\ index > 0)
        /\ simh_step' = "ANALYZE"
        /\ UNCHANGED <<addition, limit, simh_file, index, data_index, simh_position, listing, lost>>
    BY <1>6 DEF S!Added
  <2>2. simh_step = "ADD" /\ SimhWritten /\ simh_position = 0 /\ listing = <<>>
    BY <2>1 DEF SimhFollowed
  <2>3. SimhWritten'
    <3>1. ASSUME NEW i \in 1..index
          PROVE  FileHas(i)'
      <4>1. FileHas(i) /\ PartOf(i)' = PartOf(i)
        BY <1>1, <2>2 DEF SimhWritten, PartOf
      <4>2. QED
        BY <1>1, <2>1, <4>1 DEF FileHas, S!IsRecord, Meta
    <3>2. QED
      BY <1>1, <2>1, <2>2, <3>1 DEF SimhWritten
  <2>4. SimhListed'
    <3>1. listing' = <<>> /\ simh_position' = 0 /\ simh_step' = "ANALYZE" /\ <<>> \in Seq(Listed) /\ Len(<<>>) = 0
      BY <2>1, <2>2
    <3>2. Layout'[0] = 0 /\ Len(S!Objects') \in Nat
      BY <1>1, <1>2, LayoutIs
    <3>3. \A i \in 1..0 : FALSE
      OBVIOUS
    <3>4. QED
      BY <3>1, <3>2, <3>3 DEF SimhListed
  <2>5. index' = Len(S!Objects')
    BY <1>1, <2>1, <2>2 DEF S!Objects
  <2>6. QED
    BY <2>1, <2>3, <2>4, <2>5 DEF SimhFollowed
<1>7. CASE S!AnalyzeObject
  <2>1. simh_step = "ANALYZE" /\ simh_step' \in {"ANALYZE", "SUCCESS", "ERROR"}
    BY <1>7 DEF S!AnalyzeObject, S!PrintRecord
  <2>2. index = Len(S!Objects) /\ SimhWritten /\ SimhListed
    BY <2>1 DEF SimhFollowed
  <2>3. simh_step' # "ERROR" /\ index' = Len(S!Objects') /\ SimhWritten' /\ SimhListed'
    BY <1>7, <2>1, <2>2, SimhFinds
  <2>4. QED
    BY <2>1, <2>3 DEF SimhFollowed
<1>8. QED
  BY <1>3, <1>4, <1>5, <1>6, <1>7 DEF S!Next

LEMMA SimhInitially == DevicesAssumption /\ Init => SimhInv
<1> SUFFICES ASSUME DevicesAssumption, S!Init
             PROVE  SimhTypes /\ SimhFollowed
  BY DEF Init, SimhInv
<1>1. /\ addition \in Additions /\ limit \in Limits /\ simh_file = <<S!Zero>> /\ index = 0 /\ data_index = 0
      /\ simh_position = 0 /\ listing = <<>> /\ simh_step = "OPEN" /\ lost = FALSE
  BY DEF S!Init
<1> DEFINE V == [cls : {"RECORD", "GOOD"}, value : 0..3] \cup [cls : {"BAD"}, value : {3, 8}]
                  \cup [cls : {"PRIVATE", "RESERVED"}, value : {5, 7}]
<1>2. V \subseteq SimhObject
  BY DEF SimhObject, SimhClass
<1>3. addition \in [objects : Upto(2, V), data : {-1, 3, 6}]
  BY <1>1 DEF Additions
<1> HIDE DEF V
<1>4. addition.objects \in Upto(2, V) /\ addition.data \in {-1, 3, 6}
      /\ addition = [objects |-> addition.objects, data |-> addition.data]
  BY <1>3
<1>5. PICK k \in 1..2 : addition.objects \in [1..k -> V]
  BY <1>4 DEF Upto
<1>6. addition.objects \in Seq(V)
  BY <1>5
<1>7. addition.objects \in Seq(SimhObject)
  BY <1>2, <1>6, SeqMonotonic
<1>8. addition \in [objects : Seq(SimhObject), data : Int]
  <2> DEFINE W == Seq(SimhObject)
  <2>1. addition.objects \in W
    BY <1>7
  <2> HIDE DEF W
  <2>0. addition.data \in Int
    <3>1. addition.data \in {-1, 3, 6}
      BY <1>4
    <3>2. \A n \in {-1, 3, 6} : n \in Int
      OBVIOUS
    <3>3. QED
      BY <3>1, <3>2
  <2>2. addition \in [objects : W, data : Int]
    <3>1. addition = [objects |-> addition.objects, data |-> addition.data]
      BY <1>4
    <3>2. QED
      BY <2>0, <2>1, <3>1
  <2>3. QED
    BY <2>2 DEF W
<1>9. simh_file \in Seq(SimhByte)
  BY <1>1, MetaBytes
<1>10. index \in 0..Len(S!Objects)
  <2>1. Len(S!Objects) \in Nat
    BY <1>7 DEF S!Objects
  <2>2. QED
    BY <1>1, <2>1
<1>11. QED
  BY <1>1, <1>8, <1>9, <1>10 DEF SimhTypes, SimhFollowed

LEMMA OtherThanSimh ==
  ASSUME [Next]_vars
  PROVE  \/ UNCHANGED <<part, simh_vars>>
         \/ part = "SIMH" /\ S!Next /\ UNCHANGED part
BY DEF Next, vars, Transfer, Host, Spool, Net, Generic, Disk, TapeCopy, Simh, Exec, Mode, Config

LEMMA SimhStep == DevicesAssumption /\ SimhInv /\ [Next]_vars => SimhInv'
<1> SUFFICES ASSUME DevicesAssumption, SimhInv, [Next]_vars, part' = "SIMH"
             PROVE  SimhTypes' /\ (S!Proper' => SimhFollowed')
  BY DEF SimhInv
<1>1. part = "SIMH" /\ SimhTypes /\ (S!Proper => SimhFollowed)
  BY OtherThanSimh DEF SimhInv
<1>2. CASE UNCHANGED <<part, simh_vars>>
  <2>1. UNCHANGED <<addition, limit, simh_file, index, data_index, simh_position, listing, simh_step, lost>>
    BY <1>2 DEF simh_vars
  <2>2. S!Objects' = S!Objects /\ S!HasDataFile' = S!HasDataFile
    BY <2>1 DEF S!Objects, S!HasDataFile
  <2>3. Layout' = Layout /\ S!Offset' = S!Offset
    BY <2>2 DEF Layout, S!Offset
  <2>4. SimhTypes' = SimhTypes
    BY <2>1, <2>2 DEF SimhTypes
  <2>5. S!Proper' = S!Proper
    BY <2>1, <2>2, <2>3 DEF S!Proper
  <2>6. SimhFollowed' = SimhFollowed
    BY <2>1, <2>2, <2>3 DEF SimhFollowed, SimhWritten, SimhListed, FileHas, PartOf
  <2>7. QED
    BY <1>1, <2>4, <2>5, <2>6
<1>3. CASE S!Next
  <2>1. SimhTypes'
    BY <1>1, <1>3, SimhTypesKept
  <2>2. ASSUME S!Proper'
        PROVE  SimhFollowed'
    <3>1. lost' = lost
      <4>1. ~lost'
        BY <2>2 DEF S!Proper
      <4>2. lost' = lost \/ lost' = TRUE
        BY <1>3, SimhKeeps
      <4>3. QED
        BY <4>1, <4>2
    <3>2. S!Proper
      BY <1>3, <2>2, <3>1, SimhKeeps
    <3>3. QED
      BY <1>1, <1>3, <3>1, <3>2, SimhFollowedKept
  <2>3. QED
    BY <2>1, <2>2
<1>4. QED
  BY <1>2, <1>3, OtherThanSimh

LEMMA SimhCopies == SimhInv => (part = "SIMH" => S!SimhAccepted /\ S!TypeOK)
<1> SUFFICES ASSUME SimhTypes, S!Proper => SimhFollowed
             PROVE  S!SimhAccepted /\ S!TypeOK
  BY DEF SimhInv
<1>1. S!TypeOK
  BY DEF S!TypeOK, SimhTypes, S!Objects
<1>2. ASSUME simh_step \in {"ANALYZE", "ERROR", "SUCCESS"}, S!Proper
      PROVE  /\ simh_step # "ERROR" /\ Len(listing) <= Len(S!Objects)
             /\ \A i \in 1..Len(listing) :
                  /\ listing[i].cls = S!Objects[i].cls /\ listing[i].value = S!Objects[i].value
                  /\ S!IsRecord(S!Objects[i]) => listing[i].data = PartOf(i)
                  /\ S!Ends(S!Objects[i]) => i = Len(listing)
             /\ simh_step = "SUCCESS" => listing # <<>> \/ S!Objects = <<>>
             /\ simh_step = "SUCCESS" /\ Len(listing) < Len(S!Objects) => S!Ends(S!Objects[Len(listing)])
  <2>1. simh_step # "ERROR" /\ SimhListed
    BY <1>2 DEF SimhFollowed
  <2>2. S!Objects \in Seq(SimhObject) /\ listing \in Seq(Listed)
    BY <2>1 DEF SimhTypes, SimhListed, S!Objects
  <2>3. Len(S!Objects) \in Nat /\ Len(listing) \in Nat
    BY <2>2
  <2>4. /\ Len(listing) = 0 <=> listing = <<>>
        /\ Len(S!Objects) = 0 <=> S!Objects = <<>>
    BY <2>2, EmptySeq
  <2>5. simh_step = "SUCCESS" => Len(listing) = Len(S!Objects) \/ (Len(listing) > 0 /\ S!Ends(S!Objects[Len(listing)]))
    BY <2>1 DEF SimhListed
  <2>6. simh_step = "SUCCESS" => listing # <<>> \/ S!Objects = <<>>
    BY <2>3, <2>4, <2>5
  <2>7. simh_step = "SUCCESS" /\ Len(listing) < Len(S!Objects) => S!Ends(S!Objects[Len(listing)])
    BY <2>3, <2>5
  <2>8. QED
    BY <2>1, <2>6, <2>7 DEF SimhListed
<1>3. S!SimhAccepted
  BY <1>2 DEF S!SimhAccepted, PartOf
<1>4. QED
  BY <1>1, <1>3

(* What a start finds in the configuration. *)

PropertyRecord == [key : C!Key, value : C!Value]
KnownKey == {"DEVICE_0", "DEVICE_0_0", "LOCALE", "LOG_LEVEL"}

\* s2p asks for every one of these properties, for the locale because of a device.
KnownProperties(props) ==
  /\ props \subseteq PropertyRecord
  /\ \A p \in props : p.key \in KnownKey
  /\ \A p \in props : p.key = "LOCALE" => \E q \in props : C!IsDevice(q.key)

\* So it is with these lines, and with the first of them.
KnownLines(lines) ==
  \A i \in 1..Len(lines) :
    /\ lines[i].key \in KnownKey
    /\ lines[i].key = "LOCALE" => \E j \in 1..i - 1 : C!IsDevice(lines[j].key)

\* What s2p has, writes and has written are properties it knows.
ConfigKnown ==
  /\ KnownProperties(property_cache)
  /\ \A a \in C!Actors : persist[a].lines \in Seq(PropertyRecord) /\ KnownLines(persist[a].lines)
  /\ \A i \in Inode :
       /\ data_of[i] \in Seq(PropertyRecord)
       /\ KnownLines(data_of[i]) \/ \E h \in HandWritten : data_of[i] = C!Lines(h)
  /\ start.refused \in {"NO", "SYNTAX", "UNKNOWN", "VALUE"} /\ C!ConfigFound

FoundInv == part = "CONFIG" => ConfigKnown /\ s2p \in {"UP", "DOWN"}

\* What is added to lines that are known may be known as well.
LEMMA KnownAppend ==
  ASSUME NEW l, l \in Seq(PropertyRecord), KnownLines(l), NEW x \in PropertyRecord,
         x.key \in KnownKey,
         x.key = "LOCALE" => \E j \in 1..Len(l) : C!IsDevice(l[j].key)
  PROVE  Append(l, x) \in Seq(PropertyRecord) /\ KnownLines(Append(l, x))
<1> DEFINE m == Append(l, x)
<1>1. /\ m \in Seq(PropertyRecord) /\ Len(m) = Len(l) + 1 /\ m[Len(l) + 1] = x
      /\ \A i \in 1..Len(l) : m[i] = l[i]
  BY AppendProperties
<1> HIDE DEF m
<1>2. Len(l) \in Nat
  OBVIOUS
<1>3. ASSUME NEW i \in 1..Len(m)
      PROVE  m[i].key \in KnownKey /\ (m[i].key = "LOCALE" => \E j \in 1..i - 1 : C!IsDevice(m[j].key))
  <2>1. CASE i = Len(l) + 1
    <3>1. i - 1 = Len(l)
      BY <1>2, <2>1
    <3>2. QED
      BY <1>1, <2>1, <3>1
  <2>2. CASE i \in 1..Len(l)
    <3>1. \A j \in 1..i - 1 : j \in 1..Len(l)
      BY <1>2, <2>2
    <3>2. QED
      BY <1>1, <2>2, <3>1 DEF KnownLines
  <2>3. QED
    BY <1>1, <1>2, <2>1, <2>2
<1>4. QED
  BY <1>1, <1>3 DEF KnownLines, m

\* The first lines of known lines are known.
LEMMA KnownPrefix ==
  ASSUME NEW l, l \in Seq(PropertyRecord), KnownLines(l), NEW k \in 0..Len(l)
  PROVE  /\ SubSeq(l, 1, k) \in Seq(PropertyRecord) /\ KnownLines(SubSeq(l, 1, k))
         /\ Len(SubSeq(l, 1, k)) = k /\ \A i \in 1..k : SubSeq(l, 1, k)[i] = l[i]
<1>1. Len(l) \in Nat /\ \A i \in 1..k : l[i] \in PropertyRecord
  BY ElementOfSeq
<1>2. SubSeq(l, 1, k) \in Seq(PropertyRecord)
  BY <1>1, SubSeqProperties
<1>3. Len(SubSeq(l, 1, k)) = k /\ \A i \in 1..k : SubSeq(l, 1, k)[i] = l[i]
  BY <1>1, SubSeqProperties
<1>4. ASSUME NEW i \in 1..k
      PROVE  /\ l[i].key \in KnownKey
             /\ l[i].key = "LOCALE" => \E j \in 1..i - 1 : C!IsDevice(SubSeq(l, 1, k)[j].key)
  <2>1. i \in 1..Len(l) /\ \A j \in 1..i - 1 : j \in 1..k
    BY <1>1
  <2>2. QED
    BY <1>3, <2>1 DEF KnownLines
<1>5. QED
  BY <1>2, <1>3, <1>4 DEF KnownLines

\* The lines of properties that are known are known.
LEMMA LinesKnown ==
  ASSUME NEW props, props \subseteq PropertyRecord
  PROVE  /\ C!Lines(props) \in Seq(PropertyRecord)
         /\ KnownProperties(props) => KnownLines(C!Lines(props))
<1> DEFINE n == Len(KeyOrder)
           V == Seq(PropertyRecord)
           has(i) == KeyOrder[i] \in C!Keys(props)
           line_of(i) == CHOOSE p \in props : p.key = KeyOrder[i]
           h == [x \in V \X (1..n) |-> IF has(x[2]) THEN Append(x[1], line_of(x[2])) ELSE x[1]]
           F == CHOOSE f : f = [i \in 0..n |->
                  IF i = 0 THEN <<>> ELSE IF has(i) THEN Append(f[i - 1], line_of(i)) ELSE f[i - 1]]
<1>1. C!Lines(props) = F[n]
  BY DEF C!Lines
<1>2. n = 6
  BY DEF KeyOrder
<1>3. \A i \in 1..n : has(i) => line_of(i) \in props /\ line_of(i).key = KeyOrder[i]
  BY DEF C!Keys
<1>4. <<>> \in V
  OBVIOUS
<1> HIDE DEF n, has, line_of
<1>5. ASSUME NEW v \in V, NEW i \in 1..n
      PROVE  /\ h[<<v, i>>] = IF has(i) THEN Append(v, line_of(i)) ELSE v
             /\ h[<<v, i>>] \in V
  <2>1. h[<<v, i>>] = IF has(i) THEN Append(v, line_of(i)) ELSE v
    OBVIOUS
  <2>2. ASSUME has(i)
        PROVE  Append(v, line_of(i)) \in Seq(PropertyRecord)
    <3>1. line_of(i) \in PropertyRecord
      BY <1>3, <2>2
    <3>2. QED
      BY <3>1, AppendProperties
  <2>3. QED
    BY <2>1, <2>2
<1> HIDE DEF h, V
<1>6. Closed(h, V, n)
  BY <1>5 DEF Closed
<1>7. n \in Nat
  BY <1>2
<1>8. PICK f \in [0..n -> V] : Iterates(f, <<>>, h, n)
  BY <1>4, <1>6, <1>7, Recursion
<1>9. f = [i \in 0..n |-> IF i = 0 THEN <<>> ELSE IF has(i) THEN Append(f[i - 1], line_of(i)) ELSE f[i - 1]]
  <2>1. ASSUME NEW i \in 0..n
        PROVE  f[i] = IF i = 0 THEN <<>> ELSE IF has(i) THEN Append(f[i - 1], line_of(i)) ELSE f[i - 1]
    <3>1. CASE i = 0
      BY <1>8, <3>1 DEF Iterates
    <3>2. CASE i # 0
      <4>1. i \in 1..n /\ i - 1 \in 0..n
        BY <1>7, <3>2
      <4>2. f[i] = h[<<f[i - 1], i>>] /\ f[i - 1] \in V
        BY <1>8, <4>1 DEF Iterates
      <4>3. QED
        BY <1>5, <3>2, <4>1, <4>2
    <3>3. QED
      BY <3>1, <3>2
  <2>2. QED
    BY <2>1
<1>10. F = [i \in 0..n |-> IF i = 0 THEN <<>> ELSE IF has(i) THEN Append(F[i - 1], line_of(i)) ELSE F[i - 1]]
  BY <1>9
<1> HIDE DEF F
<1>11. F[0] = <<>> /\ \A i \in 1..n : F[i] = IF has(i) THEN Append(F[i - 1], line_of(i)) ELSE F[i - 1]
  <2>1. F[0] = <<>>
    BY <1>7, <1>10
  <2>2. ASSUME NEW i \in 1..n
        PROVE  F[i] = IF has(i) THEN Append(F[i - 1], line_of(i)) ELSE F[i - 1]
    <3>1. i \in 0..n /\ i # 0
      BY <1>7
    <3>2. QED
      BY <1>10, <3>1
  <2>3. QED
    BY <2>1, <2>2
<1> DEFINE Device(l) == \E j \in 1..Len(l) : C!IsDevice(l[j].key)
           A == {i \in 0..n : F[i] \in V}
           B == {i \in 0..n : KnownLines(F[i]) /\ ((i >= 1 /\ has(1)) \/ (i >= 2 /\ has(2)) => Device(F[i]))}
<1>12. \A i \in 0..n : i \in A
  <2>1. 0 \in A
    BY <1>4, <1>7, <1>11
  <2>2. ASSUME NEW i \in 0..n - 1, i \in A
        PROVE  i + 1 \in A
    <3>1. PICK j \in 1..n : j = i + 1 /\ j - 1 = i /\ j \in 0..n
      BY <1>7
    <3>2. F[j] = IF has(j) THEN Append(F[j - 1], line_of(j)) ELSE F[j - 1]
      BY <1>11
    <3>3. QED
      BY <1>5, <2>2, <3>1, <3>2
  <2> HIDE DEF A
  <2>3. QED
    BY <1>7, <2>1, <2>2, UpTo
<1>13. ASSUME KnownProperties(props)
       PROVE  \A i \in 0..n : i \in B
  <2>1. 0 \in B
    BY <1>7, <1>11 DEF KnownLines
  <2>2. ASSUME NEW i \in 0..n - 1, i \in B
        PROVE  i + 1 \in B
    <3>1. PICK j \in 1..n : j = i + 1 /\ j - 1 = i /\ j \in 0..n /\ i \in 0..n
      BY <1>7
    <3>2. F[j] = IF has(j) THEN Append(F[i], line_of(j)) ELSE F[i]
      BY <1>11, <3>1
    <3>3. F[i] \in Seq(PropertyRecord) /\ KnownLines(F[i])
      BY <1>12, <2>2, <3>1 DEF V
    <3>4. CASE ~has(j)
      <4>1. (j >= 1 /\ has(1)) \/ (j >= 2 /\ has(2)) => (i >= 1 /\ has(1)) \/ (i >= 2 /\ has(2))
        BY <3>1, <3>4
      <4>2. QED
        BY <2>2, <3>1, <3>2, <3>4, <4>1
    <3>5. CASE has(j)
      <4>1. line_of(j) \in PropertyRecord /\ line_of(j).key = KeyOrder[j] /\ line_of(j) \in props
        BY <1>3, <3>5
      <4>2. line_of(j).key \in KnownKey
        BY <1>13, <4>1 DEF KnownProperties
      <4>3. /\ KeyOrder[j] = "LOCALE" => j = 3
            /\ j \in {1, 2} => C!IsDevice(KeyOrder[j])
            /\ \A p \in props : C!IsDevice(p.key) => has(1) \/ has(2)
        BY <1>2 DEF KeyOrder, C!IsDevice, has, C!Keys
      <4>4. line_of(j).key = "LOCALE" => Device(F[i])
        <5>1. line_of(j).key = "LOCALE" => i = 2 /\ (has(1) \/ has(2))
          BY <1>13, <3>1, <4>1, <4>3 DEF KnownProperties
        <5>2. QED
          BY <2>2, <5>1
      <4>5. KnownLines(F[j])
        BY <3>2, <3>3, <3>5, <4>1, <4>2, <4>4, KnownAppend
      <4>6. /\ Len(F[j]) = Len(F[i]) + 1 /\ F[j][Len(F[i]) + 1] = line_of(j)
            /\ \A k \in 1..Len(F[i]) : F[j][k] = F[i][k]
        BY <3>2, <3>3, <3>5, <4>1, AppendProperties
      <4>7. Len(F[i]) \in Nat
        BY <3>3
      <4>8. Device(F[i]) => Device(F[j])
        BY <4>6, <4>7, SMTT(30)
      <4>9. j \in {1, 2} => Device(F[j])
        BY <4>1, <4>3, <4>6, <4>7
      <4>10. (j >= 1 /\ has(1)) \/ (j >= 2 /\ has(2)) => Device(F[j])
        BY <2>2, <3>1, <4>8, <4>9
      <4>11. QED
        BY <3>1, <4>5, <4>10
    <3>6. QED
      BY <3>4, <3>5
  <2> HIDE DEF B
  <2>3. QED
    BY <1>7, <2>1, <2>2, UpTo
<1>14. QED
  BY <1>1, <1>7, <1>12, <1>13 DEF V

\* Properties may be replaced.
LEMMA OverrideKnown ==
  ASSUME NEW props, KnownProperties(props), NEW p \in PropertyRecord, p.key \in {"LOG_LEVEL",
         "DEVICE_0_0"}
  PROVE  KnownProperties(C!Override(props, {p}))
<1>1. C!Override(props, {p}) = {q \in props : q.key # p.key} \cup {p}
  BY DEF C!Override, C!Keys
<1>2. ASSUME NEW q \in props, q.key = "LOCALE"
      PROVE  \E d \in C!Override(props, {p}) : C!IsDevice(d.key)
  <2>1. PICK d \in props : C!IsDevice(d.key)
    BY <1>2 DEF KnownProperties
  <2>2. QED
    BY <1>1, <2>1 DEF C!IsDevice
<1>3. QED
  BY <1>1, <1>2 DEF KnownProperties, KnownKey

\* The lines of a file and the command line are merged into properties.
LEMMA MergedTypes ==
  ASSUME NEW lines \in Seq(PropertyRecord), NEW arguments, arguments \subseteq PropertyRecord
  PROVE  C!Merged(lines, arguments) \subseteq PropertyRecord /\ C!Props(lines) \subseteq PropertyRecord
<1> DEFINE all == C!Override(C!Props(lines), arguments)
           known == {p \in all : C!Normal(p.key) = p.key}
<1>1. C!Props(lines) \subseteq PropertyRecord
  BY ElementOfSeq DEF C!Props
<1>2. all \subseteq PropertyRecord
  BY <1>1 DEF C!Override
<1> HIDE DEF all
<1>3. "DEVICE_0_0" \in C!Key
  BY DEF C!Key, KeyOrder
<1>4. \A p \in PropertyRecord : [p EXCEPT !.key = C!Normal(@)] \in PropertyRecord
  BY <1>3 DEF PropertyRecord, C!Normal
<1>5. C!Merged(lines, arguments) = C!Override({[p EXCEPT !.key = C!Normal(@)] : p \in all \ known}, known)
  BY DEF C!Merged, all
<1>6. QED
  BY <1>1, <1>2, <1>4, <1>5 DEF C!Override

\* Without a device that lacks its LUN they are those of the file.
LEMMA MergedIsFile ==
  ASSUME NEW lines, "DEVICE_0" \notin C!Keys(C!Props(lines))
  PROVE  C!Merged(lines, {}) = C!Props(lines)
<1> DEFINE all == C!Override(C!Props(lines), {})
           known == {p \in all : C!Normal(p.key) = p.key}
<1>1. all = C!Props(lines)
  BY DEF C!Override, C!Keys
<1>2. known = all
  BY <1>1 DEF C!Normal, C!Keys
<1>3. C!Merged(lines, {}) = C!Override({[p EXCEPT !.key = C!Normal(@)] : p \in all \ known}, known)
  BY DEF C!Merged
<1>4. QED
  BY <1>1, <1>2, <1>3 DEF C!Override

\* From known lines come properties s2p asks for.
LEMMA MergedKnown ==
  ASSUME NEW lines \in Seq(PropertyRecord), KnownLines(lines)
  PROVE  C!Unknown(C!Merged(lines, {})) = {}
<1> DEFINE all == C!Props(lines)
           known == {p \in all : C!Normal(p.key) = p.key}
           props == C!Merged(lines, {})
           given(p) == [p EXCEPT !.key = C!Normal(@)]
<1>1. C!Override(all, {}) = all
  BY DEF C!Override, C!Keys
<1>2. props = {q \in {given(p) : p \in all \ known} : q.key \notin C!Keys(known)} \cup known
  BY <1>1 DEF C!Merged, C!Override
<1>3. all \subseteq PropertyRecord
  BY ElementOfSeq DEF C!Props
<1>4. /\ \A p \in all : p.key \in KnownKey
      /\ \A p \in all : p.key = "LOCALE" => \E q \in all : C!IsDevice(q.key)
  <2>1. ASSUME NEW p \in all
        PROVE  p.key \in KnownKey /\ (p.key = "LOCALE" => \E q \in all : C!IsDevice(q.key))
    <3>1. PICK i \in 1..Len(lines) : p = lines[i]
      BY DEF C!Props
    <3>2. \A j \in 1..i - 1 : j \in 1..Len(lines)
      OBVIOUS
    <3>3. QED
      BY <3>1, <3>2 DEF KnownLines, C!Props
  <2>2. QED
    BY <2>1
<1> HIDE DEF all, props
<1>5. \A p \in all : given(p).key = C!Normal(p.key)
  BY <1>3 DEF PropertyRecord
<1> HIDE DEF given
<1>6. ASSUME NEW q \in props
      PROVE  q.key \in {"DEVICE_0_0", "LOCALE", "LOG_LEVEL"}
  <2>1. CASE q \in known
    BY <1>4, <2>1 DEF KnownKey, C!Normal
  <2>2. ASSUME NEW p \in all, p \notin known, q = given(p)
        PROVE  q.key = "DEVICE_0_0"
    BY <1>5, <2>2 DEF C!Normal
  <2>3. QED
    BY <1>2, <1>6, <2>1, <2>2
<1>7. ASSUME NEW q \in props, q.key = "LOCALE"
      PROVE  \E d \in props : C!IsDevice(d.key)
  <2>1. q \in all
    <3>1. ASSUME NEW p \in all, p \notin known, q = given(p)
          PROVE  FALSE
      BY <1>5, <1>7, <3>1 DEF C!Normal
    <3>2. QED
      BY <1>2, <1>7, <3>1
  <2>2. PICK p \in all : C!IsDevice(p.key)
    BY <1>4, <1>7, <2>1
  <2>3. CASE p \in known
    BY <1>2, <2>2, <2>3
  <2>4. CASE p \notin known
    <3>1. given(p).key = "DEVICE_0_0"
      BY <1>5, <2>4 DEF C!Normal
    <3>2. CASE "DEVICE_0_0" \in C!Keys(known)
      BY <1>2, <3>2 DEF C!Keys, C!IsDevice
    <3>3. CASE "DEVICE_0_0" \notin C!Keys(known)
      BY <1>2, <2>4, <3>1, <3>3 DEF C!IsDevice
    <3>4. QED
      BY <3>2, <3>3
  <2>5. QED
    BY <2>3, <2>4
<1>8. QED
  BY <1>6, <1>7 DEF C!Unknown, C!Keys, C!IsDevice, props

\* The command line has priority.
LEMMA MergedArguments ==
  ASSUME NEW lines, NEW arguments, NEW p \in arguments, p \in PropertyRecord,
         \/ C!Normal(p.key) = p.key
         \/ C!Normal(p.key) \notin C!Keys(C!Props(lines)) \cup C!Keys(arguments)
  PROVE  [p EXCEPT !.key = C!Normal(@)] \in C!Merged(lines, arguments)
<1> DEFINE all == C!Override(C!Props(lines), arguments)
           known == {q \in all : C!Normal(q.key) = q.key}
           given(q) == [q EXCEPT !.key = C!Normal(@)]
<1>1. p \in all
  BY DEF C!Override
<1>2. C!Merged(lines, arguments) = {q \in {given(r) : r \in all \ known} : q.key \notin C!Keys(known)} \cup known
  BY DEF C!Merged, C!Override
<1>3. C!Keys(all) \subseteq C!Keys(C!Props(lines)) \cup C!Keys(arguments)
  BY DEF C!Keys, C!Override
<1>4. given(p).key = C!Normal(p.key) /\ (C!Normal(p.key) = p.key => given(p) = p)
  BY DEF PropertyRecord
<1>5. C!Keys(known) \subseteq C!Keys(all)
  BY DEF C!Keys
<1> HIDE DEF all, given
<1>6. CASE C!Normal(p.key) = p.key
  BY <1>1, <1>2, <1>4, <1>6 DEF given
<1>7. CASE C!Normal(p.key) # p.key
  <2>1. p \in all \ known /\ given(p).key \notin C!Keys(known)
    BY <1>1, <1>3, <1>4, <1>5, <1>7
  <2>2. given(p) \in C!Merged(lines, arguments)
    BY <1>2, <2>1
  <2>3. QED
    BY <2>2 DEF given
<1>8. QED
  BY <1>6, <1>7

LEMMA GivenProperties ==
  /\ \A a \in CommandLines : a \subseteq PropertyRecord
  /\ \A h \in HandWritten : h \subseteq PropertyRecord
<1>1. \A k \in {"DEVICE_0", "LOG_LEVEL", "LOCALE", "PROPERTY_FILES", "OTHER"}, v \in {"A", "B"} :
        Property(k, v) \in PropertyRecord
  <2>1. {"DEVICE_0", "LOG_LEVEL", "LOCALE", "PROPERTY_FILES", "OTHER"} \subseteq C!Key
    BY DEF C!Key, KeyOrder
  <2>2. QED
    BY <2>1 DEF Property, PropertyRecord, C!Value
<1>2. QED
  BY <1>1 DEF CommandLines, HandWritten

\* A start.
LEMMA FoundStart ==
  ASSUME ConfigSafe, ConfigKnown, NEW arguments \in CommandLines, NEW ignore_conf \in BOOLEAN,
         C!Start(arguments, ignore_conf)
  PROVE  ConfigKnown'
<1> DEFINE lines == IF ignore_conf \/ CONF = C!NoInode THEN C!NoLines ELSE data_of[CONF]
           props == C!Merged(lines, arguments)
           Outcome(r) ==
             /\ start' = [conf |-> lines, arguments |-> arguments, cache |-> IF r = "NO" THEN props ELSE {},
                          refused |-> r]
             /\ property_cache' = IF r = "NO" THEN props ELSE {}
<1>1. UNCHANGED <<data_of, persist>>
  BY DEF C!Start
<1>2. \/ Outcome("SYNTAX") \/ Outcome("VALUE")
      \/ Outcome(IF C!Unknown(props) # {} THEN "UNKNOWN" ELSE "NO")
  BY DEF C!Start
<1>3. arguments \subseteq PropertyRecord
  BY GivenProperties
<1>4. /\ lines \in Seq(PropertyRecord)
      /\ KnownLines(lines) \/ \E h \in HandWritten : lines = C!Lines(h)
  <2>1. CASE lines = C!NoLines
    <3>1. <<>> \in Seq(PropertyRecord) /\ KnownLines(<<>>)
      BY DEF KnownLines
    <3> HIDE DEF lines
    <3>2. QED
      BY <2>1, <3>1 DEF C!NoLines
  <2>2. CASE CONF # C!NoInode /\ lines = data_of[CONF]
    <3>1. CONF \in Inode
      BY <2>2, ConfigBound DEF ConfigSafe, ConfigTypes, InodesUsed, Inode, C!NoInode
    <3>2. QED
      BY <2>2, <3>1 DEF ConfigKnown
  <2>3. QED
    BY <2>1, <2>2
<1> HIDE DEF lines
<1>5. props \subseteq PropertyRecord
  BY <1>3, <1>4, MergedTypes
<1>6. arguments = {} /\ "DEVICE_0" \notin C!Keys(C!Props(lines)) => props = C!Props(lines)
  BY MergedIsFile
<1>7. arguments = {} /\ KnownLines(lines) => C!Unknown(props) = {}
  BY <1>4, MergedKnown
<1>8. ASSUME NEW p \in arguments,
             \/ C!Normal(p.key) = p.key
             \/ C!Normal(p.key) \notin C!Keys(C!Props(lines)) \cup C!Keys(arguments)
      PROVE  [p EXCEPT !.key = C!Normal(@)] \in props
  <2>1. p \in PropertyRecord
    BY <1>3
  <2>2. QED
    BY <1>8, <2>1, MergedArguments
<1>9. C!Unknown(props) = {} => KnownProperties(props)
  <2>1. ASSUME C!Unknown(props) = {}, NEW p \in props
        PROVE  p.key \in KnownKey /\ (p.key = "LOCALE" => \E q \in props : C!IsDevice(q.key))
    <3>1. p.key \in C!Keys(props) /\ p.key \notin C!Unknown(props)
      BY <2>1 DEF C!Keys
    <3>2. C!IsDevice(p.key) \/ p.key = "LOG_LEVEL"
            \/ (p.key = "LOCALE" /\ \E j \in C!Keys(props) : C!IsDevice(j))
      BY <3>1 DEF C!Unknown
    <3>3. QED
      BY <3>2 DEF C!Keys, C!IsDevice, KnownKey
  <2>2. QED
    BY <1>5, <2>1 DEF KnownProperties
<1> HIDE DEF props
<1>10. PICK r \in {"SYNTAX", "VALUE", "UNKNOWN", "NO"} :
         /\ Outcome(r)
         /\ r = "UNKNOWN" => C!Unknown(props) # {}
         /\ r = "NO" => C!Unknown(props) = {}
  BY <1>2
<1>11. /\ start'.conf = lines /\ start'.arguments = arguments /\ start'.refused = r
       /\ start'.cache = IF r = "NO" THEN props ELSE {}
  BY <1>10
<1>12. C!ConfigFound'
  <2>1. start'.arguments = {} /\ start'.refused = "NO" /\ "DEVICE_0" \notin C!Keys(C!Props(start'.conf)) =>
          start'.cache = C!Props(start'.conf)
    BY <1>6, <1>11
  <2>2. start'.refused = "UNKNOWN" =>
          start'.arguments # {} \/ \E h \in HandWritten : start'.conf = C!Lines(h)
    BY <1>4, <1>7, <1>10, <1>11
  <2>3. ASSUME start'.refused = "NO", NEW p \in start'.arguments,
               \/ C!Normal(p.key) = p.key
               \/ C!Normal(p.key) \notin C!Keys(C!Props(start'.conf)) \cup C!Keys(start'.arguments)
        PROVE  [p EXCEPT !.key = C!Normal(@)] \in start'.cache
    BY <1>8, <1>11, <2>3
  <2>4. QED
    BY <2>1, <2>2, <2>3 DEF C!ConfigFound
<1>13. KnownProperties(property_cache')
  <2>1. KnownProperties({})
    BY DEF KnownProperties
  <2>2. QED
    BY <1>9, <1>10, <2>1
<1>14. QED
  BY <1>1, <1>10, <1>11, <1>12, <1>13 DEF ConfigKnown

\* What is written into a file that is not complete yet.
LEMMA IncompleteKnown ==
  ASSUME NEW l \in Seq(PropertyRecord), KnownLines(l), NEW c \in C!Incomplete(l)
  PROVE  c \in Seq(PropertyRecord) /\ KnownLines(c)
<1>1. PICK k \in 0..Len(l) - 1 :
        c \in {SubSeq(l, 1, k)}
           \cup {Append(SubSeq(l, 1, k), [l[k + 1] EXCEPT !.value = v]) : v \in {"CUT", "NOTHING"}}
  BY DEF C!Incomplete
<1> DEFINE m == SubSeq(l, 1, k)
<1>2. Len(l) \in Nat /\ k \in 0..Len(l) /\ k + 1 \in 1..Len(l)
  BY <1>1
<1>3. m \in Seq(PropertyRecord) /\ KnownLines(m) /\ Len(m) = k /\ \A i \in 1..k : m[i] = l[i]
  BY <1>2, KnownPrefix
<1> HIDE DEF m
<1>4. CASE c = m
  BY <1>3, <1>4
<1>5. ASSUME NEW v \in {"CUT", "NOTHING"}, c = Append(m, [l[k + 1] EXCEPT !.value = v])
      PROVE  c \in Seq(PropertyRecord) /\ KnownLines(c)
  <2> DEFINE x == [l[k + 1] EXCEPT !.value = v]
  <2>1. l[k + 1] \in PropertyRecord
    BY <1>2, ElementOfSeq
  <2>2. x \in PropertyRecord /\ x.key = l[k + 1].key
    BY <2>1 DEF PropertyRecord, C!Value
  <2> HIDE DEF x
  <2>3. l[k + 1].key \in KnownKey /\ (l[k + 1].key = "LOCALE" => \E j \in 1..k : C!IsDevice(l[j].key))
    <3>1. PICK n \in 1..Len(l) : n = k + 1 /\ n - 1 = k
      BY <1>2
    <3>2. QED
      BY <3>1 DEF KnownLines
  <2>4. x.key = "LOCALE" => \E j \in 1..Len(m) : C!IsDevice(m[j].key)
    BY <1>3, <2>2, <2>3
  <2>5. Append(m, x) \in Seq(PropertyRecord) /\ KnownLines(Append(m, x))
    BY <1>3, <2>2, <2>3, <2>4, KnownAppend
  <2>6. QED
    BY <1>5, <2>5 DEF x
<1>6. QED
  BY <1>1, <1>4, <1>5 DEF m

\* What is put into the file of an actor.
LEMMA FoundPut ==
  ASSUME ConfigSafe, ConfigKnown, NEW a \in C!Actors, persist[a].step = "WRITE", NEW contents,
         \A c \in contents : c \in Seq(PropertyRecord) /\ KnownLines(c), C!Put(a, contents)
  PROVE  \A i \in Inode :
           /\ data_of'[i] \in Seq(PropertyRecord)
           /\ KnownLines(data_of'[i]) \/ \E h \in HandWritten : data_of'[i] = C!Lines(h)
<1>1. ASSUME NEW c \in contents, NEW v \in {"CUT", "NOTHING"}
      PROVE  LET d == Append(c, [key |-> KeyOrder[1], value |-> v]) IN d \in Seq(PropertyRecord) /\ KnownLines(d)
  <2> DEFINE x == [key |-> KeyOrder[1], value |-> v]
  <2>1. x \in PropertyRecord /\ x.key = "DEVICE_0"
    BY DEF PropertyRecord, C!Key, C!Value, KeyOrder
  <2> HIDE DEF x
  <2>2. Append(c, x) \in Seq(PropertyRecord) /\ KnownLines(Append(c, x))
    BY <2>1, KnownAppend DEF KnownKey
  <2>3. QED
    BY <2>2 DEF x
<1>2. \E d : data_of' = [data_of EXCEPT ![persist[a].inode] = d] /\ d \in Seq(PropertyRecord) /\ KnownLines(d)
  BY <1>1 DEF C!Put
<1>3. DOMAIN data_of = Inode
  BY DEF ConfigSafe, ConfigTypes
<1>4. QED
  BY <1>2, <1>3 DEF ConfigKnown

LEMMA FoundStep ==
  ASSUME ConfigSafe, ConfigKnown, C!Next
  PROVE  ConfigKnown'
<1>1. ASSUME NEW c \in CommandLines, NEW i \in BOOLEAN, C!Start(c, i)
      PROVE  ConfigKnown'
  BY <1>1, FoundStart
<1>2. CASE C!Kill
  <2>1. UNCHANGED <<data_of, start>> /\ property_cache' = {} /\ persist' = [a \in C!Actors |-> C!Idle]
    BY <1>2 DEF C!Kill
  <2>2. \A a \in C!Actors : persist'[a].lines = <<>>
    BY <2>1 DEF C!Idle, C!NoLines
  <2>3. <<>> \in Seq(PropertyRecord) /\ KnownLines(<<>>)
    BY DEF KnownLines
  <2>4. KnownProperties(property_cache')
    BY <2>1 DEF KnownProperties
  <2>5. C!ConfigFound' = C!ConfigFound
    BY <2>1 DEF C!ConfigFound
  <2>6. QED
    BY <2>1, <2>2, <2>3, <2>4, <2>5 DEF ConfigKnown
<1>3. ASSUME NEW k \in {"LOG_LEVEL", "DEVICE_0_0"}, C!AddProperty(k, "B")
      PROVE  ConfigKnown'
  <2> DEFINE p == [key |-> k, value |-> "B"]
  <2>1. UNCHANGED <<data_of, start, persist>> /\ property_cache' = C!Override(property_cache, {p})
    BY <1>3 DEF C!AddProperty
  <2>2. p \in PropertyRecord /\ p.key \in {"LOG_LEVEL", "DEVICE_0_0"}
    BY DEF PropertyRecord, C!Key, C!Value, KeyOrder
  <2> HIDE DEF p
  <2>3. KnownProperties(property_cache')
    BY <2>1, <2>2, OverrideKnown DEF ConfigKnown
  <2>4. C!ConfigFound' = C!ConfigFound
    BY <2>1 DEF C!ConfigFound
  <2>5. QED
    BY <2>1, <2>3, <2>4 DEF ConfigKnown
<1>4. ASSUME NEW a \in C!Actors, C!Begin(a) \/ C!Remove(a) \/ C!Rename(a) \/ C!WriteFails(a)
      PROVE  ConfigKnown'
  <2>1. UNCHANGED <<data_of, start, property_cache>>
    BY <1>4 DEF C!Begin, C!Remove, C!Rename, C!WriteFails
  <2>2. \A b \in C!Actors : persist'[b].lines = persist[b].lines \/ persist'[b].lines = <<>>
    <3>1. CASE C!Begin(a)
      BY <3>1 DEF C!Begin, C!Idle, C!NoLines, ConfigSafe, ConfigTypes
    <3>2. CASE C!Remove(a) \/ C!Rename(a) \/ C!WriteFails(a)
      BY <3>2 DEF C!Remove, C!Rename, C!WriteFails, C!Go, C!Idle, C!NoLines, ConfigSafe, ConfigTypes
    <3>3. QED
      BY <1>4, <3>1, <3>2
  <2>3. <<>> \in Seq(PropertyRecord) /\ KnownLines(<<>>)
    BY DEF KnownLines
  <2>4. C!ConfigFound' = C!ConfigFound
    BY <2>1 DEF C!ConfigFound
  <2>5. QED
    BY <2>1, <2>2, <2>3, <2>4 DEF ConfigKnown
<1>5. ASSUME NEW a \in C!Actors, C!Open(a)
      PROVE  ConfigKnown'
  <2> DEFINE inode == IF CONF = C!NoInode THEN persist[a].inode ELSE CONF
             written == C!Lines(property_cache)
  <2>1. /\ UNCHANGED <<start, property_cache>> /\ data_of' = [data_of EXCEPT ![inode] = C!NoLines]
        /\ persist' = [persist EXCEPT ![a].step = "WRITE", ![a].inode = inode, ![a].lines = written]
    BY <1>5 DEF C!Open
  <2>2. written \in Seq(PropertyRecord) /\ KnownLines(written)
    BY LinesKnown DEF ConfigKnown, KnownProperties
  <2> HIDE DEF inode, written
  <2>3. \A b \in C!Actors : persist'[b].lines = IF b = a THEN written ELSE persist[b].lines
    BY <2>1 DEF ConfigSafe, ConfigTypes
  <2>4. \A i \in Inode : data_of'[i] = IF i = inode THEN <<>> ELSE data_of[i]
    BY <2>1 DEF ConfigSafe, ConfigTypes, C!NoLines
  <2>5. <<>> \in Seq(PropertyRecord) /\ KnownLines(<<>>)
    BY DEF KnownLines
  <2>6. C!ConfigFound' = C!ConfigFound
    BY <2>1 DEF C!ConfigFound
  <2>7. QED
    BY <2>1, <2>2, <2>3, <2>4, <2>5, <2>6 DEF ConfigKnown
<1>6. ASSUME NEW a \in C!Actors, C!Write(a) \/ C!Close(a)
      PROVE  ConfigKnown'
  <2>1. UNCHANGED <<start, property_cache>> /\ persist[a].step = "WRITE"
    BY <1>6 DEF C!Write, C!Close, C!At
  <2>2. \A b \in C!Actors : persist'[b].lines = persist[b].lines \/ persist'[b].lines = <<>>
    BY <1>6 DEF C!Write, C!Close, C!Idle, C!NoLines, ConfigSafe, ConfigTypes
  <2>3. persist[a].lines \in Seq(PropertyRecord) /\ KnownLines(persist[a].lines)
    BY DEF ConfigKnown
  <2>4. \E contents : /\ C!Put(a, contents)
                      /\ \A c \in contents : c \in Seq(PropertyRecord) /\ KnownLines(c)
    <3>1. CASE C!Write(a)
      <4>1. PICK c \in C!Incomplete(persist[a].lines) : C!Put(a, {c})
        BY <3>1 DEF C!Write
      <4>2. c \in Seq(PropertyRecord) /\ KnownLines(c)
        BY <2>3, IncompleteKnown
      <4>3. QED
        BY <4>1, <4>2
    <3>2. CASE C!Close(a)
      BY <2>3, <3>2 DEF C!Close
    <3>3. QED
      BY <1>6, <3>1, <3>2
  <2>5. \A i \in Inode :
           /\ data_of'[i] \in Seq(PropertyRecord)
           /\ KnownLines(data_of'[i]) \/ \E h \in HandWritten : data_of'[i] = C!Lines(h)
    BY <2>1, <2>4, FoundPut
  <2>6. <<>> \in Seq(PropertyRecord) /\ KnownLines(<<>>)
    BY DEF KnownLines
  <2>7. C!ConfigFound' = C!ConfigFound
    BY <2>1 DEF C!ConfigFound
  <2>8. QED
    BY <2>1, <2>2, <2>5, <2>6, <2>7 DEF ConfigKnown
<1>7. QED
  BY <1>1, <1>2, <1>3, <1>4, <1>5, <1>6 DEF C!Next

LEMMA FoundInitially ==
  ASSUME C!Init
  PROVE  ConfigKnown
<1>1. PICK h \in HandWritten :
        data_of = [i \in 1..MaxPersists + 1 |-> IF i <= MaxPersists THEN C!NoLines ELSE C!Lines(h)]
  BY DEF C!Init
<1>2. /\ property_cache = {} /\ persist = [a \in C!Actors |-> C!Idle]
      /\ start = [conf |-> C!NoLines, arguments |-> {}, cache |-> {}, refused |-> "NO"]
  BY DEF C!Init
<1>3. <<>> \in Seq(PropertyRecord) /\ KnownLines(<<>>)
  BY DEF KnownLines
<1>4. C!Lines(h) \in Seq(PropertyRecord)
  BY GivenProperties, LinesKnown
<1>5. \A i \in Inode : data_of[i] = <<>> \/ data_of[i] = C!Lines(h)
  BY <1>1 DEF Inode, C!NoLines
<1>6. \A a \in C!Actors : persist[a].lines = <<>>
  BY <1>2 DEF C!Idle, C!NoLines
<1>7. KnownProperties(property_cache)
  BY <1>2 DEF KnownProperties
<1>8. C!ConfigFound
  <2>1. start.conf = <<>> /\ start.arguments = {} /\ start.cache = {} /\ start.refused = "NO"
    BY <1>2 DEF C!NoLines
  <2>2. C!Props(start.conf) = {}
    BY <2>1 DEF C!Props
  <2>3. QED
    BY <2>1, <2>2 DEF C!ConfigFound
<1>9. QED
  BY <1>2, <1>3, <1>4, <1>5, <1>6, <1>7, <1>8 DEF ConfigKnown

LEMMA FoundKept == ConfigInv /\ FoundInv /\ [Next]_vars => FoundInv'
<1> SUFFICES ASSUME ConfigInv, FoundInv, [Next]_vars, part' = "CONFIG"
             PROVE  ConfigKnown' /\ s2p' \in {"UP", "DOWN"}
  BY DEF FoundInv
<1>1. part = "CONFIG" /\ ConfigSafe /\ ConfigKnown /\ s2p \in {"UP", "DOWN"}
  BY OtherThanConfig DEF ConfigInv, FoundInv
<1>2. CASE UNCHANGED config_vars
  <2>1. UNCHANGED <<s2p, property_cache, persist, data_of, start>>
    BY <1>2 DEF config_vars
  <2>2. C!ConfigFound' = C!ConfigFound
    BY <2>1 DEF C!ConfigFound
  <2>3. QED
    BY <1>1, <2>1, <2>2 DEF ConfigKnown
<1>3. CASE C!Next
  <2>1. s2p' \in {"UP", "DOWN"}
    BY <1>1, <1>3
       DEF C!Next, C!Start, C!Kill, C!AddProperty, C!Begin, C!Remove, C!Rename, C!Open, C!Write,
                      C!Close, C!WriteFails
  <2>2. QED
    BY <1>1, <1>3, <2>1, FoundStep
<1>4. QED
  BY <1>1, <1>2, <1>3, OtherThanConfig

LEMMA ConfigurationTypes ==
  ASSUME ConfigSafe, ConfigKnown, s2p \in {"UP", "DOWN"}
  PROVE  C!ConfigFound /\ C!TypeOK
<1>1. {CONF, CONF_OLD} \subseteq 0..MaxPersists + 1
  BY ConfigBound DEF ConfigSafe, ConfigTypes, InodesUsed
<1>2. ASSUME NEW i \in DOMAIN data_of
      PROVE  C!Props(data_of[i]) \subseteq PropertyRecord
  <2>1. data_of[i] \in Seq(PropertyRecord)
    BY DEF ConfigKnown, ConfigSafe, ConfigTypes
  <2>2. QED
    BY <2>1, ElementOfSeq DEF C!Props
<1>3. QED
  BY <1>1, <1>2 DEF C!TypeOK, ConfigSafe, ConfigTypes, ConfigKnown, KnownProperties, PropertyRecord

(* What s2pdump, s2psimh and s2p have written. *)

CopiesInv == TapeInv /\ DiskInv /\ SimhInv /\ ConfigInv /\ FoundInv

LEMMA FoundInvInitially == Init => FoundInv
<1>1. C!Init => ConfigKnown /\ s2p \in {"UP", "DOWN"}
  BY FoundInitially DEF C!Init
<1>2. QED
  BY <1>1 DEF Init, FoundInv

\* s2pdump dumps and restores a medium as it is, a tape up to what misleads the tool; s2psimh lists what it
\* has added to a file; s2p finds the properties of its configuration when it starts.
THEOREM CopiesAreExact == Spec => []CopiesExact
<1>1. Init => CopiesInv
  BY DevicesAssumption, TapeInitially, DiskInitially, SimhInitially, ConfigInitially,
     FoundInvInitially
     DEF CopiesInv
<1>2. CopiesInv /\ [Next]_vars => CopiesInv'
  BY DevicesAssumption, TapeStep, DiskStep, SimhStep, ConfigInvKept, FoundKept DEF CopiesInv
<1>3. CopiesInv => CopiesExact
  BY DevicesAssumption, TapeCopies, DiskCopies, SimhCopies, ConfigurationTypes
     DEF CopiesInv, ConfigInv, FoundInv, CopiesExact
<1>4. QED
  BY <1>1, <1>2, <1>3, PTL DEF Spec
=============================================================================
