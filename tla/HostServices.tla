---------------------------- MODULE HostServices ----------------------------
(***************************************************************************)
(* The host services device (devices/host_services.cpp): an initiator sends*)
(* a remote interface operation with EXECUTE OPERATION and fetches the     *)
(* result with RECEIVE OPERATION RESULTS, and START STOP UNIT schedules a  *)
(* shutdown.  The commands of several initiators follow one another on the *)
(* bus in any order.  An operation is known by the number of its command.  *)
(***************************************************************************)
EXTENDS Integers

CONSTANTS Initiators,     \* hosts that put their ID on the bus when they select
          Anonymous,      \* hosts that do not: they all are UNKNOWN_INITIATOR_ID
          MaxOperations   \* commands in a run

Formats == {"BINARY", "JSON", "TEXT"}
Hosts == Initiators \cup Anonymous
UNKNOWN_INITIATOR_ID == "UNKNOWN"
None == 0

VARIABLES
  execution_results,   \* by initiator ID, the operation whose result is kept, or None
  input_format,        \* of the operation being received: one member for all initiators
  host_phase, host_status,
  request,             \* the command: [op, host, format, n]
  scheduled,           \* the shutdown mode handed to the controller
  fetched,             \* history: the result the last command has delivered, or None
  latest,              \* history: by host, its last operation if it ended GOOD and has not been fetched
  operations           \* number of commands, for the bound

hostVars == <<execution_results, input_format, host_phase, host_status, request, scheduled,
              fetched, latest, operations>>

\* As Id(), without the initiator's ID.
IdUnknown(h) == UNKNOWN_INITIATOR_ID

\* GetInitiatorId()
Id(h) == IF h \in Initiators THEN h ELSE UNKNOWN_INITIATOR_ID

TypeOK ==
  /\ execution_results \in [Initiators \cup {UNKNOWN_INITIATOR_ID} -> 0..MaxOperations]
  /\ input_format \in Formats
  /\ host_phase \in {"FREE", "DATA_IN", "DATA_OUT", "STOPPED"}
  /\ host_status \in {"GOOD", "INVALID_FIELD", "DATA_CURRENTLY_UNAVAILABLE", "INTERNAL_TARGET_FAILURE",
                      "NONE"}
  /\ scheduled \in {"NONE", "STOP_S2P", "STOP_PI", "RESTART_PI"}
  /\ {fetched, operations} \subseteq 0..MaxOperations
  /\ latest \in [Hosts -> 0..MaxOperations]

Init ==
  /\ execution_results = [i \in Initiators \cup {UNKNOWN_INITIATOR_ID} |-> None]
  /\ input_format = "BINARY"
  /\ host_phase = "FREE" /\ host_status = "NONE"
  /\ request \in [op : {"NONE"}, host : Hosts, format : {"BINARY"}, n : {0}]
  /\ scheduled = "NONE"
  /\ fetched = None /\ latest = [h \in Hosts |-> None] /\ operations = 0

Begin ==
  /\ host_phase = "FREE" /\ operations < MaxOperations
  /\ operations' = operations + 1
  /\ fetched' = None

\* n: the operation the command is about.
Asks(op, h, f, n) == Begin /\ request' = [op |-> op, host |-> h, format |-> f, n |-> n]

Reject(asc) == host_phase' = "FREE" /\ host_status' = asc

-----------------------------------------------------------------------------
\* StartStopUnit()
StartStopUnit(h, start, load) ==
  /\ Asks("START_STOP", h, "BINARY", operations')
  /\ IF start /\ ~load
     THEN Reject("INVALID_FIELD") /\ UNCHANGED scheduled
     ELSE /\ scheduled' = IF start THEN "RESTART_PI" ELSE IF load THEN "STOP_PI" ELSE "STOP_S2P"
          /\ host_phase' = "STOPPED" /\ host_status' = "GOOD"
  /\ UNCHANGED <<execution_results, input_format, latest>>

\* ExecuteOperation() with the format bits fs and a length that is zero or not: the result of the
\* operation before is gone even if this one is rejected.
ExecuteOperation(h, fs, empty) ==
  \E f \in Formats :
    /\ Asks("EXECUTE_OPERATION", h, f, operations')
    /\ execution_results' = [execution_results EXCEPT ![Id(h)] = None]
    /\ latest' = [latest EXCEPT ![h] = None]
    /\ IF fs # {f} THEN Reject("INVALID_FIELD") /\ UNCHANGED input_format
       ELSE /\ input_format' = f
            /\ IF empty THEN Reject("INVALID_FIELD")
               ELSE host_phase' = "DATA_OUT" /\ host_status' = "GOOD"
    /\ UNCHANGED scheduled

\* WriteData(): the data are an operation in a format (or in none), which the dispatcher carries out
\* or not.
WriteData(format, dispatched) ==
  /\ host_phase = "DATA_OUT"
  /\ IF format = input_format /\ dispatched
     THEN /\ execution_results' = [execution_results EXCEPT ![Id(request.host)] = request.n]
          /\ latest' = [latest EXCEPT ![request.host] = request.n]
          /\ host_phase' = "FREE" /\ host_status' = "GOOD"
     ELSE Reject("INTERNAL_TARGET_FAILURE") /\ UNCHANGED <<execution_results, latest>>
  /\ UNCHANGED <<input_format, request, scheduled, fetched, operations>>

\* ReceiveOperationResults(): the result is erased when it is put into the buffer.
ReceiveOperationResults(h, fs) ==
  \E f \in Formats :
    /\ Asks("RECEIVE_OPERATION_RESULTS", h, f, execution_results[Id(h)])
    /\ IF fs # {f} THEN Reject("INVALID_FIELD") /\ UNCHANGED <<execution_results, latest>>
       ELSE IF execution_results[Id(h)] = None
       THEN Reject("DATA_CURRENTLY_UNAVAILABLE") /\ UNCHANGED <<execution_results, latest>>
       ELSE /\ execution_results' = [execution_results EXCEPT ![Id(h)] = None]
            /\ host_phase' = "DATA_IN" /\ host_status' = "GOOD"
            /\ UNCHANGED latest
    /\ UNCHANGED <<input_format, scheduled>>

\* The controller's DATA IN phase: the host has all of it.
Deliver ==
  /\ host_phase = "DATA_IN"
  /\ fetched' = request.n
  /\ latest' = [latest EXCEPT ![request.host] = None]
  /\ host_phase' = "FREE"
  /\ UNCHANGED <<execution_results, input_format, host_status, request, scheduled, operations>>

\* A handshake fails or the bus is reset.
BreakOff ==
  /\ host_phase \in {"DATA_IN", "DATA_OUT"}
  /\ host_phase' = "FREE" /\ host_status' = "NONE"
  /\ latest' = [latest EXCEPT ![request.host] = None]
  /\ UNCHANGED <<execution_results, input_format, request, scheduled, fetched, operations>>

FormatBits == {{}} \cup {{f} : f \in Formats} \cup {{"BINARY", "TEXT"}}

Next ==
  \/ \E h \in Hosts, s, l \in BOOLEAN : StartStopUnit(h, s, l)
  \/ \E h \in Hosts, fs \in FormatBits, e \in BOOLEAN : ExecuteOperation(h, fs, e)
  \/ \E h \in Hosts, fs \in FormatBits : ReceiveOperationResults(h, fs)
  \/ \E f \in Formats \cup {"NONE"}, d \in BOOLEAN : WriteData(f, d)
  \/ Deliver \/ BreakOff

-----------------------------------------------------------------------------
\* Between EXECUTE OPERATION and RECEIVE OPERATION RESULTS other hosts use the device: a host that
\* identifies itself receives the result of its own last operation, if that ended with GOOD, at most
\* once, and is not told that there is none before a transfer of it has begun
\* (host_services.cpp:146-203, 272-322).
OwnResult ==
  [][LET own == latest[request'.host] IN
     /\ host_phase = "DATA_IN" /\ fetched' # None /\ request.host \in Initiators =>
          fetched' = own
     /\ host_phase = "FREE" /\ host_status' = "DATA_CURRENTLY_UNAVAILABLE"
          /\ request'.host \in Initiators /\ operations' # operations => own = None]_hostVars
=============================================================================
