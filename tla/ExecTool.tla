------------------------------ MODULE ExecTool ------------------------------
(***************************************************************************)
(* An interactive session of s2pexec (s2pexec/s2pexec_core.cpp): each line *)
(* has options, some of which stay in force for the lines that follow, and *)
(* may have a command, which s2pexec/s2pexec_executor.cpp sends over the   *)
(* bus or with SgAdapter (shared/sg_adapter.cpp) to an SG device file.     *)
(* A command is known by the number of its line, and a buffer is as many   *)
(* pieces of data as a command may receive.  Sense data have the fixed     *)
(* format of SCSI-2: the response code is in byte 0, the sense key in byte *)
(* 2; the additional code is known by the command it belongs to.           *)
(***************************************************************************)
EXTENDS Integers, Sequences

CONSTANTS DeviceFiles, Targets,   \* what -g may name, and -i or -h
          Lines,                  \* [name, device, command, data, sense, reset, help]: what is entered
          MaxLines, Pieces

None == "NONE"

VARIABLES
  options,     \* members of S2pExec: [device_file, use_sg, is_initialized, target, help]
  executor,    \* [exists, is_sg, bus, target, fd]; bus: "NONE", "BARE" (no board and no
               \* InitiatorExecutor), "UP", or "DOWN" after CleanUp()
  adapter,     \* SgAdapter: [sense, valid, byte_count]; sense: [n, response, key], of the command n
  buffer,      \* the command that has received each piece, or 0
  received,    \* byte_count of InitiatorExecutor, in pieces
  line,        \* one of Lines with its number n: the one being executed
  exec_step,   \* "PROMPT", "RUN" or "CRASHED"
  last,        \* history: the last command that reached a device: [n, device, named, status, key,
               \* shown, output], with the key the device has reported and what is shown of it
  named        \* history: the device named last, and those of lines without effect since

execVars == <<options, executor, adapter, buffer, received, line, exec_step, last, named>>

\* The sense data of a CHECK CONDITION: an error of the command (70h) or a deferred one (71h), NOT READY
\* or ILLEGAL REQUEST.
Responses == {112, 113}
Keys == {2, 5}
Conditions == [response : Responses, key : Keys]
NoSense == [n |-> 0, response |-> 0, key |-> 0]
Unknown == [n |-> -1, key |-> -1]

Statuses == {"GOOD", "CHECK_CONDITION", "OTHER", "NO_ANSWER"}      \* NO_ANSWER: 0xff, or -1 with SG
TypeOK ==
  /\ options \in [device_file : DeviceFiles \cup {None}, use_sg : BOOLEAN, is_initialized : BOOLEAN,
                  target : Targets \cup {None}, help : BOOLEAN]
  /\ executor \in [exists : BOOLEAN, is_sg : BOOLEAN, bus : {"NONE", "BARE", "UP", "DOWN"},
                   target : Targets \cup {None}, fd : DeviceFiles \cup {None}]
  /\ adapter \in [sense : [n : 0..MaxLines, response : Responses \cup {0}, key : Keys \cup {0}],
                  valid : BOOLEAN, byte_count : 0..Pieces]
  /\ buffer \in [1..Pieces -> 0..MaxLines] /\ received \in 0..Pieces
  /\ exec_step \in {"PROMPT", "RUN", "CRASHED"}
  /\ named \subseteq DeviceFiles \cup Targets

Init ==
  /\ options = [device_file |-> None, use_sg |-> FALSE, is_initialized |-> FALSE, target |-> None,
                help |-> FALSE]
  /\ executor = [exists |-> FALSE, is_sg |-> FALSE, bus |-> "NONE", target |-> None, fd |-> None]
  /\ adapter = [sense |-> NoSense, valid |-> FALSE, byte_count |-> 0]
  /\ buffer = [i \in 1..Pieces |-> 0] /\ received = 0
  /\ line = [name |-> None, device |-> None, command |-> FALSE, data |-> FALSE, sense |-> FALSE,
             reset |-> FALSE, help |-> FALSE, n |-> 0]
  /\ exec_step = "PROMPT"
  /\ last = [n |-> 0, device |-> None, named |-> {}, status |-> "GOOD", key |-> 0, shown |-> Unknown,
             output |-> <<>>]
  /\ named = {}

-----------------------------------------------------------------------------
\* S2pExecExecutor::CleanUp()
CleanUp(ex) ==
  IF ex.is_sg THEN [ex EXCEPT !.fd = None, !.is_sg = FALSE]
  ELSE IF ex.bus = "UP" THEN [ex EXCEPT !.bus = "DOWN"] ELSE ex

\* S2pExecExecutor::Init() and what may become of it.  A bus is created once, and a bus that is there
\* will do, even if there is no board.
InitResults(ex, o) ==
  LET there == [ex EXCEPT !.exists = TRUE] IN
  IF o.use_sg
  THEN {[ok |-> TRUE, ex |-> [there EXCEPT !.is_sg = TRUE, !.fd = o.device_file]],
        [ok |-> FALSE, ex |-> [there EXCEPT !.is_sg = FALSE, !.fd = None]]}
  ELSE IF ex.bus # "NONE" THEN {[ok |-> TRUE, ex |-> [there EXCEPT !.is_sg = FALSE]]}
  ELSE {[ok |-> TRUE, ex |-> [there EXCEPT !.is_sg = FALSE, !.bus = "UP"]],
        [ok |-> FALSE, ex |-> there], [ok |-> FALSE, ex |-> [there EXCEPT !.bus = "BARE"]]}

\* As Named(), with an SG device file that is not opened anew.
NamedStays(o, l) ==
  IF l.name = "SG" /\ o.device_file # l.device
  THEN [o EXCEPT !.device_file = l.device, !.use_sg = TRUE]
  ELSE IF l.name = "SCSI" THEN [o EXCEPT !.device_file = None, !.use_sg = FALSE, !.is_initialized = FALSE]
  ELSE o

\* The loop over the options: a device file that is in force already changes nothing; a SASI target
\* changes the target only.
Named(o, l) ==
  IF l.name = "SG" /\ o.device_file # l.device
  THEN [o EXCEPT !.device_file = l.device, !.use_sg = TRUE, !.is_initialized = FALSE]
  ELSE IF l.name = "SCSI" THEN [o EXCEPT !.device_file = None, !.use_sg = FALSE, !.is_initialized = FALSE]
  ELSE o

HasTarget(l) == l.name \in {"SCSI", "SASI"}

NamedToo == IF line'.name = None THEN named ELSE named \cup {line'.device}

Reject(o, ex) ==
  /\ options' = o /\ executor' = ex /\ exec_step' = "PROMPT"
  /\ named' = NamedToo

\* With help nothing is set up, and a SASI target is not used with SG.
Accept(o, ex) ==
  /\ options' = o /\ executor' = ex
  /\ exec_step' = IF line'.command \/ (ex.exists /\ line'.reset) THEN "RUN" ELSE "PROMPT"
  /\ named' = IF line'.name = None \/ o.help \/ (line'.name = "SASI" /\ o.use_sg) THEN NamedToo
              ELSE {line'.device}

\* ParseArguments().  Errors: "LEVEL", before the target is looked at; "TARGET", in the target itself;
\* "LIMIT", after the initialization; "LAST", in the other options.
ParseArguments(l, error) ==
  /\ exec_step = "PROMPT" /\ line.n < MaxLines
  /\ line' = [name |-> l.name, device |-> l.device, command |-> l.command, data |-> l.data,
              sense |-> l.sense, reset |-> l.reset, help |-> l.help, n |-> line.n + 1]
  /\ LET o1 == [Named(options, l) EXCEPT !.help = @ \/ l.help]
         o2 == [o1 EXCEPT !.target = IF HasTarget(l) THEN l.device ELSE @]
         ex1 == IF executor.exists /\ executor.is_sg # o2.use_sg THEN CleanUp(executor) ELSE executor
         needed == ~o2.is_initialized /\ (o2.device_file # None \/ HasTarget(l))
     IN  IF o1.help THEN Accept(o1, executor)
         ELSE IF error = "LEVEL" THEN Reject(o1, executor)
         ELSE IF error = "TARGET" /\ HasTarget(l) THEN Reject([o1 EXCEPT !.target = None], executor)
         ELSE \E r \in IF needed THEN InitResults(ex1, o2) ELSE {[ok |-> TRUE, ex |-> ex1]} :
                LET o3 == IF needed THEN [o2 EXCEPT !.is_initialized = r.ok] ELSE o2
                    \* SetTarget()
                    ex3 == IF r.ex.bus \in {"UP", "DOWN"} THEN [r.ex EXCEPT !.target = o3.target] ELSE r.ex
                    missing == l.command /\ ~o3.use_sg /\ o3.target = None /\ ~l.reset
                IN  IF ~r.ok \/ error = "LIMIT" THEN Reject(o3, r.ex)
                    ELSE IF error = "LAST" \/ missing THEN Reject(o3, ex3)
                    ELSE Accept(o3, ex3)
  /\ UNCHANGED <<adapter, buffer, received, last>>

-----------------------------------------------------------------------------
Prompt == exec_step' = "PROMPT"

\* Run() with --reset-bus does that only.
ResetBus ==
  /\ exec_step = "RUN" /\ line.reset /\ executor.exists
  /\ Prompt
  /\ UNCHANGED <<options, executor, adapter, buffer, received, line, last, named>>

\* ConvertData() or ReadData() fails.
BadData ==
  /\ exec_step = "RUN" /\ ~(line.reset /\ executor.exists) /\ line.data
  /\ Prompt
  /\ UNCHANGED <<options, executor, adapter, buffer, received, line, last, named>>

Executes == exec_step = "RUN" /\ ~(line.reset /\ executor.exists)
Filled(k) == [i \in 1..Pieces |-> IF i <= k \/ line.data THEN line.n ELSE buffer[i]]

\* What is shown of a command: the sense data if they are to be requested, or the data received.
Show(device, status, c, shown, count) ==
  last' = IF device = None THEN last
          ELSE [n |-> line.n, device |-> device, named |-> named, status |-> status,
                key |-> IF status = "CHECK_CONDITION" THEN c.key ELSE 0,
                shown |-> IF status # "GOOD" /\ line.sense THEN shown ELSE Unknown,
                output |-> IF status = "GOOD" /\ ~line.data THEN SubSeq(buffer', 1, count) ELSE <<>>]

\* S2pExecExecutor::GetSenseData(): with SG the key is taken from byte 0, over the bus from byte 2.
SgSense(sense) == [n |-> sense.n, key |-> sense.response % 16]
BusSense(sense) == [n |-> sense.n, key |-> sense.key]

Sense(c) == [n |-> line.n, response |-> c.response, key |-> c.key]

\* SgAdapter::SendCommand(): the driver fills in the sense data of a CHECK CONDITION only, but any
\* status makes them valid, until the next command; REQUEST SENSE returns them.  If there was no
\* answer it goes to the driver, and the buffer, which is not initialized, may stay as it is.
SgCommand(status, k, c) ==
  /\ Executes /\ executor.is_sg
  /\ executor.fd = None => status = "NO_ANSWER"
  /\ status # "GOOD" \/ line.data => k = 0
  /\ LET sense == IF status = "CHECK_CONDITION" THEN Sense(c) ELSE adapter.sense
         valid == status \in {"CHECK_CONDITION", "OTHER"}
         asked == status # "GOOD" /\ line.sense
     IN  /\ adapter' = [sense |-> sense, valid |-> valid /\ ~asked,
                        byte_count |-> IF asked /\ valid THEN 1 ELSE k]
         /\ buffer' = Filled(k)
         /\ Show(executor.fd, status, c, SgSense(IF valid THEN sense ELSE [Sense(c) EXCEPT !.n = 0]),
                 adapter'.byte_count)
  /\ Prompt
  /\ UNCHANGED <<options, executor, received, line, named>>

\* InitiatorExecutor::Execute(); the signals of a bus after CleanUp() reach nobody.  REQUEST SENSE
\* goes to the same target, and may not be answered either.
BusCommand(status, k, c, answered) ==
  /\ Executes /\ executor.exists /\ ~executor.is_sg /\ executor.bus \in {"UP", "DOWN"}
  /\ executor.bus = "DOWN" => status = "NO_ANSWER"
  /\ status # "GOOD" \/ line.data => k = 0
  /\ received' = k /\ buffer' = Filled(k)
  /\ LET sense == IF status = "CHECK_CONDITION" THEN Sense(c) ELSE NoSense
     IN  Show(IF executor.bus = "UP" THEN executor.target ELSE None, status, c,
              IF status # "NO_ANSWER" /\ answered THEN BusSense(sense) ELSE Unknown, received')
  /\ Prompt
  /\ UNCHANGED <<options, executor, adapter, line, named>>

\* There is no executor, or it has no InitiatorExecutor.
NoExecutor ==
  /\ Executes /\ ~executor.is_sg /\ (~executor.exists \/ executor.bus \in {"NONE", "BARE"})
  /\ exec_step' = "CRASHED"
  /\ UNCHANGED <<options, executor, adapter, buffer, received, line, last, named>>

Next ==
  \/ \E l \in Lines, error \in {None, "LEVEL", "TARGET", "LIMIT", "LAST"} : ParseArguments(l, error)
  \/ ResetBus \/ BadData \/ NoExecutor
  \/ \E s \in Statuses, k \in 0..Pieces, c \in Conditions : SgCommand(s, k, c)
  \/ \E s \in Statuses, k \in 0..Pieces, c \in Conditions, a \in BOOLEAN : BusCommand(s, k, c, a)

-----------------------------------------------------------------------------
\* In a session that goes from device to device, with initializations that fail and lines that are
\* rejected, a command reaches the device that was named last, or one named since in a line without
\* effect: it was rejected, came after the help, or named a SASI target while SG is used.  The
\* additional sense code shown after a CHECK CONDITION is that of the command, and over the bus its
\* sense key is, too; and what is shown as received was received by that command
\* (s2pexec_core.cpp:104-342, s2pexec_executor.cpp:12-113, sg_adapter.cpp:43-134).
OwnAnswer ==
  last.n # 0 =>
    /\ last.device \in last.named
    /\ last.status = "CHECK_CONDITION" /\ last.shown # Unknown =>
         /\ last.shown.n = last.n
         /\ last.shown.key = last.key \/ last.device \in DeviceFiles
    /\ \A i \in DOMAIN last.output : last.output[i] = last.n
=============================================================================
