------------------------------ MODULE Controller ------------------------------
(***************************************************************************)
(* A SCSI target: the bus phases of one controller, its messages, linked   *)
(* commands, sense data and reservations                                   *)
(* (cpp/controllers/controller.cpp, abstract_controller.cpp,               *)
(* cpp/base/primary_device.cpp).                                           *)
(*                                                                         *)
(* A step is a call of Process(), cut in two where it enters the COMMAND   *)
(* phase and waits for the initiator.  Handshakes complete or fail as a    *)
(* whole.  Data moves in chunks, and what a device makes of a command is   *)
(* its outcome: done, or failed with a sense key.  LUN 0 always exists.    *)
(***************************************************************************)
EXTENDS Integers, Sequences

CONSTANTS Lun,         \* the LUNs that have a device
          MissingLun,  \* LUNs an initiator may address that have none
          Initiator,   \* initiator IDs
          Cdb,         \* the commands initiators send, of CdbType
          MaxChunks,   \* chunks of the largest data transfer
          MaxMessages, \* message bytes an initiator sends before it releases ATN
          BusReset,    \* may an initiator assert RST during a command?
          LateReset,   \* may it do so just when a command fails?
          UNKNOWN, NOT_RESERVED

NoLun == -1

AnyLun == Lun \cup MissingLun

Opcode == {"TEST_UNIT_READY", "REQUEST_SENSE", "INQUIRY", "RESERVE", "RELEASE",
           "READ", "WRITE", "UNSUPPORTED"}

\* "len" stands for the allocation length or for the chunks of a transfer.
CdbType == [op : Opcode, lun : AnyLun, link : BOOLEAN, flag : BOOLEAN, len : 0..MaxChunks]

ASSUME ControllerAssumption ==
  /\ Lun \subseteq Nat /\ 0 \in Lun
  /\ MissingLun \subseteq Nat /\ Lun \cap MissingLun = {}
  /\ MaxChunks \in Nat \ {0} /\ MaxMessages \in Nat \ {0}
  /\ Cdb \subseteq CdbType
  /\ BusReset \in BOOLEAN /\ LateReset \in BOOLEAN
  /\ UNKNOWN \notin Initiator
  /\ NOT_RESERVED \notin Initiator \cup {UNKNOWN}

VARIABLES phase, initiator, identified_lun, atn_msg, msg_bytes, linked, flag, status, cdb,
          deferred,   \* deferred_sense_key and deferred_asc
          current,    \* is current_length not 0?
          remaining,  \* remaining_length, in chunks
          buffer,     \* the status, message or sense data in the transfer buffer
          rst, bsy,   \* the signals as this target drives them
          sense, reserving_initiator, reset,  \* of the device of each LUN
          raised,     \* the last CHECK CONDITION, if the last command ended so
          cut         \* did RST end the last connection?

connection == <<phase, initiator, identified_lun, atn_msg, msg_bytes>>
command == <<linked, flag, status, cdb, deferred>>
transfer == <<current, remaining, buffer>>
devices == <<sense, reserving_initiator, reset>>
vars == <<connection, command, transfer, rst, bsy, cut, devices, raised>>

Phase == {"BUS_FREE", "SELECTION", "MSG_OUT", "COMMAND", "DATA_IN", "DATA_OUT", "STATUS", "MSG_IN"}
Status == {"GOOD", "CHECK_CONDITION", "RESERVATION_CONFLICT"}
Sense == {"NO_SENSE", "NOT_READY", "UNIT_ATTENTION", "MEDIUM_ERROR", "ABORTED_COMMAND",
          "ILLEGAL_REQUEST", "LOGICAL_UNIT_NOT_SUPPORTED", "CONFLICT"}
Completion == {"COMMAND_COMPLETE", "LINKED_COMMAND_COMPLETE", "LINKED_COMMAND_COMPLETE_WITH_FLAG"}

Message == [code : {"IDENTIFY"}, lun : AnyLun]
             \cup [code : {"ABORT", "BUS_DEVICE_RESET", "EXTENDED", "OTHER"}]

NoError == [sense |-> "NO_SENSE", lun |-> NoLun]

\* One type invariant: the ranges of the members of Controller, AbstractController
\* and PrimaryDevice.
TypeOK ==
  /\ phase \in Phase
  /\ initiator \in Initiator \cup {UNKNOWN}
  /\ identified_lun \in AnyLun \cup {NoLun}
  /\ atn_msg \in BOOLEAN
  /\ msg_bytes \in Seq(Message)
  /\ linked \in BOOLEAN /\ flag \in BOOLEAN
  /\ status \in Status
  /\ cdb \in CdbType
  /\ deferred \in Sense
  /\ current \in BOOLEAN /\ remaining \in 0..MaxChunks
  /\ buffer \in Status \cup {"INTERMEDIATE", "DATA"} \cup Completion \cup Sense
  /\ rst \in BOOLEAN /\ bsy \in BOOLEAN /\ cut \in BOOLEAN
  /\ sense \in [Lun -> Sense]
  /\ reserving_initiator \in [Lun -> Initiator \cup {UNKNOWN, NOT_RESERVED}]
  /\ reset \in [Lun -> BOOLEAN]
  /\ raised \in [sense : Sense, lun : AnyLun \cup {NoLun}]

\* The CDB array starts as zeros, a TEST UNIT READY for LUN 0.
Init ==
  /\ phase = "BUS_FREE" /\ initiator = UNKNOWN /\ identified_lun = NoLun
  /\ atn_msg = FALSE /\ msg_bytes = <<>>
  /\ linked = FALSE /\ flag = FALSE /\ status = "GOOD" /\ deferred = "NO_SENSE"
  /\ cdb = [op |-> "TEST_UNIT_READY", lun |-> 0, link |-> FALSE, flag |-> FALSE, len |-> 0]
  /\ current = FALSE /\ remaining = 0 /\ buffer = "DATA"
  /\ rst = FALSE /\ bsy = FALSE /\ cut = FALSE
  /\ sense = [l \in Lun |-> "NO_SENSE"]
  /\ reserving_initiator = [l \in Lun |-> NOT_RESERVED]
  /\ reset = [l \in Lun |-> FALSE]
  /\ raised = NoError

-------------------------------------------------------------------------------
(* The parts the handlers share. *)

\* GetEffectiveLun(), with c in the CDB array.
EffectiveLun(c) == IF identified_lun # NoLun THEN identified_lun ELSE c.lun

\* The device that stands in for a LUN that has none.
Device(l) == IF l \in Lun THEN l ELSE 0

\* Mutation: the LUN of the IDENTIFY message outlives the connection.
ToBusFreeIdentified ==
  /\ phase' = "BUS_FREE" /\ bsy' = FALSE
  /\ status' = "GOOD" /\ atn_msg' = FALSE /\ UNCHANGED identified_lun

\* BusFree() in any phase but BUS FREE.  The flags of a linked command stay.
ToBusFree ==
  /\ phase' = "BUS_FREE" /\ bsy' = FALSE
  /\ status' = "GOOD" /\ identified_lun' = NoLun /\ atn_msg' = FALSE

\* Status() in any phase but STATUS.
ToStatus(s) ==
  /\ phase' = "STATUS" /\ status' = s
  /\ current' = TRUE /\ remaining' = 1
  /\ buffer' = IF linked' /\ s = "GOOD" THEN "INTERMEDIATE" ELSE s
  /\ UNCHANGED <<bsy, cut, identified_lun, atn_msg>>

\* DataIn() or DataOut() with "n" chunks still to come, or none to count.
ToData(p, n, data) ==
  /\ phase' = p /\ current' = TRUE /\ remaining' = n /\ buffer' = data
  /\ UNCHANGED <<bsy, cut, identified_lun, atn_msg>>

\* Error(), for LUN l, with the sense data of the devices so far; "for" is the
\* LUN whose REQUEST SENSE is due to report it, any LUN if it is NoLun.
ErrorFor(s, l, base, st, for) ==
  \/ /\ LateReset
     /\ ToBusFree /\ cut' = TRUE
     /\ sense' = base
     /\ raised' = NoError
     /\ UNCHANGED <<current, remaining, buffer>>
  \/ /\ sense' = [base EXCEPT ![IF s = "LOGICAL_UNIT_NOT_SUPPORTED" THEN 0 ELSE Device(l)] = s]
     /\ raised' = IF st = "CHECK_CONDITION" THEN [sense |-> s, lun |-> for] ELSE NoError
     /\ ToStatus(st)

Error(s, l, base) == ErrorFor(s, l, base, "CHECK_CONDITION", l)

\* SetRST(true) followed by Error(), which then frees the bus.
GiveUp ==
  /\ rst' = TRUE
  /\ ToBusFree /\ cut' = TRUE
  /\ UNCHANGED <<current, remaining, buffer, sense>>

\* The message byte after the status byte.
CompletionMessage(l, f) ==
  IF ~l THEN "COMMAND_COMPLETE"
  ELSE IF f THEN "LINKED_COMMAND_COMPLETE_WITH_FLAG" ELSE "LINKED_COMMAND_COMPLETE"

\* A command ends without an error.
Done(s) == ToStatus(s) /\ raised' = NoError

-------------------------------------------------------------------------------
(* Selection, reset and messages. *)

\* Mutation: the marker of a missing reservation instead of that of an unknown initiator.
ResetMixedUp ==
  /\ phase' = "BUS_FREE" /\ initiator' = NOT_RESERVED /\ identified_lun' = NoLun
  /\ atn_msg' = FALSE /\ linked' = FALSE /\ flag' = FALSE /\ status' = "GOOD"
  /\ current' = FALSE /\ remaining' = 0
  /\ rst' = FALSE /\ bsy' = FALSE /\ cut' = TRUE
  /\ reserving_initiator' = [l \in Lun |-> NOT_RESERVED]
  /\ reset' = [l \in Lun |-> FALSE]
  /\ msg_bytes' = <<>>
  /\ UNCHANGED <<cdb, deferred, buffer, sense, raised>>

\* AbstractController::Reset() and Controller::Reset().  The deferred sense data
\* and the sense data of the devices stay.
Reset ==
  /\ phase' = "BUS_FREE" /\ initiator' = UNKNOWN /\ identified_lun' = NoLun
  /\ atn_msg' = FALSE /\ linked' = FALSE /\ flag' = FALSE /\ status' = "GOOD"
  /\ current' = FALSE /\ remaining' = 0
  /\ rst' = FALSE /\ bsy' = FALSE /\ cut' = TRUE
  /\ reserving_initiator' = [l \in Lun |-> NOT_RESERVED]
  /\ reset' = [l \in Lun |-> FALSE]
  /\ msg_bytes' = <<>>
  /\ UNCHANGED <<cdb, deferred, buffer, sense, raised>>

\* Process() sees RST: asserted by an initiator, or still by this target when the
\* next initiator selects it.
ResetByInitiator == BusReset /\ phase \notin {"BUS_FREE", "COMMAND"} /\ Reset
ResetAtSelection == phase = "BUS_FREE" /\ rst /\ Reset

\* ProcessOnController() and BusFree(): the target answers the selection.
Select(i) ==
  /\ phase = "BUS_FREE" /\ ~rst
  /\ initiator' = i
  /\ phase' = "SELECTION" /\ bsy' = TRUE /\ cut' = FALSE
  /\ UNCHANGED <<identified_lun, atn_msg, msg_bytes, command, transfer, rst, devices, raised>>

\* Selection(), once the initiator has released SEL, with or without ATN.
Selection ==
  /\ phase = "SELECTION"
  /\ \/ phase' = "MSG_OUT" /\ atn_msg' = TRUE /\ current' = TRUE /\ remaining' = 1
     \/ phase' = "COMMAND" /\ UNCHANGED <<atn_msg, current, remaining>>
  /\ msg_bytes' = <<>>
  /\ UNCHANGED <<initiator, identified_lun, command, buffer, rst, bsy, cut, devices, raised>>

\* The first halves of Send() and Receive(): the bytes at hand are transferred.
Handshake ==
  /\ phase \in {"MSG_OUT", "DATA_IN", "DATA_OUT", "STATUS", "MSG_IN"} /\ current
  /\ current' = FALSE
  /\ UNCHANGED <<connection, command, remaining, buffer, rst, bsy, cut, devices, raised>>

\* The initiator does not answer for three seconds, or resets the bus.
HandshakeFails ==
  /\ phase \in {"MSG_OUT", "DATA_IN", "DATA_OUT", "STATUS", "MSG_IN"} /\ current
  /\ UNCHANGED <<initiator, linked, flag, cdb, deferred, reserving_initiator, reset>>
  /\ GiveUp
  /\ raised' = NoError
  /\ msg_bytes' = <<>>

Rejected(ms, k) == k > 1 /\ ms[k - 1].code = "EXTENDED"

\* ParseMessage() does not go on after message k.
Final(ms, k) == Rejected(ms, k) \/ ms[k].code \in {"ABORT", "BUS_DEVICE_RESET"}

\* The messages ParseMessage() looks at.
Parsed(ms) == {k \in DOMAIN ms : \A j \in 1..(k - 1) : ~Final(ms, j)}

\* The LUN of the last IDENTIFY message among them.
Identified(ms) ==
  LET named == {k \in Parsed(ms) : ms[k].code = "IDENTIFY" /\ ~Rejected(ms, k)}
  IN  IF named = {} THEN identified_lun
      ELSE ms[CHOOSE k \in named : \A j \in named : j <= k].lun

\* Is there a final message with this code?
Ends(ms, code) == \E k \in Parsed(ms) : ~Rejected(ms, k) /\ ms[k].code = code

\* Receive(), XferMsg() and ProcessMessage(): the initiator goes on sending messages,
\* or has released ATN and the COMMAND phase follows, whatever the messages were.
\* The bytes are looked at once: the next SELECTION with ATN starts afresh.
ReceiveMessage(m) ==
  /\ phase = "MSG_OUT" /\ ~current
  /\ UNCHANGED <<initiator, linked, flag, cdb, deferred, buffer, rst, sense, raised>>
  /\ LET ms == Append(msg_bytes, m)
         lun == IF Identified(ms) # NoLun THEN Identified(ms) ELSE cdb.lun
         cleared == IF Ends(ms, "BUS_DEVICE_RESET") THEN {lun} \cap Lun ELSE {}
         rejected == \E k \in Parsed(ms) : Rejected(ms, k)
     IN  \/ /\ Len(ms) < MaxMessages
            /\ msg_bytes' = ms
            /\ current' = TRUE /\ remaining' = 1
            /\ UNCHANGED <<phase, identified_lun, atn_msg, status, bsy, cut, reserving_initiator, reset>>
         \/ /\ phase' = "COMMAND" /\ atn_msg' = FALSE /\ msg_bytes' = <<>> /\ UNCHANGED cut
            /\ current' = rejected /\ remaining' = IF rejected THEN 1 ELSE 0
            /\ IF Ends(ms, "ABORT") \/ Ends(ms, "BUS_DEVICE_RESET")
               THEN bsy' = FALSE /\ status' = "GOOD" /\ identified_lun' = NoLun
               ELSE identified_lun' = Identified(ms) /\ UNCHANGED <<bsy, status>>
            /\ reset' = [l \in Lun |-> reset[l] \/ l \in cleared]
            /\ reserving_initiator' =
                 [l \in Lun |-> IF l \in cleared THEN NOT_RESERVED ELSE reserving_initiator[l]]

-------------------------------------------------------------------------------
(* The COMMAND phase. *)

\* RaiseDeferredError(): the controller rejects a command itself.
RaiseDeferredError(s, c) ==
  /\ deferred' = s
  /\ ErrorFor(s, EffectiveLun(c), sense, "CHECK_CONDITION", NoLun)
  /\ UNCHANGED <<rst, reserving_initiator, reset>>

\* CommandHandShake() times out.
CommandFails ==
  /\ phase = "COMMAND"
  /\ deferred' = "ABORTED_COMMAND"
  /\ UNCHANGED <<initiator, msg_bytes, linked, flag, cdb, reserving_initiator, reset>>
  /\ GiveUp
  /\ raised' = NoError

\* An operation code nobody knows: the CDB array keeps the command before.
UnknownCommand ==
  /\ phase = "COMMAND"
  /\ UNCHANGED <<linked, flag, cdb>>
  /\ RaiseDeferredError("ILLEGAL_REQUEST", cdb)
  /\ UNCHANGED <<initiator, msg_bytes>>

\* Command() up to the control byte.
Accept(c) ==
  /\ phase = "COMMAND"
  /\ cdb' = c /\ linked' = c.link /\ flag' = c.flag
  /\ UNCHANGED <<initiator, msg_bytes>>

BadFlag(c) == c.flag /\ ~c.link

FlagWithoutLink(c) ==
  /\ BadFlag(c)
  /\ Accept(c)
  /\ RaiseDeferredError("ILLEGAL_REQUEST", c)

\* ProvideSenseData(): whatever the LUN.
ProvideSenseData(c) ==
  /\ ~BadFlag(c) /\ deferred # "NO_SENSE" /\ c.op = "REQUEST_SENSE"
  /\ Accept(c)
  /\ deferred' = "NO_SENSE"
  /\ ToData("DATA_IN", remaining, deferred)
  /\ raised' = NoError
  /\ UNCHANGED <<status, rst, devices>>

\* Mutation: deferred sense data is kept until it is asked for.
StartsDeferred(c) ==
  /\ ~BadFlag(c) /\ ~(deferred # "NO_SENSE" /\ c.op = "REQUEST_SENSE")
  /\ Accept(c)
  /\ UNCHANGED <<deferred, rst>>

\* Command() gets as far as Execute().
Starts(c) ==
  /\ ~BadFlag(c) /\ ~(deferred # "NO_SENSE" /\ c.op = "REQUEST_SENSE")
  /\ Accept(c)
  /\ deferred' = "NO_SENSE"
  /\ UNCHANGED rst

\* Execute(): no device for the LUN, and a command that needs one.
NoSuchLun(c) ==
  /\ EffectiveLun(c) \notin Lun /\ c.op \notin {"INQUIRY", "REQUEST_SENSE"}
  /\ Starts(c)
  /\ Error("LOGICAL_UNIT_NOT_SUPPORTED", EffectiveLun(c), sense)
  /\ UNCHANGED <<reserving_initiator, reset>>

\* ResetStatus() of the device, for all commands but REQUEST SENSE.
Discarded(c) ==
  IF c.op = "REQUEST_SENSE" THEN sense ELSE [sense EXCEPT ![Device(EffectiveLun(c))] = "NO_SENSE"]

\* Mutation: an unknown initiator is not checked.
PermittedUnknown(c) ==
  \/ reserving_initiator[Device(EffectiveLun(c))] \in {NOT_RESERVED, initiator}
  \/ initiator = UNKNOWN
  \/ c.op \in {"INQUIRY", "REQUEST_SENSE", "RELEASE"}

\* Mutation: RESERVE is excluded from the check instead of RELEASE.
PermittedReserve(c) ==
  \/ reserving_initiator[Device(EffectiveLun(c))] \in {NOT_RESERVED, initiator}
  \/ c.op \in {"INQUIRY", "REQUEST_SENSE", "RESERVE"}

\* CheckReservation() is content.
Permitted(c) ==
  \/ reserving_initiator[Device(EffectiveLun(c))] \in {NOT_RESERVED, initiator}
  \/ c.op \in {"INQUIRY", "REQUEST_SENSE", "RELEASE"}

\* Execute() gets as far as Dispatch().
Dispatched(c) ==
  /\ Starts(c)
  /\ EffectiveLun(c) \in Lun \/ c.op \in {"INQUIRY", "REQUEST_SENSE"}
  /\ Permitted(c)

ReservationConflict(c) ==
  /\ Starts(c)
  /\ EffectiveLun(c) \in Lun \/ c.op \in {"INQUIRY", "REQUEST_SENSE"}
  /\ ~Permitted(c)
  /\ ErrorFor("CONFLICT", EffectiveLun(c), Discarded(c), "RESERVATION_CONFLICT", NoLun)
  /\ UNCHANGED <<reserving_initiator, reset>>

\* A command the device does not have, or that fails in its checks.  CheckReady()
\* reports a BUS DEVICE RESET once.
DeviceFails(c) ==
  /\ Dispatched(c)
  /\ c.op \in {"UNSUPPORTED", "TEST_UNIT_READY", "READ", "WRITE"}
  /\ LET l == EffectiveLun(c) IN
     IF c.op # "UNSUPPORTED" /\ reset[l]
     THEN /\ reset' = [reset EXCEPT ![l] = FALSE]
          /\ Error("UNIT_ATTENTION", l, Discarded(c))
     ELSE /\ UNCHANGED reset
          /\ \E s \in IF c.op = "UNSUPPORTED" THEN {"ILLEGAL_REQUEST"}
                      ELSE {"UNIT_ATTENTION", "NOT_READY", "MEDIUM_ERROR"} :
               Error(s, l, Discarded(c))
  /\ UNCHANGED reserving_initiator

\* TEST UNIT READY, READ, WRITE and INQUIRY.  A command without data goes to the
\* STATUS phase.  INQUIRY is answered for a missing LUN, too.
DeviceWorks(c) ==
  /\ Dispatched(c)
  /\ c.op \in {"TEST_UNIT_READY", "READ", "WRITE", "INQUIRY"}
  /\ c.op # "INQUIRY" => ~reset[EffectiveLun(c)]
  /\ sense' = Discarded(c)
  /\ raised' = NoError
  /\ IF c.op = "TEST_UNIT_READY" \/ c.len = 0
     THEN ToStatus("GOOD")
     ELSE /\ ToData(IF c.op = "WRITE" THEN "DATA_OUT" ELSE "DATA_IN",
                    IF c.op = "INQUIRY" THEN 0 ELSE c.len, "DATA")
          /\ status' = "GOOD"
  /\ UNCHANGED <<reserving_initiator, reset>>

\* RESERVE(6) and RELEASE(6).
Reserve(c) ==
  /\ Dispatched(c) /\ c.op \in {"RESERVE", "RELEASE"}
  /\ reserving_initiator' = [reserving_initiator EXCEPT ![EffectiveLun(c)] =
                               IF c.op = "RESERVE" THEN initiator ELSE NOT_RESERVED]
  /\ sense' = Discarded(c)
  /\ Done("GOOD")
  /\ UNCHANGED reset

\* RequestSense() for a LUN with a device: NOT READY only if there is no error.
\* The status of the command before stays.
RequestSense(c) ==
  /\ Dispatched(c) /\ c.op = "REQUEST_SENSE" /\ EffectiveLun(c) \in Lun
  /\ LET l == EffectiveLun(c) IN
     \/ sense[l] = "NO_SENSE" /\ Error("NOT_READY", l, sense)
     \/ /\ sense' = [sense EXCEPT ![l] = "NO_SENSE"]
        /\ raised' = NoError
        /\ IF c.len = 0 THEN ToStatus(status)
           ELSE ToData("DATA_IN", 0, sense[l]) /\ UNCHANGED status
  /\ UNCHANGED <<reserving_initiator, reset>>

\* RequestSense() for a LUN without a device: Error() enters the STATUS phase, and
\* with nothing to transfer Status() then takes the status byte for sent.
SenseOfMissingLun(c) ==
  /\ Dispatched(c) /\ c.op = "REQUEST_SENSE" /\ EffectiveLun(c) \notin Lun
  /\ raised' = NoError
  /\ status' = "GOOD"
  /\ sense' = [sense EXCEPT ![0] = "NO_SENSE"]
  /\ IF c.len = 0
     THEN /\ phase' = "MSG_IN" /\ current' = TRUE /\ remaining' = 1
          /\ buffer' = CompletionMessage(linked', flag')
          /\ UNCHANGED <<bsy, cut, identified_lun, atn_msg>>
     ELSE ToData("DATA_IN", 1, "LOGICAL_UNIT_NOT_SUPPORTED")
  /\ UNCHANGED <<reserving_initiator, reset>>

\* The same with RST asserted by an initiator: Error() frees the bus, and
\* RequestSense() goes on as if it had not.
SenseDuringReset(c) ==
  /\ LateReset
  /\ Dispatched(c) /\ c.op = "REQUEST_SENSE" /\ EffectiveLun(c) \notin Lun
  /\ raised' = NoError
  /\ bsy' = FALSE /\ status' = "GOOD" /\ identified_lun' = NoLun /\ atn_msg' = FALSE
  /\ UNCHANGED cut
  /\ sense' = [sense EXCEPT ![0] = "NO_SENSE"]
  /\ current' = TRUE
  /\ IF c.len = 0
     THEN /\ phase' = "STATUS" /\ remaining' = 1
          /\ buffer' = IF linked' THEN "INTERMEDIATE" ELSE "GOOD"
     ELSE phase' = "DATA_IN" /\ remaining' = 0 /\ buffer' = sense[0]
  /\ UNCHANGED <<reserving_initiator, reset>>

-------------------------------------------------------------------------------
(* The data, status and message phases. *)

\* The second half of Send() in the DATA IN phase, with TransferToHost().
DataIn ==
  /\ phase = "DATA_IN" /\ ~current
  /\ UNCHANGED <<initiator, msg_bytes, linked, flag, cdb, deferred, rst, reserving_initiator, reset>>
  /\ \/ /\ remaining > 1
        /\ current' = TRUE /\ remaining' = remaining - 1
        /\ UNCHANGED <<phase, identified_lun, atn_msg, status, buffer, bsy, cut, sense, raised>>
     \/ /\ remaining > 1
        /\ \E s \in {"NOT_READY", "MEDIUM_ERROR"} : Error(s, EffectiveLun(cdb), sense)
     \/ /\ remaining <= 1
        /\ ToStatus(status) /\ UNCHANGED <<sense, raised>>

\* The second half of Receive() in the DATA OUT phase, with TransferFromHost().
DataOut ==
  /\ phase = "DATA_OUT" /\ ~current
  /\ UNCHANGED <<initiator, msg_bytes, linked, flag, cdb, deferred, rst, reserving_initiator, reset>>
  /\ \/ /\ remaining > 1
        /\ current' = TRUE /\ remaining' = remaining - 1
        /\ UNCHANGED <<phase, identified_lun, atn_msg, status, buffer, bsy, cut, sense, raised>>
     \/ \E s \in {"NOT_READY", "MEDIUM_ERROR"} : Error(s, EffectiveLun(cdb), sense)
     \/ /\ remaining <= 1
        /\ ToStatus(status) /\ UNCHANGED <<sense, raised>>

\* The second half of Send() in the STATUS phase.
StatusSent ==
  /\ phase = "STATUS" /\ ~current
  /\ phase' = "MSG_IN" /\ current' = TRUE /\ remaining' = 1
  /\ buffer' = CompletionMessage(linked, flag)
  /\ UNCHANGED <<initiator, identified_lun, atn_msg, msg_bytes, command, rst, bsy, cut, devices, raised>>

\* Mutation: a flag alone is taken for a linked command.
EndOfMessageByFlag ==
  /\ phase = "MSG_IN" /\ ~current
  /\ remaining' = 0
  /\ IF atn_msg \/ linked \/ flag
     THEN /\ phase' = "COMMAND" /\ linked' = FALSE /\ flag' = FALSE /\ atn_msg' = FALSE
          /\ UNCHANGED <<identified_lun, status, bsy, cut>>
     ELSE ToBusFree /\ cut' = FALSE /\ UNCHANGED <<linked, flag>>
  /\ UNCHANGED <<initiator, msg_bytes, cdb, deferred, current, buffer, rst, devices, raised>>

\* Mutation: the flags are not reset.
EndOfMessageFlagged ==
  /\ phase = "MSG_IN" /\ ~current
  /\ remaining' = 0
  /\ IF atn_msg \/ linked
     THEN phase' = "COMMAND" /\ UNCHANGED <<atn_msg, identified_lun, status, bsy, cut>>
     ELSE ToBusFree /\ cut' = FALSE
  /\ UNCHANGED <<linked, flag, initiator, msg_bytes, cdb, deferred, current, buffer, rst, devices, raised>>

\* ProcessEndOfMessage().
EndOfMessage ==
  /\ phase = "MSG_IN" /\ ~current
  /\ remaining' = 0
  /\ IF atn_msg \/ linked
     THEN /\ phase' = "COMMAND" /\ linked' = FALSE /\ flag' = FALSE /\ atn_msg' = FALSE
          /\ UNCHANGED <<identified_lun, status, bsy, cut>>
     ELSE ToBusFree /\ cut' = FALSE /\ UNCHANGED <<linked, flag>>
  /\ UNCHANGED <<initiator, msg_bytes, cdb, deferred, current, buffer, rst, devices, raised>>

-------------------------------------------------------------------------------
Execute(c) ==
  \/ FlagWithoutLink(c) \/ ProvideSenseData(c) \/ NoSuchLun(c) \/ ReservationConflict(c)
  \/ DeviceFails(c) \/ DeviceWorks(c) \/ Reserve(c) \/ RequestSense(c) \/ SenseOfMissingLun(c)
  \/ SenseDuringReset(c)

Next ==
  \/ \E i \in Initiator \cup {UNKNOWN} : Select(i)
  \/ ResetByInitiator \/ ResetAtSelection
  \/ Selection \/ Handshake \/ HandshakeFails
  \/ \E m \in Message : ReceiveMessage(m)
  \/ CommandFails \/ UnknownCommand
  \/ \E c \in Cdb : Execute(c)
  \/ DataIn \/ DataOut \/ StatusSent \/ EndOfMessage

\* Process() is called again until the bus is free, and waits for an initiator for
\* three seconds at most.  The end of the selection is the exception: Selection() waits
\* for the initiator to release SEL as long as it takes.
Fairness ==
  /\ WF_vars(Handshake \/ HandshakeFails \/ (\E m \in Message : ReceiveMessage(m))
              \/ DataIn \/ DataOut \/ StatusSent \/ EndOfMessage)
  /\ WF_vars(CommandFails \/ UnknownCommand \/ \E c \in Cdb : Execute(c))

Spec == Init /\ [][Next]_vars
FairSpec == Spec /\ Fairness

-------------------------------------------------------------------------------
(* Properties. *)

\* The mark of a command the controller itself rejected.
RejectedByController == [sense |-> "ILLEGAL_REQUEST", lun |-> NoLun]

\* The flag of a linked command outlived its connection: no command of this one has
\* set it, or the last one was unknown and had no control byte to set it.
LinkLeft ==
  /\ linked
  /\ \/ phase \in {"BUS_FREE", "SELECTION", "MSG_OUT", "COMMAND"}
     \/ phase \in {"STATUS", "MSG_IN"} /\ raised = RejectedByController

\* The link of a command of this connection, or one left over.
Link == IF ~linked THEN "none" ELSE IF LinkLeft THEN "left" ELSE "asked"

\* What the initiator sees is the protocol of TargetProtocol: every command is
\* answered by one status byte and one completion message, also when Error() is
\* called in the middle of a transfer, and a linked command, or a link left over, is
\* followed by a command.
Protocol ==
  INSTANCE TargetProtocol WITH
    stage <- CASE phase = "BUS_FREE" -> IF cut THEN "broken" ELSE "free"
               [] phase \in {"SELECTION", "MSG_OUT"} -> "connected"
               [] phase = "COMMAND" -> "command"
               [] phase \in {"DATA_IN", "DATA_OUT"} -> "data"
               [] phase = "STATUS" -> IF current THEN "due" ELSE "sent"
               [] phase = "MSG_IN" -> "completing",
    link <- Link,
    chained <- phase \in {"STATUS", "MSG_IN"} /\ linked /\ status = "GOOD",
    held <- bsy

KeepsProtocol == Protocol!ProtocolSpec

\* CheckReservation() and the resets: data is transferred for READ and WRITE only by
\* the initiator that holds the reservation of the device, if one does.
ReservationHolds ==
  phase \in {"DATA_IN", "DATA_OUT"} /\ cdb.op \in {"READ", "WRITE"} /\ EffectiveLun(cdb) \in Lun
    => reserving_initiator[EffectiveLun(cdb)] \in {NOT_RESERVED, initiator}

\* A reservation ends by RELEASE, by a reset or by its owner: no other initiator
\* takes it over.
NeverTakenOver ==
  [][\A l \in Lun :
       reserving_initiator[l] \notin {NOT_RESERVED, initiator}
         => reserving_initiator'[l] \in {NOT_RESERVED, reserving_initiator[l]}]_vars

\* "Ensure correct sense data if the previous command was rejected by the controller
\* and not by the device" (controller.cpp, Command()): REQUEST SENSE right after a
\* command that ended with CHECK CONDITION reports why, for the LUN concerned.
SenseMatches ==
  [][phase = "COMMAND" /\ phase' = "DATA_IN" /\ cdb'.op = "REQUEST_SENSE"
     /\ raised.sense # "NO_SENSE" /\ raised.lun \in {NoLun, EffectiveLun(cdb')}
       => buffer' = raised.sense]_vars

\* What only RST inside Error() leaves behind: a link, or the lengths of a transfer.
Leftover == linked \/ current \/ remaining # 0

\* BusFree() and Reset() leave nothing of a connection for the next one, however it
\* ended: neither the LUN of an IDENTIFY message, nor a pending message, nor a status.
\* A link and a transfer are left only by RST inside Error().
NothingLeaks ==
  phase = "BUS_FREE" /\ ~rst
    => /\ identified_lun = NoLun /\ ~atn_msg /\ ~bsy /\ status = "GOOD"
       /\ Leftover => LateReset /\ cut

\* RST is asserted by the target only while the bus is free, so that the next
\* selection resets the target, and no phase is run with RST asserted.
ResetsWhenFree == rst => phase = "BUS_FREE"

\* A connection begins on a clean slate: both of them.
FreeIsClean == NothingLeaks /\ ResetsWhenFree

\* The target comes back to a free bus, whatever fails, unless the initiator never
\* releases SEL (Selection() has no timeout) or goes on linking commands for ever.
EventuallyFree ==
  \/ []<>(phase = "BUS_FREE")
  \/ <>[](phase = "SELECTION")
  \/ []<><<\E c \in Cdb : c.link /\ Execute(c)>>_vars
===============================================================================
