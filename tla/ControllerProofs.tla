--------------------------- MODULE ControllerProofs ---------------------------
(***************************************************************************)
(* The target keeps its types, its reservations, the sense data it owes and*)
(* the protocol of TargetProtocol, for every set of LUNs, initiators and   *)
(* commands and every length of transfers and messages.                    *)
(***************************************************************************)
EXTENDS Controller, WellFoundedInduction, TLAPS

-------------------------------------------------------------------------------
(* Facts about the parts of the handlers. *)

\* GetEffectiveLun() is a LUN an initiator may address.
LEMMA EffectiveLunType ==
  ASSUME TypeOK, NEW c \in CdbType
  PROVE  EffectiveLun(c) \in AnyLun
BY DEF TypeOK, EffectiveLun, CdbType

\* LUN 0 stands in for a LUN without a device.
LEMMA DeviceType ==
  ASSUME NEW l
  PROVE  Device(l) \in Lun
BY ControllerAssumption DEF Device

\* No LUN is the mark of a missing IDENTIFY message.
LEMMA NoLunIsNone == NoLun \notin AnyLun
BY ControllerAssumption DEF NoLun, AnyLun

\* The members that Error() leaves to its callers aside, the others keep their types.
ErrorTypes ==
  /\ phase' \in Phase
  /\ identified_lun' \in AnyLun \cup {NoLun}
  /\ atn_msg' \in BOOLEAN
  /\ status' \in Status
  /\ current' \in BOOLEAN /\ remaining' \in 0..MaxChunks
  /\ buffer' \in Status \cup {"INTERMEDIATE", "DATA"} \cup Completion \cup Sense
  /\ bsy' \in BOOLEAN /\ cut' \in BOOLEAN
  /\ sense' \in [Lun -> Sense]
  /\ raised' \in [sense : Sense, lun : AnyLun \cup {NoLun}]

\* Status() sets the members of a transfer of one byte.
LEMMA ToStatusTypes ==
  ASSUME TypeOK, NEW s \in Status, ToStatus(s),
         sense' \in [Lun -> Sense], raised' \in [sense : Sense, lun : AnyLun \cup {NoLun}]
  PROVE  ErrorTypes
BY ControllerAssumption DEF TypeOK, ToStatus, ErrorTypes, Phase

\* Error() frees the bus, or enters the STATUS phase with the sense data stored.
LEMMA ErrorForTypes ==
  ASSUME TypeOK, NEW s \in Sense, NEW l, NEW base \in [Lun -> Sense], NEW st \in Status,
         NEW for \in AnyLun \cup {NoLun}, ErrorFor(s, l, base, st, for)
  PROVE  ErrorTypes
<1>1. Device(l) \in Lun /\ 0 \in Lun
  BY DeviceType, ControllerAssumption
<1>2. NoError \in [sense : Sense, lun : AnyLun \cup {NoLun}]
  BY DEF NoError, Sense
<1>3. CASE LateReset /\ ToBusFree /\ cut' = TRUE /\ sense' = base /\ raised' = NoError
           /\ UNCHANGED <<current, remaining, buffer>>
  BY <1>2, <1>3 DEF TypeOK, ToBusFree, ErrorTypes, Phase, Status
<1>4. CASE /\ sense' = [base EXCEPT ![IF s = "LOGICAL_UNIT_NOT_SUPPORTED" THEN 0 ELSE Device(l)] = s]
           /\ raised' = IF st = "CHECK_CONDITION" THEN [sense |-> s, lun |-> for] ELSE NoError
           /\ ToStatus(st)
  BY <1>1, <1>2, <1>4, ToStatusTypes
<1>5. QED
  BY <1>3, <1>4 DEF ErrorFor

\* The LUN an IDENTIFY message names is one an initiator may address.
LEMMA Greatest ==
  ASSUME NEW n \in Nat, NEW S \in SUBSET (1..n), S # {}
  PROVE  \E k \in S : \A j \in S : j <= k
<1> DEFINE T == {n - k : k \in S}
<1>0. \A k \in S : k \in Int /\ n - k \in Nat
  OBVIOUS
<1>1. T \subseteq Nat /\ T # {}
  BY <1>0
<1>2. PICK m \in T : \A y \in T : <<y, m>> \notin OpToRel(<, Nat)
  BY <1>1, NatLessThanWellFounded, WFMin
<1>3. PICK k \in S : m = n - k
  OBVIOUS
<1>4. ASSUME NEW j \in S
      PROVE  j <= k
  <2>1. n - j \in T /\ n - j \in Nat /\ m \in Nat
    BY <1>1
  <2>2. ~(n - j < m)
    BY <1>2, <2>1 DEF OpToRel
  <2>3. QED
    BY <1>3, <2>1, <2>2
<1>5. QED
  BY <1>4

\* The LUN that an IDENTIFY message names is a LUN, or there is none.
LEMMA IdentifiedType ==
  ASSUME TypeOK, NEW ms \in Seq(Message)
  PROVE  Identified(ms) \in AnyLun \cup {NoLun}
<1> DEFINE named == {k \in Parsed(ms) : ms[k].code = "IDENTIFY" /\ ~Rejected(ms, k)}
<1>1. CASE named = {}
  BY <1>1 DEF Identified, TypeOK
<1>2. CASE named # {}
  <2>1. Len(ms) \in Nat /\ named \in SUBSET (1..Len(ms))
    BY DEF Parsed
  <2>2. \E k \in named : \A j \in named : j <= k
    BY <1>2, <2>1, Greatest
  <2>3. PICK k \in named : Identified(ms) = ms[k].lun
    BY <1>2, <2>2 DEF Identified
  <2>4. ms[k] \in Message /\ ms[k].code = "IDENTIFY"
    BY <2>1, <2>3
  <2>5. QED
    BY <2>3, <2>4 DEF Message
<1>3. QED
  BY <1>1, <1>2

-------------------------------------------------------------------------------
(* Types. *)

\* What Command() leaves behind for the device, or for its own error.
LEMMA AcceptTypes ==
  ASSUME TypeOK, NEW c \in Cdb, Accept(c)
  PROVE  /\ cdb' \in CdbType /\ c \in CdbType
         /\ linked' \in BOOLEAN /\ flag' \in BOOLEAN
         /\ initiator' \in Initiator \cup {UNKNOWN} /\ msg_bytes' \in Seq(Message)
BY ControllerAssumption DEF Accept, TypeOK, CdbType

\* The sense data a device starts a command with.
LEMMA DiscardedType ==
  ASSUME TypeOK, NEW c
  PROVE  Discarded(c) \in [Lun -> Sense]
<1>1. Device(EffectiveLun(c)) \in Lun
  BY DeviceType
<1>2. QED
  BY <1>1 DEF Discarded, TypeOK, Sense

\* What the handlers of commands leave alone or set beyond ErrorTypes.
RestTypes ==
  /\ initiator' \in Initiator \cup {UNKNOWN}
  /\ msg_bytes' \in Seq(Message)
  /\ linked' \in BOOLEAN /\ flag' \in BOOLEAN
  /\ cdb' \in CdbType
  /\ deferred' \in Sense
  /\ rst' \in BOOLEAN
  /\ reserving_initiator' \in [Lun -> Initiator \cup {UNKNOWN, NOT_RESERVED}]
  /\ reset' \in [Lun -> BOOLEAN]

\* TypeOK falls into the reported errors and the rest of the variables.
LEMMA AllTypes ==
  ASSUME ErrorTypes, RestTypes
  PROVE  TypeOK'
BY DEF ErrorTypes, RestTypes, TypeOK

\* No error is a value of the reported errors.
LEMMA NoErrorType == NoError \in [sense : Sense, lun : AnyLun \cup {NoLun}]
BY DEF NoError, Sense

\* The controller starts with values of the right types.
LEMMA InitTypes == Init => TypeOK
<1> SUFFICES ASSUME Init PROVE TypeOK
  OBVIOUS
<1>1. cdb \in CdbType
  BY ControllerAssumption DEF Init, CdbType, Opcode, AnyLun
<1>2. raised \in [sense : Sense, lun : AnyLun \cup {NoLun}]
  BY NoErrorType DEF Init
<1>3. /\ msg_bytes \in Seq(Message)
      /\ 0 \in 0..MaxChunks
  BY ControllerAssumption DEF Init
<1>4. QED
  BY <1>1, <1>2, <1>3 DEF Init, TypeOK, Phase, Status, Sense

\* The values the handlers assign.
LEMMA Values ==
  /\ {"BUS_FREE", "SELECTION", "MSG_OUT", "COMMAND", "DATA_IN", "DATA_OUT", "STATUS", "MSG_IN"} \subseteq Phase
  /\ {"GOOD", "CHECK_CONDITION", "RESERVATION_CONFLICT"} \subseteq Status
  /\ {"NO_SENSE", "NOT_READY", "UNIT_ATTENTION", "MEDIUM_ERROR", "ABORTED_COMMAND",
      "ILLEGAL_REQUEST", "LOGICAL_UNIT_NOT_SUPPORTED", "CONFLICT"} \subseteq Sense
  /\ 0 \in 0..MaxChunks /\ 1 \in 0..MaxChunks
BY ControllerAssumption DEF Phase, Status, Sense

\* Selection, resets and handshakes.
LEMMA BusTypes ==
  ASSUME TypeOK,
         \/ \E i \in Initiator \cup {UNKNOWN} : Select(i)
         \/ Reset \/ Selection \/ Handshake \/ HandshakeFails \/ CommandFails
         \/ StatusSent \/ EndOfMessage
  PROVE  TypeOK'
<1>0. 0 \in 0..MaxChunks /\ 1 \in 0..MaxChunks /\ <<>> \in Seq(Message)
  BY ControllerAssumption
<1>1. CASE \E i \in Initiator \cup {UNKNOWN} : Select(i)
  BY <1>1 DEF Select, TypeOK, Phase, command, transfer, devices
<1>2. CASE Reset
  BY <1>0, <1>2 DEF Reset, TypeOK, Phase, Status
<1>3. CASE Selection
  <2>1. /\ phase' \in Phase /\ atn_msg' \in BOOLEAN
        /\ current' \in BOOLEAN /\ remaining' \in 0..MaxChunks
        /\ msg_bytes' \in Seq(Message)
    BY <1>0, <1>3, Values DEF Selection, TypeOK
  <2>2. UNCHANGED <<initiator, identified_lun, command, buffer, rst, bsy, cut, devices, raised>>
    BY <1>3 DEF Selection
  <2>3. QED
    BY <2>1, <2>2 DEF TypeOK, command, devices
<1>4. CASE Handshake
  <2>1. /\ current' \in BOOLEAN
        /\ UNCHANGED <<connection, command, remaining, buffer, rst, bsy, cut, devices, raised>>
    BY <1>4 DEF Handshake
  <2>2. QED
    BY <2>1 DEF TypeOK, connection, command, devices
<1>5. CASE HandshakeFails
  <2>1. /\ phase' \in Phase /\ identified_lun' \in AnyLun \cup {NoLun} /\ atn_msg' \in BOOLEAN
        /\ status' \in Status /\ rst' \in BOOLEAN /\ bsy' \in BOOLEAN /\ cut' \in BOOLEAN
        /\ msg_bytes' \in Seq(Message)
    BY <1>0, <1>5, Values DEF HandshakeFails, GiveUp, ToBusFree
  <2>2. raised' = NoError
    BY <1>5 DEF HandshakeFails
  <2>3. UNCHANGED <<initiator, linked, flag, cdb, deferred, current, remaining, buffer, devices>>
    BY <1>5 DEF HandshakeFails, GiveUp, devices
  <2>4. QED
    BY <2>1, <2>2, <2>3, NoErrorType DEF TypeOK, devices
<1>6. CASE CommandFails
  BY <1>6, NoErrorType, Values DEF CommandFails, GiveUp, ToBusFree, TypeOK
<1>7. CASE StatusSent
  BY <1>0, <1>7 DEF StatusSent, CompletionMessage, TypeOK, Phase, Completion, command, devices
<1>8. CASE EndOfMessage
  <2>1. /\ phase' \in Phase /\ identified_lun' \in AnyLun \cup {NoLun} /\ atn_msg' \in BOOLEAN
        /\ linked' \in BOOLEAN /\ flag' \in BOOLEAN /\ status' \in Status
        /\ bsy' \in BOOLEAN /\ cut' \in BOOLEAN
    BY <1>8, Values DEF EndOfMessage, ToBusFree, TypeOK
  <2>2. remaining' \in 0..MaxChunks
    BY <1>0, <1>8 DEF EndOfMessage
  <2>3. UNCHANGED <<initiator, msg_bytes, cdb, deferred, current, buffer, rst, devices, raised>>
    BY <1>8 DEF EndOfMessage
  <2>4. QED
    BY <2>1, <2>2, <2>3 DEF TypeOK, devices
<1>9. QED
  BY <1>1, <1>2, <1>3, <1>4, <1>5, <1>6, <1>7, <1>8

\* XferMsg() and ProcessMessage().
LEMMA MessageTypes ==
  ASSUME TypeOK, NEW m \in Message, ReceiveMessage(m)
  PROVE  TypeOK'
<1> DEFINE ms == Append(msg_bytes, m)
<1>1. ms \in Seq(Message) /\ <<>> \in Seq(Message) /\ 0 \in 0..MaxChunks /\ 1 \in 0..MaxChunks
  BY ControllerAssumption DEF TypeOK
<1>2. Identified(ms) \in AnyLun \cup {NoLun}
  BY <1>1, IdentifiedType
<1> HIDE DEF ms
<1>3. msg_bytes' \in {ms, <<>>} /\ phase' \in Phase /\ remaining' \in 0..MaxChunks
  BY <1>1 DEF ReceiveMessage, TypeOK, Phase, ms
<1>4. /\ identified_lun' \in AnyLun \cup {NoLun}
      /\ atn_msg' \in BOOLEAN /\ status' \in Status /\ current' \in BOOLEAN
      /\ bsy' \in BOOLEAN /\ cut' \in BOOLEAN
  BY <1>2 DEF ReceiveMessage, TypeOK, Status, ms
<1>5. /\ reset' \in [Lun -> BOOLEAN]
      /\ reserving_initiator' \in [Lun -> Initiator \cup {UNKNOWN, NOT_RESERVED}]
  BY DEF ReceiveMessage, TypeOK
<1>6. UNCHANGED <<initiator, linked, flag, cdb, deferred, buffer, rst, sense, raised>>
  BY DEF ReceiveMessage
<1>7. QED
  BY <1>1, <1>3, <1>4, <1>5, <1>6 DEF TypeOK

\* The second halves of Send() and Receive().
LEMMA DataTypes ==
  ASSUME TypeOK, DataIn \/ DataOut
  PROVE  TypeOK'
<1>1. /\ EffectiveLun(cdb) \in AnyLun \cup {NoLun}
      /\ status \in Status /\ "CHECK_CONDITION" \in Status
      /\ sense \in [Lun -> Sense] /\ raised \in [sense : Sense, lun : AnyLun \cup {NoLun}]
  BY EffectiveLunType, Values DEF TypeOK
<1>2. RestTypes
  BY DEF DataIn, DataOut, TypeOK, RestTypes
<1> SUFFICES ErrorTypes
  BY <1>2, AllTypes
<1>3. CASE /\ remaining > 1 /\ current' = TRUE /\ remaining' = remaining - 1
           /\ UNCHANGED <<phase, identified_lun, atn_msg, status, buffer, bsy, cut, sense, raised>>
  BY <1>3, ControllerAssumption DEF TypeOK, ErrorTypes
<1>4. CASE \E s \in {"NOT_READY", "MEDIUM_ERROR"} : Error(s, EffectiveLun(cdb), sense)
  <2>1. PICK s \in Sense : ErrorFor(s, EffectiveLun(cdb), sense, "CHECK_CONDITION", EffectiveLun(cdb))
    BY <1>4 DEF Error, Sense
  <2>2. QED
    BY <1>1, <2>1, ErrorForTypes
<1>5. CASE ToStatus(status) /\ UNCHANGED <<sense, raised>>
  BY <1>1, <1>5, ToStatusTypes
<1>6. QED
  BY <1>3, <1>4, <1>5 DEF DataIn, DataOut

\* An operation code nobody knows.
LEMMA UnknownTypes ==
  ASSUME TypeOK, UnknownCommand
  PROVE  TypeOK'
<1>1. /\ sense \in [Lun -> Sense] /\ NoLun \in AnyLun \cup {NoLun}
      /\ "ILLEGAL_REQUEST" \in Sense /\ "CHECK_CONDITION" \in Status
  BY Values DEF TypeOK
<1>2. ErrorTypes
  BY <1>1, ErrorForTypes DEF UnknownCommand, RaiseDeferredError
<1>3. RestTypes
  BY <1>1 DEF UnknownCommand, RaiseDeferredError, TypeOK, RestTypes
<1>4. QED
  BY <1>2, <1>3, AllTypes

\* What a command does to the members of the connection and of the devices.
LEMMA ExecuteRest ==
  ASSUME TypeOK, NEW c \in Cdb, Execute(c)
  PROVE  RestTypes /\ Accept(c)
<1>1. CASE FlagWithoutLink(c) \/ ProvideSenseData(c)
  <2>1. Accept(c)
    BY <1>1 DEF FlagWithoutLink, ProvideSenseData
  <2>2. /\ deferred' \in Sense
        /\ UNCHANGED <<rst, reserving_initiator, reset>>
    BY <1>1, Values DEF FlagWithoutLink, ProvideSenseData, RaiseDeferredError, devices
  <2>3. QED
    BY <2>1, <2>2, AcceptTypes DEF RestTypes, TypeOK
<1>2. CASE Starts(c) /\ UNCHANGED <<reserving_initiator, reset>>
  <2>1. Accept(c) /\ deferred' \in Sense /\ UNCHANGED rst
    BY <1>2, Values DEF Starts
  <2>2. QED
    BY <1>2, <2>1, AcceptTypes DEF RestTypes, TypeOK
<1>3. CASE DeviceFails(c)
  <2>1. Accept(c) /\ deferred' \in Sense /\ UNCHANGED <<rst, reserving_initiator>>
    BY <1>3, Values DEF DeviceFails, Dispatched, Starts
  <2>2. reset' \in [Lun -> BOOLEAN]
    BY <1>3 DEF DeviceFails, TypeOK
  <2>3. QED
    BY <2>1, <2>2, AcceptTypes DEF RestTypes, TypeOK
<1>4. CASE Reserve(c)
  <2>1. Accept(c) /\ deferred' \in Sense /\ UNCHANGED <<rst, reset>>
    BY <1>4, Values DEF Reserve, Dispatched, Starts
  <2>2. reserving_initiator' \in [Lun -> Initiator \cup {UNKNOWN, NOT_RESERVED}]
    BY <1>4 DEF Reserve, TypeOK
  <2>3. QED
    BY <2>1, <2>2, AcceptTypes DEF RestTypes, TypeOK
<1>5. QED
  BY <1>1, <1>2, <1>3, <1>4
  DEF Execute, NoSuchLun, ReservationConflict, DeviceWorks, RequestSense, SenseOfMissingLun,
      SenseDuringReset, Dispatched

\* A command that a device executes has a device, unless it is one that any LUN answers.
LEMMA HasDevice ==
  ASSUME NEW c, Dispatched(c), c.op \notin {"INQUIRY", "REQUEST_SENSE"}
  PROVE  EffectiveLun(c) \in Lun
BY DEF Dispatched

\* What a command does to the bus, the transfer and the sense data.
LEMMA ExecuteTypes ==
  ASSUME TypeOK, NEW c \in Cdb, Execute(c)
  PROVE  ErrorTypes
<1>0. /\ sense \in [Lun -> Sense] /\ sense[0] \in Sense
      /\ status \in Status /\ remaining \in 0..MaxChunks /\ deferred \in Sense
      /\ NoError \in [sense : Sense, lun : AnyLun \cup {NoLun}]
      /\ NoLun \in AnyLun \cup {NoLun}
  BY NoErrorType, ControllerAssumption DEF TypeOK
<1>1. c \in CdbType /\ EffectiveLun(c) \in AnyLun \cup {NoLun} /\ Discarded(c) \in [Lun -> Sense]
  BY ControllerAssumption, EffectiveLunType, DiscardedType
<1>2. c.len \in 0..MaxChunks
  BY <1>1 DEF CdbType
<1>3. CASE FlagWithoutLink(c)
  BY <1>0, <1>3, Values, ErrorForTypes DEF FlagWithoutLink, RaiseDeferredError
<1>4. CASE ProvideSenseData(c)
  BY <1>0, <1>4, Values DEF ProvideSenseData, ToData, ErrorTypes, devices, TypeOK
<1>5. CASE NoSuchLun(c)
  BY <1>0, <1>1, <1>5, Values, ErrorForTypes DEF NoSuchLun, Error
<1>6. CASE ReservationConflict(c)
  BY <1>0, <1>1, <1>6, Values, ErrorForTypes DEF ReservationConflict
<1>7. CASE DeviceFails(c)
  <2>1. PICK s \in Sense : Error(s, EffectiveLun(c), Discarded(c))
    BY <1>7, Values DEF DeviceFails
  <2>2. QED
    BY <1>1, <2>1, Values, ErrorForTypes DEF Error
<1>8. CASE DeviceWorks(c)
  <2>1. sense' \in [Lun -> Sense] /\ raised' \in [sense : Sense, lun : AnyLun \cup {NoLun}]
    BY <1>0, <1>1, <1>8 DEF DeviceWorks
  <2>2. CASE ToStatus("GOOD")
    BY <2>1, <2>2, Values, ToStatusTypes
  <2>3. CASE /\ \E p \in {"DATA_OUT", "DATA_IN"}, n \in {0, c.len} : ToData(p, n, "DATA")
             /\ status' = "GOOD"
    BY <1>2, <2>1, <2>3, Values DEF ToData, ErrorTypes, TypeOK
  <2>4. QED
    BY <1>8, <2>2, <2>3 DEF DeviceWorks
<1>9. CASE Reserve(c)
  BY <1>0, <1>1, <1>9, Values, ToStatusTypes DEF Reserve, Done
<1>10. CASE RequestSense(c)
  <2>1. CASE Error("NOT_READY", EffectiveLun(c), sense)
    BY <1>0, <1>1, <2>1, Values, ErrorForTypes DEF Error
  <2>2. CASE /\ sense' = [sense EXCEPT ![EffectiveLun(c)] = "NO_SENSE"]
             /\ raised' = NoError
             /\ IF c.len = 0 THEN ToStatus(status)
                ELSE ToData("DATA_IN", 0, sense[EffectiveLun(c)]) /\ UNCHANGED status
    <3>1. sense' \in [Lun -> Sense] /\ raised' \in [sense : Sense, lun : AnyLun \cup {NoLun}]
      BY <1>0, <2>2, Values
    <3>2. sense[EffectiveLun(c)] \in Sense
      BY <1>0, <1>10 DEF RequestSense
    <3>3. CASE ToStatus(status)
      BY <1>0, <3>1, <3>3, ToStatusTypes
    <3>4. CASE ToData("DATA_IN", 0, sense[EffectiveLun(c)]) /\ UNCHANGED status
      BY <1>0, <3>1, <3>2, <3>4, Values DEF ToData, ErrorTypes, TypeOK
    <3>5. QED
      BY <2>2, <3>3, <3>4
  <2>3. QED
    BY <1>10, <2>1, <2>2 DEF RequestSense
<1>11. CASE SenseOfMissingLun(c)
  BY <1>0, <1>11, Values DEF SenseOfMissingLun, ToData, CompletionMessage, Completion, ErrorTypes,
     TypeOK
<1>12. CASE SenseDuringReset(c)
  BY <1>0, <1>12, Values DEF SenseDuringReset, ErrorTypes, TypeOK
<1>13. QED
  BY <1>3, <1>4, <1>5, <1>6, <1>7, <1>8, <1>9, <1>10, <1>11, <1>12 DEF Execute

\* Every step keeps the types.
LEMMA StepTypes == TypeOK /\ [Next]_vars => TypeOK'
<1> SUFFICES ASSUME TypeOK, [Next]_vars PROVE TypeOK'
  OBVIOUS
<1>1. ASSUME NEW c \in Cdb, Execute(c)
      PROVE  TypeOK'
  BY <1>1, ExecuteRest, ExecuteTypes, AllTypes
<1>2. CASE UNCHANGED vars
  BY <1>2 DEF vars, connection, command, transfer, devices, TypeOK
<1>3. QED
  BY <1>1, <1>2, BusTypes, MessageTypes, DataTypes, UnknownTypes
  DEF Next, ResetByInitiator, ResetAtSelection

\* The members of Controller, AbstractController and PrimaryDevice keep their types.
THEOREM TypeCorrect == Spec => []TypeOK
BY InitTypes, StepTypes, PTL DEF Spec

-------------------------------------------------------------------------------
(* Reservations. *)

\* Error() ends the phase.
LEMMA ErrorForPhase ==
  ASSUME NEW s, NEW l, NEW base, NEW st, NEW for, ErrorFor(s, l, base, st, for)
  PROVE  phase' \in {"BUS_FREE", "STATUS"}
BY DEF ErrorFor, ToBusFree, ToStatus

\* A data phase is entered for a command that passed CheckReservation(), or for sense data.
LEMMA ExecuteData ==
  ASSUME NEW c \in Cdb, Execute(c), phase' \in {"DATA_IN", "DATA_OUT"}, cdb'.op \in {"READ", "WRITE"}
  PROVE  DeviceWorks(c)
<1>1. CASE \/ ProvideSenseData(c) \/ RequestSense(c) \/ SenseOfMissingLun(c) \/ SenseDuringReset(c)
           \/ Reserve(c)
  <2>1. c.op \notin {"READ", "WRITE"} /\ Accept(c)
    BY <1>1 DEF ProvideSenseData, RequestSense, SenseOfMissingLun, SenseDuringReset, Reserve,
                Dispatched, Starts
  <2>2. QED
    BY <2>1 DEF Accept
<1>2. CASE FlagWithoutLink(c) \/ NoSuchLun(c) \/ ReservationConflict(c) \/ DeviceFails(c)
  <2>1. phase' \in {"BUS_FREE", "STATUS"}
    BY <1>2, ErrorForPhase
    DEF FlagWithoutLink, RaiseDeferredError, NoSuchLun, ReservationConflict, DeviceFails, Error
  <2>2. QED
    BY <2>1
<1>3. QED
  BY <1>1, <1>2 DEF Execute

\* Any other step goes on with a data phase or is not in one.
LEMMA DataGoesOn ==
  ASSUME [Next]_vars, phase' \in {"DATA_IN", "DATA_OUT"}, ~\E c \in Cdb : Execute(c)
  PROVE  UNCHANGED <<phase, cdb, identified_lun, initiator, reserving_initiator>>
<1>1. CASE \/ \E i \in Initiator \cup {UNKNOWN} : Select(i)
           \/ Reset \/ Selection \/ HandshakeFails \/ CommandFails \/ StatusSent \/ EndOfMessage
           \/ \E m \in Message : ReceiveMessage(m)
  BY <1>1 DEF Select, Reset, Selection, HandshakeFails, CommandFails, GiveUp, StatusSent,
              EndOfMessage, ToBusFree, ReceiveMessage
<1>2. CASE UnknownCommand
  BY <1>2, ErrorForPhase DEF UnknownCommand, RaiseDeferredError
<1>3. CASE Handshake
  BY <1>3 DEF Handshake, connection, command, devices
<1>4. CASE DataIn
  BY <1>4, ErrorForPhase DEF DataIn, Error, ToStatus
<1>5. CASE DataOut
  BY <1>5, ErrorForPhase DEF DataOut, Error, ToStatus
<1>6. CASE UNCHANGED vars
  BY <1>6 DEF vars, connection, command, devices
<1>7. QED
  BY <1>1, <1>2, <1>3, <1>4, <1>5, <1>6 DEF Next, ResetByInitiator, ResetAtSelection

\* Every step keeps reservations apart from the free bus.
LEMMA ReservationStep == ReservationHolds /\ [Next]_vars => ReservationHolds'
<1> SUFFICES ASSUME ReservationHolds, [Next]_vars,
                    phase' \in {"DATA_IN", "DATA_OUT"}, cdb'.op \in {"READ", "WRITE"},
                    EffectiveLun(cdb)' \in Lun
             PROVE  reserving_initiator'[EffectiveLun(cdb)'] \in {NOT_RESERVED, initiator'}
  BY DEF ReservationHolds
<1>1. CASE \E c \in Cdb : Execute(c)
  <2>1. PICK c \in Cdb : DeviceWorks(c)
    BY <1>1, ExecuteData
  <2>2. cdb' = c /\ UNCHANGED <<initiator, reserving_initiator>> /\ Permitted(c)
    BY <2>1 DEF DeviceWorks, Dispatched, Starts, Accept
  <2>3. UNCHANGED identified_lun
    BY <2>1 DEF DeviceWorks, ToStatus, ToData
  <2>4. EffectiveLun(cdb)' = EffectiveLun(c)
    BY <2>2, <2>3 DEF EffectiveLun
  <2>5. QED
    BY <2>2, <2>4 DEF Permitted, Device
<1>2. CASE ~\E c \in Cdb : Execute(c)
  <2>1. UNCHANGED <<phase, cdb, identified_lun, initiator, reserving_initiator>>
    BY <1>2, DataGoesOn
  <2>2. EffectiveLun(cdb)' = EffectiveLun(cdb)
    BY <2>1 DEF EffectiveLun
  <2>3. QED
    BY <2>1, <2>2 DEF ReservationHolds
<1>3. QED
  BY <1>1, <1>2

\* As long as a device is reserved, only its owner reads and writes its data.
THEOREM ReservationRespected == Spec => []ReservationHolds
<1>1. Init => ReservationHolds
  BY DEF Init, ReservationHolds
<1>2. QED
  BY <1>1, ReservationStep, PTL DEF Spec

\* A step that is not RESERVE or RELEASE keeps the reservations or ends them.
LEMMA ReservationsOnlyEnd ==
  ASSUME TypeOK, [Next]_vars, ~\E c \in Cdb : Reserve(c), NEW l \in Lun
  PROVE  reserving_initiator'[l] \in {NOT_RESERVED, reserving_initiator[l]}
<1>1. CASE Reset
  BY <1>1 DEF Reset
<1>2. CASE \E m \in Message : ReceiveMessage(m)
  BY <1>2 DEF ReceiveMessage
<1>3. CASE UNCHANGED reserving_initiator
  BY <1>3
<1>4. CASE \E c \in Cdb : Execute(c)
  BY <1>3, <1>4
  DEF Execute, FlagWithoutLink, RaiseDeferredError, ProvideSenseData, NoSuchLun,
     ReservationConflict,
      DeviceFails, DeviceWorks, RequestSense, SenseOfMissingLun, SenseDuringReset, devices
<1>5. QED
  BY <1>1, <1>2, <1>3, <1>4
  DEF Next, ResetByInitiator, ResetAtSelection, Select, Selection, Handshake, HandshakeFails,
      CommandFails, UnknownCommand, RaiseDeferredError, DataIn, DataOut, StatusSent, EndOfMessage,
      vars, devices

\* No initiator takes over the reservation of another one.
THEOREM ReservationKept == Spec => NeverTakenOver
<1>1. ASSUME TypeOK, [Next]_vars, NEW l \in Lun,
             reserving_initiator[l] \notin {NOT_RESERVED, initiator}
      PROVE  reserving_initiator'[l] \in {NOT_RESERVED, reserving_initiator[l]}
  <2>1. CASE \E c \in Cdb : Reserve(c)
    <3>1. PICK c \in Cdb : Reserve(c)
      BY <2>1
    <3>2. /\ EffectiveLun(c) \in Lun /\ Permitted(c) /\ c.op \in {"RESERVE", "RELEASE"}
          /\ reserving_initiator' = [reserving_initiator EXCEPT ![EffectiveLun(c)] =
                                       IF c.op = "RESERVE" THEN initiator ELSE NOT_RESERVED]
      BY <3>1 DEF Reserve, Dispatched
    <3>3. c.op = "RESERVE" => EffectiveLun(c) # l
      BY <1>1, <3>2 DEF Permitted, Device
    <3>4. QED
      BY <1>1, <3>2, <3>3 DEF TypeOK
  <2>2. QED
    BY <1>1, <2>1, ReservationsOnlyEnd
<1>2. TypeOK /\ [Next]_vars =>
        [\A l \in Lun : reserving_initiator[l] \notin {NOT_RESERVED, initiator}
            => reserving_initiator'[l] \in {NOT_RESERVED, reserving_initiator[l]}]_vars
  BY <1>1
<1>3. QED
  BY <1>2, TypeCorrect, PTL DEF Spec, NeverTakenOver

-------------------------------------------------------------------------------
(* What a connection leaves behind.                                          *)

\* A connection that goes on leaves nothing yet.
LEMMA GoesOn ==
  ASSUME ~rst, UNCHANGED rst, phase' # "BUS_FREE"
  PROVE  FreeIsClean'
BY DEF FreeIsClean, NothingLeaks, ResetsWhenFree

\* Error() with a reset of its own is the only one to leave a link or a transfer.
LEMMA ErrorForClean ==
  ASSUME ~rst, UNCHANGED rst,
         NEW s, NEW l, NEW base, NEW st, NEW for, ErrorFor(s, l, base, st, for)
  PROVE  FreeIsClean'
<1>1. CASE LateReset /\ ToBusFree /\ cut' = TRUE
  BY <1>1 DEF ToBusFree, FreeIsClean, NothingLeaks, ResetsWhenFree
<1>2. CASE ToStatus(st)
  BY <1>2, GoesOn DEF ToStatus
<1>3. QED
  BY <1>1, <1>2 DEF ErrorFor

\* Going to the status phase, or to a data phase.
LEMMA PhaseClean ==
  ASSUME ~rst, UNCHANGED rst,
         (\E s \in Status : ToStatus(s)) \/ phase' \in {"DATA_IN", "DATA_OUT", "MSG_IN", "STATUS"}
  PROVE  FreeIsClean'
<1>1. phase' # "BUS_FREE"
  BY DEF ToStatus
<1>2. QED
  BY <1>1, GoesOn

\* The rest of the command phase.
LEMMA ExecuteClean ==
  ASSUME TypeOK, FreeIsClean, NEW c \in Cdb, Execute(c)
  PROVE  FreeIsClean'
<1>1. phase = "COMMAND" /\ UNCHANGED rst
  <2>1. CASE \/ FlagWithoutLink(c) \/ NoSuchLun(c) \/ ReservationConflict(c) \/ DeviceFails(c)
             \/ ProvideSenseData(c)
    BY <2>1
    DEF FlagWithoutLink, RaiseDeferredError, ProvideSenseData, NoSuchLun, ReservationConflict,
        DeviceFails, Dispatched, Starts, Accept
  <2>2. CASE \/ DeviceWorks(c) \/ Reserve(c) \/ RequestSense(c) \/ SenseOfMissingLun(c)
             \/ SenseDuringReset(c)
    BY <2>2
    DEF DeviceWorks, Reserve, RequestSense, SenseOfMissingLun, SenseDuringReset, Dispatched,
        Starts, Accept
  <2>3. QED
    BY <2>1, <2>2 DEF Execute
<1>2. ~rst
  BY <1>1 DEF FreeIsClean, ResetsWhenFree
<1>3. CASE FlagWithoutLink(c) \/ NoSuchLun(c) \/ ReservationConflict(c) \/ DeviceFails(c)
  BY <1>1, <1>2, <1>3, ErrorForClean
  DEF FlagWithoutLink, RaiseDeferredError, NoSuchLun, ReservationConflict, DeviceFails, Error
<1>4. CASE ProvideSenseData(c) \/ SenseOfMissingLun(c) \/ SenseDuringReset(c)
  BY <1>1, <1>2, <1>4, PhaseClean DEF ProvideSenseData, SenseOfMissingLun, SenseDuringReset, ToData
<1>5. CASE DeviceWorks(c) \/ Reserve(c)
  <2>1. ToStatus("GOOD") \/ phase' \in {"DATA_IN", "DATA_OUT"}
    BY <1>5 DEF DeviceWorks, Reserve, Done, ToData
  <2>2. "GOOD" \in Status
    BY DEF Status
  <2>3. QED
    BY <1>1, <1>2, <2>1, <2>2, PhaseClean
<1>6. CASE RequestSense(c)
  <2>1. Error("NOT_READY", EffectiveLun(c), sense) \/ ToStatus(status) \/ phase' = "DATA_IN"
    BY <1>6 DEF RequestSense, ToData
  <2>2. status \in Status
    BY DEF TypeOK
  <2>3. QED
    BY <1>1, <1>2, <2>1, <2>2, ErrorForClean, PhaseClean DEF Error
<1>7. QED
  BY <1>3, <1>4, <1>5, <1>6 DEF Execute

\* FreeIsClean is inductive, with the types.
LEMMA KeepsClean ==
  ASSUME TypeOK, FreeIsClean, [Next]_vars
  PROVE  FreeIsClean'
<1>1. /\ rst => phase = "BUS_FREE"
      /\ phase = "BUS_FREE" /\ ~rst
           => /\ identified_lun = NoLun /\ ~atn_msg /\ ~bsy /\ status = "GOOD"
              /\ Leftover => LateReset /\ cut
  BY DEF FreeIsClean, NothingLeaks, ResetsWhenFree
<1>2. CASE \E i \in Initiator \cup {UNKNOWN} : Select(i)
  BY <1>2, GoesOn DEF Select
<1>3. CASE ResetByInitiator \/ ResetAtSelection
  BY <1>3
  DEF ResetByInitiator, ResetAtSelection, Reset, FreeIsClean, NothingLeaks, ResetsWhenFree, Leftover
<1>4. CASE Selection \/ Handshake \/ StatusSent
  <2>1. ~rst /\ UNCHANGED rst /\ phase' # "BUS_FREE"
    BY <1>1, <1>4 DEF Selection, Handshake, StatusSent, connection
  <2>2. QED
    BY <2>1, GoesOn
<1>5. CASE HandshakeFails \/ CommandFails
  BY <1>5
  DEF HandshakeFails, CommandFails, GiveUp, ToBusFree, FreeIsClean, NothingLeaks, ResetsWhenFree
<1>6. CASE \E m \in Message : ReceiveMessage(m)
  <2>1. phase' \in {"MSG_OUT", "COMMAND"} /\ UNCHANGED rst /\ phase = "MSG_OUT"
    <3>1. ASSUME NEW m \in Message, ReceiveMessage(m)
          PROVE  phase' \in {"MSG_OUT", "COMMAND"} /\ UNCHANGED rst /\ phase = "MSG_OUT"
      BY <3>1 DEF ReceiveMessage
    <3>2. QED
      BY <1>6, <3>1
  <2>2. QED
    BY <1>1, <2>1, GoesOn
<1>7. CASE UnknownCommand
  BY <1>1, <1>7, ErrorForClean DEF UnknownCommand, RaiseDeferredError
<1>8. CASE \E c \in Cdb : Execute(c)
  BY <1>8, ExecuteClean
<1>9. CASE DataIn \/ DataOut
  <2>1. phase \in {"DATA_IN", "DATA_OUT"} /\ UNCHANGED rst
    BY <1>9 DEF DataIn, DataOut
  <2>2. \/ UNCHANGED phase
        \/ \E s \in {"NOT_READY", "MEDIUM_ERROR"} : Error(s, EffectiveLun(cdb), sense)
        \/ ToStatus(status)
    BY <1>9 DEF DataIn, DataOut
  <2>3. status \in Status
    BY DEF TypeOK
  <2>4. CASE \E s \in {"NOT_READY", "MEDIUM_ERROR"} : Error(s, EffectiveLun(cdb), sense)
    BY <1>1, <2>1, <2>4, ErrorForClean DEF Error
  <2>5. QED
    BY <1>1, <2>1, <2>2, <2>3, <2>4, PhaseClean
<1>10. CASE EndOfMessage
  <2>1. ~rst /\ UNCHANGED rst
    BY <1>1, <1>10 DEF EndOfMessage
  <2>2. CASE atn_msg \/ linked
    BY <1>10, <2>1, <2>2, GoesOn DEF EndOfMessage
  <2>3. CASE ~(atn_msg \/ linked)
    BY <1>10, <2>1, <2>3
    DEF EndOfMessage, ToBusFree, FreeIsClean, NothingLeaks, ResetsWhenFree, Leftover
  <2>4. QED
    BY <2>2, <2>3
<1>11. CASE UNCHANGED vars
  BY <1>1, <1>11
  DEF vars, connection, command, transfer, FreeIsClean, NothingLeaks, ResetsWhenFree, Leftover
<1>12. QED
  BY <1>2, <1>3, <1>4, <1>5, <1>6, <1>7, <1>8, <1>9, <1>10, <1>11 DEF Next

\* The bus is free at the start.
LEMMA InitClean == Init => FreeIsClean
BY DEF Init, FreeIsClean, NothingLeaks, ResetsWhenFree, Leftover

\* Every connection begins on a clean slate, however the one before ended and whoever
\* asserted RST when; a link or a transfer is left only by RST inside Error().
THEOREM ConnectionsAreClean == Spec => []FreeIsClean
<1>1. Init => FreeIsClean
  BY InitClean
<1>2. TypeOK /\ FreeIsClean /\ [Next]_vars => FreeIsClean'
  BY KeepsClean
<1>3. QED
  BY <1>1, <1>2, TypeCorrect, PTL DEF Spec

-------------------------------------------------------------------------------
(* What REQUEST SENSE finds, as long as no reset hits Error() itself: the    *)
(* lengths of the transfer that failed then stay.                            *)

\* More than a byte or chunk is due in the data phases only, or until the reset that
\* a target that gave up asks for.
RestIsData == remaining > 1 => rst \/ phase \in {"DATA_IN", "DATA_OUT"}

\* Data phases are entered with the deferred sense data spent, and a transfer that
\* may still fail is one of a LUN that has a device.
DataHasDevice ==
  phase \in {"DATA_IN", "DATA_OUT"} =>
    /\ deferred = "NO_SENSE"
    /\ phase = "DATA_OUT" \/ remaining > 1 => EffectiveLun(cdb) \in Lun

\* Where the sense data of the command that just failed is kept.
SenseKept ==
  raised.sense # "NO_SENSE" =>
    /\ raised.lun = NoLun => deferred = raised.sense
    /\ raised.lun # NoLun => deferred = "NO_SENSE"
    /\ raised.lun \in Lun => sense[raised.lun] = raised.sense
    /\ raised.lun \in AnyLun \ Lun => raised.sense = "LOGICAL_UNIT_NOT_SUPPORTED"

IInv == TypeOK /\ FreeIsClean /\ RestIsData /\ DataHasDevice /\ SenseKept

\* Error() without a reset of its own.
LEMMA ErrorForSettled ==
  ASSUME ~LateReset, NEW s, NEW l, NEW base \in [Lun -> Sense], NEW st, NEW for,
         ErrorFor(s, l, base, st, for)
  PROVE  /\ phase' = "STATUS" /\ remaining' = 1
         /\ raised' = IF st = "CHECK_CONDITION" THEN [sense |-> s, lun |-> for] ELSE NoError
         /\ l \in Lun /\ s # "LOGICAL_UNIT_NOT_SUPPORTED" => sense'[l] = s
<1>1. Device(l) \in Lun
  BY DeviceType
<1>2. /\ sense' = [base EXCEPT ![IF s = "LOGICAL_UNIT_NOT_SUPPORTED" THEN 0 ELSE Device(l)] = s]
      /\ raised' = IF st = "CHECK_CONDITION" THEN [sense |-> s, lun |-> for] ELSE NoError
      /\ ToStatus(st)
  BY DEF ErrorFor
<1>3. QED
  BY <1>1, <1>2 DEF ToStatus, Device

\* Error() for a LUN that has a device, with the deferred sense data spent, or for a
\* LUN that has none.
LEMMA ErrorKept ==
  ASSUME ~LateReset, NEW s \in Sense, NEW l \in AnyLun, NEW base \in [Lun -> Sense],
         Error(s, l, base), deferred' = "NO_SENSE",
         (l \in Lun /\ s # "LOGICAL_UNIT_NOT_SUPPORTED") \/ (l \notin Lun /\ s = "LOGICAL_UNIT_NOT_SUPPORTED")
  PROVE  SenseKept'
<1>1. /\ raised' = [sense |-> s, lun |-> l]
      /\ l \in Lun /\ s # "LOGICAL_UNIT_NOT_SUPPORTED" => sense'[l] = s
  BY ErrorForSettled DEF Error
<1>2. l # NoLun
  BY NoLunIsNone
<1>3. QED
  BY <1>1, <1>2 DEF SenseKept

\* A command without an error leaves nothing to report.
LEMMA NothingRaised ==
  ASSUME raised' = NoError
  PROVE  SenseKept'
BY DEF SenseKept, NoError

\* A command ends in a phase that is not a data phase, or has entered one.
LEMMA ExecutePhases ==
  ASSUME TypeOK, ~LateReset, NEW c \in Cdb, Execute(c), remaining <= 1
  PROVE  /\ phase' \in {"STATUS", "MSG_IN", "DATA_IN", "DATA_OUT"}
         /\ remaining' > 1 => phase' \in {"DATA_IN", "DATA_OUT"}
         /\ UNCHANGED rst
<1>1. c \in CdbType /\ sense \in [Lun -> Sense] /\ Discarded(c) \in [Lun -> Sense]
  BY ControllerAssumption, DiscardedType DEF TypeOK
<1>2. CASE FlagWithoutLink(c) \/ NoSuchLun(c) \/ ReservationConflict(c) \/ DeviceFails(c)
  <2>1. phase' = "STATUS" /\ remaining' = 1
    BY <1>1, <1>2, ErrorForSettled
    DEF FlagWithoutLink, RaiseDeferredError, NoSuchLun, ReservationConflict, DeviceFails, Error
  <2>2. UNCHANGED rst
    BY <1>2 DEF FlagWithoutLink, RaiseDeferredError, NoSuchLun, ReservationConflict, DeviceFails,
                Dispatched, Starts
  <2>3. QED
    BY <2>1, <2>2
<1>3. CASE ProvideSenseData(c) \/ DeviceWorks(c) \/ Reserve(c)
  BY <1>3 DEF ProvideSenseData, DeviceWorks, Reserve, Dispatched, Starts, ToStatus, ToData, Done
<1>4. CASE RequestSense(c)
  BY <1>1, <1>4, ErrorForSettled DEF RequestSense, Dispatched, Starts, ToStatus, ToData, Error
<1>5. CASE SenseOfMissingLun(c)
  BY <1>5 DEF SenseOfMissingLun, Dispatched, Starts, ToData
<1>6. QED
  BY <1>2, <1>3, <1>4, <1>5 DEF Execute, SenseDuringReset

\* The device of a transfer that more is due of.
LEMMA ExecuteHasDevice ==
  ASSUME TypeOK, ~LateReset, NEW c \in Cdb, Execute(c), remaining <= 1
  PROVE  DataHasDevice'
<1> SUFFICES ASSUME phase' \in {"DATA_IN", "DATA_OUT"}
             PROVE  /\ deferred' = "NO_SENSE"
                    /\ phase' = "DATA_OUT" \/ remaining' > 1 => EffectiveLun(cdb)' \in Lun
  BY DEF DataHasDevice
<1>1. /\ sense \in [Lun -> Sense] /\ Discarded(c) \in [Lun -> Sense]
      /\ remaining \in 0..MaxChunks
  BY DiscardedType DEF TypeOK
<1>2. ~(FlagWithoutLink(c) \/ NoSuchLun(c) \/ ReservationConflict(c) \/ DeviceFails(c))
  BY ErrorForPhase
  DEF FlagWithoutLink, RaiseDeferredError, NoSuchLun, ReservationConflict, DeviceFails, Error
<1>3. CASE ProvideSenseData(c)
  BY <1>1, <1>3, ControllerAssumption DEF ProvideSenseData, ToData
<1>4. CASE DeviceWorks(c)
  <2>1. cdb' = c /\ deferred' = "NO_SENSE" /\ UNCHANGED identified_lun
    BY <1>4 DEF DeviceWorks, Dispatched, Starts, Accept, ToStatus, ToData
  <2>2. c.op # "INQUIRY" => EffectiveLun(c) \in Lun
    BY <1>4 DEF DeviceWorks, Dispatched
  <2>3. c.op = "INQUIRY" => phase' = "DATA_IN" /\ remaining' = 0
    BY <1>4 DEF DeviceWorks, ToStatus, ToData
  <2>4. EffectiveLun(cdb)' = EffectiveLun(c)
    BY <2>1 DEF EffectiveLun
  <2>5. QED
    BY <2>1, <2>2, <2>3, <2>4
<1>5. CASE Reserve(c)
  BY <1>5 DEF Reserve, Done, ToStatus
<1>6. CASE RequestSense(c)
  BY <1>1, <1>6, ErrorForSettled DEF RequestSense, Dispatched, Starts, ToStatus, ToData, Error
<1>7. CASE SenseOfMissingLun(c)
  BY <1>7 DEF SenseOfMissingLun, Dispatched, Starts, ToData
<1>8. QED
  BY <1>2, <1>3, <1>4, <1>5, <1>6, <1>7 DEF Execute, SenseDuringReset

\* A command keeps what the device has to report and what it has reported together.
LEMMA ExecuteKeepsSense ==
  ASSUME TypeOK, ~LateReset, NEW c \in Cdb, Execute(c)
  PROVE  SenseKept'
<1>1. /\ c \in CdbType /\ EffectiveLun(c) \in AnyLun
      /\ sense \in [Lun -> Sense] /\ Discarded(c) \in [Lun -> Sense]
  BY ControllerAssumption, EffectiveLunType, DiscardedType DEF TypeOK
<1>2. CASE FlagWithoutLink(c)
  <2>1. deferred' = "ILLEGAL_REQUEST" /\ raised' = [sense |-> "ILLEGAL_REQUEST", lun |-> NoLun]
    BY <1>1, <1>2, ErrorForSettled DEF FlagWithoutLink, RaiseDeferredError
  <2>2. QED
    BY <2>1, NoLunIsNone DEF SenseKept, AnyLun
<1>3. CASE ReservationConflict(c)
  BY <1>1, <1>3, ErrorForSettled, NothingRaised DEF ReservationConflict
<1>4. CASE NoSuchLun(c)
  <2>1. /\ Error("LOGICAL_UNIT_NOT_SUPPORTED", EffectiveLun(c), sense)
        /\ deferred' = "NO_SENSE" /\ EffectiveLun(c) \notin Lun
    BY <1>4 DEF NoSuchLun, Starts
  <2>2. QED
    BY <1>1, <2>1, Values, ErrorKept
<1>5. CASE DeviceFails(c)
  <2>1. deferred' = "NO_SENSE" /\ EffectiveLun(c) \in Lun
    BY <1>5, HasDevice DEF DeviceFails, Dispatched, Starts
  <2>2. PICK s \in {"UNIT_ATTENTION", "ILLEGAL_REQUEST", "NOT_READY", "MEDIUM_ERROR"} :
             Error(s, EffectiveLun(c), Discarded(c))
    BY <1>5 DEF DeviceFails
  <2>3. s \in Sense /\ s # "LOGICAL_UNIT_NOT_SUPPORTED"
    BY Values
  <2>4. QED
    BY <1>1, <2>1, <2>2, <2>3, ErrorKept
<1>6. CASE RequestSense(c)
  <2>1. deferred' = "NO_SENSE" /\ EffectiveLun(c) \in Lun
    BY <1>6 DEF RequestSense, Dispatched, Starts
  <2>2. CASE Error("NOT_READY", EffectiveLun(c), sense)
    BY <1>1, <2>1, <2>2, Values, ErrorKept
  <2>3. QED
    BY <1>6, <2>2, NothingRaised DEF RequestSense
<1>7. QED
  BY <1>2, <1>3, <1>4, <1>5, <1>6, NothingRaised
  DEF Execute, ProvideSenseData, DeviceWorks, Reserve, Done, SenseOfMissingLun, SenseDuringReset

\* Selection, messages and resets.
LEMMA ConnectionKeepsIInv ==
  ASSUME IInv, TypeOK',
         \/ \E i \in Initiator \cup {UNKNOWN} : Select(i)
         \/ ResetByInitiator \/ ResetAtSelection \/ Selection \/ Handshake \/ HandshakeFails
         \/ \E m \in Message : ReceiveMessage(m)
         \/ CommandFails \/ StatusSent \/ EndOfMessage \/ UNCHANGED vars
  PROVE  IInv'
<1>1. /\ rst => phase = "BUS_FREE"
      /\ remaining > 1 => rst \/ phase \in {"DATA_IN", "DATA_OUT"}
  BY DEF IInv, FreeIsClean, ResetsWhenFree, RestIsData
<1>2. FreeIsClean'
  BY KeepsClean DEF IInv, Next
<1>3. RestIsData'
  <2>1. CASE \E m \in Message : ReceiveMessage(m)
    <3>1. remaining' \in {0, 1}
      BY <2>1 DEF ReceiveMessage
    <3>2. QED
      BY <3>1 DEF RestIsData
  <2>2. CASE \E i \in Initiator \cup {UNKNOWN} : Select(i)
    BY <1>1, <2>2 DEF Select, transfer, RestIsData
  <2>3. CASE ResetByInitiator \/ ResetAtSelection
    BY <2>3 DEF ResetByInitiator, ResetAtSelection, Reset, RestIsData
  <2>4. CASE Selection \/ Handshake \/ StatusSent \/ EndOfMessage
    BY <1>1, <2>4 DEF Selection, Handshake, StatusSent, EndOfMessage, connection, RestIsData
  <2>5. CASE HandshakeFails \/ CommandFails
    BY <2>5 DEF HandshakeFails, CommandFails, GiveUp, RestIsData
  <2>6. CASE UNCHANGED vars
    BY <1>1, <2>6 DEF vars, connection, transfer, RestIsData
  <2>7. QED
    BY <2>1, <2>2, <2>3, <2>4, <2>5, <2>6
<1>4. DataHasDevice'
  <2>1. CASE Handshake \/ UNCHANGED vars
    BY <2>1
    DEF Handshake, vars, connection, command, transfer, IInv, DataHasDevice, EffectiveLun
  <2>2. CASE ~(Handshake \/ UNCHANGED vars)
    <3>1. phase' \notin {"DATA_IN", "DATA_OUT"}
      <4>1. CASE \E m \in Message : ReceiveMessage(m)
        BY <4>1 DEF ReceiveMessage
      <4>2. QED
        BY <2>2, <4>1
        DEF Select, ResetByInitiator, ResetAtSelection, Reset, Selection, HandshakeFails,
            CommandFails, GiveUp, ToBusFree, StatusSent, EndOfMessage
    <3>2. QED
      BY <3>1 DEF DataHasDevice
  <2>3. QED
    BY <2>1, <2>2
<1>5. SenseKept'
  <2>1. CASE HandshakeFails \/ CommandFails
    BY <2>1, NothingRaised DEF HandshakeFails, CommandFails
  <2>2. CASE UNCHANGED <<raised, deferred, sense>>
    BY <2>2 DEF IInv, SenseKept
  <2>3. CASE \E m \in Message : ReceiveMessage(m)
    BY <2>2, <2>3 DEF ReceiveMessage
  <2>4. QED
    BY <2>1, <2>2, <2>3
    DEF Select, ResetByInitiator, ResetAtSelection, Reset, Selection, Handshake, StatusSent,
        EndOfMessage, vars, command, devices
<1>6. QED
  BY <1>2, <1>3, <1>4, <1>5 DEF IInv

\* Commands.
LEMMA CommandKeepsIInv ==
  ASSUME IInv, ~LateReset, UnknownCommand \/ \E c \in Cdb : Execute(c)
  PROVE  RestIsData' /\ DataHasDevice' /\ SenseKept'
<1>1. /\ phase = "COMMAND" /\ ~rst
      /\ TypeOK /\ remaining <= 1
  <2>1. phase = "COMMAND"
    BY DEF UnknownCommand, Execute, FlagWithoutLink, ProvideSenseData, NoSuchLun,
           ReservationConflict, DeviceFails, DeviceWorks, Reserve, RequestSense, SenseOfMissingLun,
           SenseDuringReset, Dispatched, Starts, Accept
  <2>2. TypeOK /\ (rst => phase = "BUS_FREE") /\ RestIsData
    BY DEF IInv, FreeIsClean, ResetsWhenFree
  <2>3. remaining \in 0..MaxChunks /\ MaxChunks \in Nat
    BY <2>2, ControllerAssumption DEF TypeOK
  <2>4. QED
    BY <2>1, <2>2, <2>3 DEF RestIsData
<1>2. CASE UnknownCommand
  <2>1. /\ ErrorFor("ILLEGAL_REQUEST", EffectiveLun(cdb), sense, "CHECK_CONDITION", NoLun)
        /\ sense \in [Lun -> Sense] /\ deferred' = "ILLEGAL_REQUEST" /\ UNCHANGED rst
    BY <1>1, <1>2 DEF UnknownCommand, RaiseDeferredError, TypeOK
  <2>2. /\ phase' = "STATUS" /\ remaining' = 1
        /\ raised' = [sense |-> "ILLEGAL_REQUEST", lun |-> NoLun]
    BY <2>1, ErrorForSettled
  <2>3. QED
    BY <1>1, <2>1, <2>2, NoLunIsNone
    DEF RestIsData, DataHasDevice, SenseKept, AnyLun
<1>3. CASE \E c \in Cdb : Execute(c)
  <2>1. PICK c \in Cdb : Execute(c)
    BY <1>3
  <2>2. /\ phase' \in {"STATUS", "MSG_IN", "DATA_IN", "DATA_OUT"}
        /\ remaining' > 1 => phase' \in {"DATA_IN", "DATA_OUT"}
        /\ UNCHANGED rst
    BY <1>1, <2>1, ExecutePhases
  <2>3. DataHasDevice' /\ SenseKept'
    BY <1>1, <2>1, ExecuteHasDevice, ExecuteKeepsSense
  <2>4. QED
    BY <1>1, <2>2, <2>3 DEF RestIsData
<1>4. QED
  BY <1>2, <1>3

\* Data.
LEMMA DataKeepsIInv ==
  ASSUME IInv, ~LateReset, DataIn \/ DataOut
  PROVE  RestIsData' /\ DataHasDevice' /\ SenseKept'
<1>1. /\ TypeOK /\ SenseKept /\ DataHasDevice
      /\ phase \in {"DATA_IN", "DATA_OUT"} /\ ~rst
      /\ deferred = "NO_SENSE"
      /\ phase = "DATA_OUT" \/ remaining > 1 => EffectiveLun(cdb) \in Lun
  BY DEF IInv, DataIn, DataOut, FreeIsClean, ResetsWhenFree, DataHasDevice
<1>2. sense \in [Lun -> Sense] /\ cdb \in CdbType /\ EffectiveLun(cdb) \in AnyLun
  BY <1>1, EffectiveLunType DEF TypeOK
<1>3. remaining \in 0..MaxChunks /\ MaxChunks \in Nat
  BY <1>1, ControllerAssumption DEF TypeOK
<1>4. UNCHANGED <<rst, deferred, cdb>>
  BY DEF DataIn, DataOut
<1>5. CASE /\ remaining > 1 /\ remaining' = remaining - 1
           /\ UNCHANGED <<phase, identified_lun, sense, raised>>
  <2>1. EffectiveLun(cdb)' = EffectiveLun(cdb)
    BY <1>4, <1>5 DEF EffectiveLun
  <2>2. RestIsData'
    BY <1>1, <1>4, <1>5 DEF RestIsData
  <2>3. DataHasDevice'
    BY <1>1, <1>4, <1>5, <2>1 DEF DataHasDevice
  <2>4. SenseKept'
    BY <1>1, <1>4, <1>5 DEF SenseKept
  <2>5. QED
    BY <2>2, <2>3, <2>4
<1>6. CASE \E s \in {"NOT_READY", "MEDIUM_ERROR"} :
             Error(s, EffectiveLun(cdb), sense) /\ EffectiveLun(cdb) \in Lun
  <2>1. PICK s \in {"NOT_READY", "MEDIUM_ERROR"} : Error(s, EffectiveLun(cdb), sense)
    BY <1>6
  <2>2. EffectiveLun(cdb) \in Lun
    BY <1>6
  <2>3. s \in Sense /\ s # "LOGICAL_UNIT_NOT_SUPPORTED"
    BY Values
  <2>4. phase' = "STATUS" /\ remaining' = 1
    BY <1>2, <2>1, ErrorForSettled DEF Error
  <2>5. SenseKept'
    BY <1>1, <1>2, <1>4, <2>1, <2>2, <2>3, ErrorKept
  <2>6. QED
    BY <1>1, <1>4, <2>4, <2>5
    DEF RestIsData, DataHasDevice
<1>7. CASE ToStatus(status) /\ UNCHANGED <<sense, raised>>
  <2>1. phase' = "STATUS" /\ remaining' = 1
    BY <1>7 DEF ToStatus
  <2>2. SenseKept'
    BY <1>1, <1>4, <1>7 DEF SenseKept
  <2>3. QED
    BY <1>1, <1>4, <2>1, <2>2
    DEF RestIsData, DataHasDevice
<1>8. QED
  BY <1>1, <1>5, <1>6, <1>7 DEF DataIn, DataOut

\* The invariant is inductive as long as no reset comes late.
LEMMA KeepsIInv ==
  ASSUME ~LateReset, IInv, [Next]_vars
  PROVE  IInv'
<1>1. TypeOK'
  BY StepTypes DEF IInv
<1>0. FreeIsClean'
  BY KeepsClean DEF IInv
<1>2. CASE UnknownCommand \/ \E c \in Cdb : Execute(c)
  BY <1>0, <1>1, <1>2, CommandKeepsIInv DEF IInv
<1>3. CASE DataIn \/ DataOut
  BY <1>0, <1>1, <1>3, DataKeepsIInv DEF IInv
<1>4. CASE ~(UnknownCommand \/ (\E c \in Cdb : Execute(c)) \/ DataIn \/ DataOut)
  BY <1>1, <1>4, ConnectionKeepsIInv DEF Next
<1>5. QED
  BY <1>2, <1>3, <1>4

\* The invariant holds at the start.
LEMMA InitIInv == Init => IInv
<1> SUFFICES ASSUME Init PROVE IInv
  OBVIOUS
<1>1. TypeOK
  BY InitTypes
<1>2. FreeIsClean /\ RestIsData /\ DataHasDevice /\ SenseKept
  BY InitClean DEF Init, RestIsData, DataHasDevice, SenseKept, NoError
<1>3. QED
  BY <1>1, <1>2 DEF IInv

\* The step in which REQUEST SENSE right after a failed command enters DATA IN.
LEMMA ReportsRaised ==
  ASSUME ~LateReset, IInv, NEW c \in Cdb, Execute(c), phase' = "DATA_IN",
         cdb'.op = "REQUEST_SENSE", raised.sense # "NO_SENSE",
         raised.lun \in {NoLun, EffectiveLun(cdb')}
  PROVE  buffer' = raised.sense
<1>1. /\ TypeOK /\ SenseKept
      /\ c \in CdbType /\ EffectiveLun(c) \in AnyLun
  BY ControllerAssumption, EffectiveLunType DEF IInv
<1>2. ~(FlagWithoutLink(c) \/ NoSuchLun(c) \/ ReservationConflict(c) \/ DeviceFails(c))
  BY ErrorForPhase
  DEF FlagWithoutLink, RaiseDeferredError, NoSuchLun, ReservationConflict, DeviceFails, Error
<1>3. cdb' = c
  BY DEF Execute, FlagWithoutLink, ProvideSenseData, NoSuchLun, ReservationConflict, DeviceFails,
         DeviceWorks, Reserve, RequestSense, SenseOfMissingLun, SenseDuringReset, Dispatched,
         Starts, Accept
<1>4. ProvideSenseData(c) \/ RequestSense(c) \/ SenseOfMissingLun(c)
  BY <1>2, <1>3 DEF Execute, DeviceWorks, Reserve, SenseDuringReset
<1>5. CASE ProvideSenseData(c)
  <2>1. deferred # "NO_SENSE" /\ buffer' = deferred
    BY <1>5 DEF ProvideSenseData, ToData
  <2>2. QED
    BY <1>1, <2>1 DEF SenseKept
<1>6. CASE RequestSense(c) \/ SenseOfMissingLun(c)
  <2>1. deferred = "NO_SENSE"
    BY <1>3, <1>6 DEF RequestSense, SenseOfMissingLun, Dispatched, Starts
  <2>2. raised.lun = EffectiveLun(c)
    BY <1>1, <1>3, <2>1 DEF SenseKept
  <2>3. CASE RequestSense(c)
    <3>1. EffectiveLun(c) \in Lun /\ sense[EffectiveLun(c)] = raised.sense
      BY <1>1, <2>2, <2>3, NoLunIsNone DEF RequestSense, SenseKept
    <3>2. buffer' = sense[EffectiveLun(c)]
      <4>1. ~Error("NOT_READY", EffectiveLun(c), sense)
        BY ErrorForPhase DEF Error
      <4>2. QED
        BY <2>3, <4>1 DEF RequestSense, ToStatus, ToData
    <3>3. QED
      BY <3>1, <3>2
  <2>4. CASE SenseOfMissingLun(c)
    <3>1. EffectiveLun(c) \in AnyLun \ Lun /\ buffer' = "LOGICAL_UNIT_NOT_SUPPORTED"
      BY <1>1, <2>4 DEF SenseOfMissingLun, ToData
    <3>2. QED
      BY <1>1, <2>2, <3>1 DEF SenseKept
  <2>5. QED
    BY <1>6, <2>3, <2>4
<1>7. QED
  BY <1>4, <1>5, <1>6

\* REQUEST SENSE right after a command that failed reports why, for the LUN concerned,
\* whoever rejected the command, unless a reset hits Error() itself.
THEOREM SenseReported ==
  ASSUME ~LateReset
  PROVE  Spec => SenseMatches
<1>1. Init => IInv
  BY InitIInv
<1>2. IInv /\ [Next]_vars => IInv'
  BY KeepsIInv
<1>3. IInv /\ [Next]_vars =>
        [phase = "COMMAND" /\ phase' = "DATA_IN" /\ cdb'.op = "REQUEST_SENSE"
         /\ raised.sense # "NO_SENSE" /\ raised.lun \in {NoLun, EffectiveLun(cdb')}
           => buffer' = raised.sense]_vars
  <2> SUFFICES ASSUME IInv, Next, phase = "COMMAND", phase' = "DATA_IN", cdb'.op = "REQUEST_SENSE",
                      raised.sense # "NO_SENSE", raised.lun \in {NoLun, EffectiveLun(cdb')}
               PROVE  buffer' = raised.sense
    OBVIOUS
  <2>1. \E c \in Cdb : Execute(c)
    <3>1. ~UnknownCommand
      BY ErrorForPhase DEF UnknownCommand, RaiseDeferredError
    <3>2. QED
      BY <3>1
      DEF Next, Select, ResetByInitiator, ResetAtSelection, Reset, Selection, Handshake,
          HandshakeFails, ReceiveMessage, CommandFails, GiveUp, ToBusFree, DataIn, DataOut,
          StatusSent, EndOfMessage
  <2>2. QED
    BY <2>1, ReportsRaised
<1>4. QED
  BY <1>1, <1>2, <1>3, PTL DEF Spec, SenseMatches

-------------------------------------------------------------------------------
(* The controller keeps the protocol of TargetProtocol, resets of any kind   *)
(* included, as long as nobody asks a missing LUN for no sense data at all:  *)
(* that command is answered by a completion message without a status byte.   *)

SenseIsAskedFor == MissingLun = {} \/ \A c \in Cdb : c.op = "REQUEST_SENSE" => c.len # 0

\* A target asserts RST only with the connection broken.
BrokenByRst == rst => phase = "BUS_FREE" /\ cut

\* A message is pending in the message phase only, and data phases are not those of a
\* command the controller rejected.
LinkKnown ==
  /\ atn_msg => phase = "MSG_OUT"
  /\ phase \in {"DATA_IN", "DATA_OUT"} => raised # RejectedByController

\* A command that ended without an error was not rejected by the controller.
LEMMA NotRejected == NoError # RejectedByController
BY DEF NoError, RejectedByController

\* A command that fails is answered, or ends with a reset.
LEMMA ErrorInCommand ==
  ASSUME phase = "COMMAND",
         NEW s, NEW l, NEW base, NEW st, NEW for, ErrorFor(s, l, base, st, for),
         linked' => for # NoLun \/ st # "CHECK_CONDITION"
  PROVE  Protocol!Answer \/ Protocol!Break
<1>1. CASE ToBusFree /\ cut' = TRUE
  BY <1>1 DEF ToBusFree, Protocol!Break, Link, LinkLeft
<1>2. CASE /\ ToStatus(st)
           /\ raised' = IF st = "CHECK_CONDITION" THEN [sense |-> s, lun |-> for] ELSE NoError
  <2>1. linked' => raised' # RejectedByController
    BY <1>2, NotRejected DEF RejectedByController
  <2>2. ~linked \/ LinkLeft
    BY DEF LinkLeft
  <2>3. Link' = IF linked' THEN "asked" ELSE "none"
    BY <1>2, <2>1 DEF Link, LinkLeft, ToStatus
  <2>4. QED
    BY <1>2, <2>3 DEF ToStatus, Protocol!Answer, Protocol!Decode
<1>3. QED
  BY <1>1, <1>2 DEF ErrorFor

\* The same in a data phase.
LEMMA ErrorInData ==
  ASSUME phase \in {"DATA_IN", "DATA_OUT"}, UNCHANGED linked,
         NEW s, NEW l, NEW base, NEW st, NEW for, ErrorFor(s, l, base, st, for), for # NoLun
  PROVE  Protocol!Answer \/ Protocol!Break
<1>0. Link = IF linked THEN "asked" ELSE "none"
  BY DEF Link, LinkLeft
<1>1. CASE ToBusFree /\ cut' = TRUE
  <2>1. Link' = IF linked THEN "left" ELSE "none"
    BY <1>1 DEF ToBusFree, Link, LinkLeft
  <2>2. QED
    BY <1>0, <1>1, <2>1 DEF ToBusFree, Protocol!Break
<1>2. CASE /\ ToStatus(st)
           /\ raised' = IF st = "CHECK_CONDITION" THEN [sense |-> s, lun |-> for] ELSE NoError
  <2>1. raised' # RejectedByController
    BY <1>2, NotRejected DEF RejectedByController
  <2>2. Link' = IF linked THEN "asked" ELSE "none"
    BY <1>2, <2>1 DEF Link, LinkLeft, ToStatus
  <2>3. QED
    BY <1>0, <1>2, <2>2 DEF ToStatus, Protocol!Answer
<1>3. QED
  BY <1>1, <1>2 DEF ErrorFor

\* Going to the status phase is an answer of the protocol.
LEMMA StatusAnswers ==
  ASSUME \/ phase = "COMMAND"
         \/ phase \in {"DATA_IN", "DATA_OUT"} /\ UNCHANGED linked,
         phase' = "STATUS" /\ current' = TRUE /\ bsy' \in {bsy, FALSE},
         phase # "COMMAND" => UNCHANGED bsy,
         raised' # RejectedByController
  PROVE  Protocol!Answer
<1>1. Link' = IF linked' THEN "asked" ELSE "none"
  BY DEF Link, LinkLeft
<1>2. CASE phase = "COMMAND"
  BY <1>1, <1>2 DEF Protocol!Answer, Protocol!Decode
<1>3. CASE phase \in {"DATA_IN", "DATA_OUT"}
  <2>1. Link' = Link /\ UNCHANGED <<linked, bsy>>
    BY <1>1, <1>3 DEF Link, LinkLeft
  <2>2. (phase' \in {"STATUS", "MSG_IN"} /\ linked' /\ status' = "GOOD") \in {FALSE, Link' = "asked"}
    BY <1>1
  <2>3. QED
    BY <1>3, <2>1, <2>2 DEF Protocol!Answer
<1>4. QED
  BY <1>2, <1>3

\* Going to a data phase is a transfer of the protocol.
LEMMA DataTransfers ==
  ASSUME phase = "COMMAND", phase' \in {"DATA_IN", "DATA_OUT"}, bsy' \in {bsy, FALSE}
  PROVE  Protocol!Transfer
<1>1. Link' \in {"none", "asked"}
  BY DEF Link, LinkLeft
<1>2. QED
  BY <1>1 DEF Protocol!Transfer, Protocol!Decode

\* A command is answered, goes on with data or ends with a reset.
LEMMA ExecuteKeepsProtocol ==
  ASSUME TypeOK, SenseIsAskedFor, NEW c \in Cdb, Execute(c)
  PROVE  Protocol!Answer \/ Protocol!Transfer \/ Protocol!Break
<1>1. phase = "COMMAND" /\ c \in CdbType /\ EffectiveLun(c) \in AnyLun /\ EffectiveLun(c) # NoLun
  <2>1. c \in CdbType
    BY ControllerAssumption
  <2>2. EffectiveLun(c) \in AnyLun /\ EffectiveLun(c) # NoLun
    BY <2>1, EffectiveLunType, NoLunIsNone
  <2>3. QED
    BY <2>1, <2>2
    DEF Execute, FlagWithoutLink, ProvideSenseData, NoSuchLun, ReservationConflict, DeviceFails,
        DeviceWorks, Reserve, RequestSense, SenseOfMissingLun, SenseDuringReset, Dispatched, Starts,
        Accept
<1>2. CASE FlagWithoutLink(c)
  <2>1. ~linked'
    BY <1>2, ControllerAssumption DEF FlagWithoutLink, BadFlag, Accept, CdbType
  <2>2. QED
    BY <1>1, <1>2, <2>1, ErrorInCommand DEF FlagWithoutLink, RaiseDeferredError
<1>3. CASE NoSuchLun(c) \/ DeviceFails(c)
  BY <1>1, <1>3, ErrorInCommand DEF NoSuchLun, DeviceFails, Error
<1>4. CASE ReservationConflict(c)
  BY <1>1, <1>4, ErrorInCommand DEF ReservationConflict
<1>5. CASE ProvideSenseData(c)
  BY <1>1, <1>5, DataTransfers DEF ProvideSenseData, ToData
<1>6. CASE DeviceWorks(c) \/ Reserve(c)
  <2>1. raised' # RejectedByController
    BY <1>6, NotRejected DEF DeviceWorks, Reserve, Done
  <2>2. \/ phase' = "STATUS" /\ current' = TRUE /\ UNCHANGED bsy
        \/ phase' \in {"DATA_IN", "DATA_OUT"} /\ UNCHANGED bsy
    BY <1>6 DEF DeviceWorks, Reserve, Done, ToStatus, ToData
  <2>3. QED
    BY <1>1, <2>1, <2>2, StatusAnswers, DataTransfers
<1>7. CASE RequestSense(c)
  <2>1. CASE Error("NOT_READY", EffectiveLun(c), sense)
    BY <1>1, <2>1, ErrorInCommand DEF Error
  <2>2. CASE ~Error("NOT_READY", EffectiveLun(c), sense)
    <3>1. raised' = NoError /\ UNCHANGED bsy
      BY <1>7, <2>2 DEF RequestSense, ToStatus, ToData
    <3>2. (phase' = "STATUS" /\ current' = TRUE) \/ phase' = "DATA_IN"
      BY <1>7, <2>2 DEF RequestSense, ToStatus, ToData
    <3>3. QED
      BY <1>1, <3>1, <3>2, NotRejected, StatusAnswers, DataTransfers
  <2>3. QED
    BY <2>1, <2>2
<1>8. CASE SenseOfMissingLun(c)
  <2>1. c.len # 0
    BY <1>1, <1>8 DEF SenseOfMissingLun, SenseIsAskedFor, AnyLun
  <2>2. QED
    BY <1>1, <1>8, <2>1, DataTransfers DEF SenseOfMissingLun, ToData
<1>9. CASE SenseDuringReset(c)
  <2>1. /\ current' = TRUE /\ phase' \in {"STATUS", "DATA_IN"}
        /\ bsy' = FALSE /\ raised' = NoError
    BY <1>9 DEF SenseDuringReset
  <2>2. QED
    BY <1>1, <2>1, NotRejected, StatusAnswers, DataTransfers
<1>10. QED
  BY <1>2, <1>3, <1>4, <1>5, <1>6, <1>7, <1>8, <1>9 DEF Execute

\* A protocol that a reset has broken stays broken.
LEMMA KeepsBrokenByRst ==
  ASSUME BrokenByRst, [Next]_vars
  PROVE  BrokenByRst'
<1>1. CASE HandshakeFails \/ CommandFails
  BY <1>1 DEF HandshakeFails, CommandFails, GiveUp, ToBusFree, BrokenByRst
<1>2. CASE ResetByInitiator \/ ResetAtSelection
  BY <1>2 DEF ResetByInitiator, ResetAtSelection, Reset, BrokenByRst
<1>3. CASE UNCHANGED vars
  BY <1>3 DEF vars, connection, BrokenByRst
<1>4. CASE ~rst /\ UNCHANGED rst
  BY <1>4 DEF BrokenByRst
<1>5. CASE UnknownCommand \/ \E c \in Cdb : Execute(c)
  <2>1. ASSUME NEW c \in Cdb, Execute(c)
        PROVE  phase = "COMMAND" /\ UNCHANGED rst
    <3>1. CASE \/ FlagWithoutLink(c) \/ NoSuchLun(c) \/ ReservationConflict(c) \/ DeviceFails(c)
               \/ ProvideSenseData(c)
      BY <3>1
      DEF FlagWithoutLink, RaiseDeferredError, ProvideSenseData, NoSuchLun, ReservationConflict,
          DeviceFails, Dispatched, Starts, Accept
    <3>2. CASE \/ DeviceWorks(c) \/ Reserve(c) \/ RequestSense(c) \/ SenseOfMissingLun(c)
               \/ SenseDuringReset(c)
      BY <3>2
      DEF DeviceWorks, Reserve, RequestSense, SenseOfMissingLun, SenseDuringReset, Dispatched,
          Starts, Accept
    <3>3. QED
      BY <2>1, <3>1, <3>2 DEF Execute
  <2>2. CASE UnknownCommand
    BY <1>4, <2>2 DEF UnknownCommand, RaiseDeferredError, BrokenByRst
  <2>3. QED
    BY <1>4, <1>5, <2>1, <2>2 DEF BrokenByRst
<1>6. CASE \E m \in Message : ReceiveMessage(m)
  BY <1>4, <1>6 DEF ReceiveMessage, BrokenByRst
<1>7. QED
  BY <1>1, <1>2, <1>3, <1>4, <1>5, <1>6
  DEF Next, Select, Selection, Handshake, DataIn, DataOut, StatusSent, EndOfMessage, BrokenByRst

\* Where a message may be pending, and what data phases are not.
LEMMA KeepsLinkKnown ==
  ASSUME TypeOK, LinkKnown, [Next]_vars
  PROVE  LinkKnown'
<1>1. CASE \E i \in Initiator \cup {UNKNOWN} : Select(i)
  BY <1>1 DEF Select, LinkKnown
<1>2. CASE ResetByInitiator \/ ResetAtSelection
  BY <1>2 DEF ResetByInitiator, ResetAtSelection, Reset, LinkKnown
<1>3. CASE HandshakeFails \/ CommandFails
  BY <1>3 DEF HandshakeFails, CommandFails, GiveUp, ToBusFree, LinkKnown
<1>4. CASE Selection \/ Handshake \/ StatusSent
  BY <1>4 DEF Selection, Handshake, StatusSent, connection, LinkKnown
<1>5. ASSUME NEW m \in Message, ReceiveMessage(m)
      PROVE  LinkKnown'
  <2>1. \/ UNCHANGED phase
        \/ phase' = "COMMAND" /\ atn_msg' = FALSE
    BY <1>5 DEF ReceiveMessage
  <2>2. phase = "MSG_OUT"
    BY <1>5 DEF ReceiveMessage
  <2>3. QED
    BY <2>1, <2>2 DEF LinkKnown
<1>6. CASE UnknownCommand
  <2>1. ~atn_msg /\ ErrorFor("ILLEGAL_REQUEST", EffectiveLun(cdb), sense, "CHECK_CONDITION", NoLun)
    BY <1>6 DEF UnknownCommand, RaiseDeferredError, LinkKnown
  <2>2. ~atn_msg' /\ phase' \in {"STATUS", "BUS_FREE"}
    BY <2>1 DEF ErrorFor, ToBusFree, ToStatus
  <2>3. QED
    BY <2>2 DEF LinkKnown
<1>7. ASSUME NEW c \in Cdb, Execute(c)
      PROVE  LinkKnown'
  <2>1. phase = "COMMAND"
    BY <1>7 DEF Execute, FlagWithoutLink, ProvideSenseData, NoSuchLun,
           ReservationConflict, DeviceFails, DeviceWorks, Reserve, RequestSense, SenseOfMissingLun,
           SenseDuringReset, Dispatched, Starts, Accept
  <2>2. ~atn_msg
    BY <2>1 DEF LinkKnown
  <2>3. ASSUME NEW s, NEW l, NEW base, NEW st, NEW for, ErrorFor(s, l, base, st, for)
        PROVE  LinkKnown'
    <3>1. ~atn_msg' /\ phase' \in {"STATUS", "BUS_FREE"}
      BY <2>2, <2>3 DEF ErrorFor, ToBusFree, ToStatus
    <3>2. QED
      BY <3>1 DEF LinkKnown
  <2>4. CASE FlagWithoutLink(c) \/ NoSuchLun(c) \/ ReservationConflict(c) \/ DeviceFails(c)
    BY <2>3, <2>4
    DEF FlagWithoutLink, RaiseDeferredError, NoSuchLun, ReservationConflict, DeviceFails, Error
  <2>5. CASE raised' = NoError /\ ~atn_msg'
    BY <2>5, NotRejected DEF LinkKnown
  <2>6. CASE ProvideSenseData(c) \/ DeviceWorks(c) \/ Reserve(c)
    BY <2>2, <2>5, <2>6 DEF ProvideSenseData, DeviceWorks, Reserve, Done, ToStatus, ToData
  <2>7. CASE RequestSense(c)
    BY <2>2, <2>3, <2>5, <2>7 DEF RequestSense, Error, ToStatus, ToData
  <2>8. CASE SenseOfMissingLun(c) \/ SenseDuringReset(c)
    BY <2>2, <2>5, <2>8 DEF SenseOfMissingLun, SenseDuringReset, ToData
  <2>9. QED
    BY <1>7, <2>4, <2>6, <2>7, <2>8 DEF Execute
<1>8. CASE DataIn \/ DataOut
  <2>1. ~atn_msg
    BY <1>8 DEF DataIn, DataOut, LinkKnown
  <2>2. \/ UNCHANGED <<phase, atn_msg, raised>>
        \/ \E s \in {"NOT_READY", "MEDIUM_ERROR"} : Error(s, EffectiveLun(cdb), sense)
        \/ ToStatus(status)
    BY <1>8 DEF DataIn, DataOut
  <2>3. CASE UNCHANGED <<phase, atn_msg, raised>>
    BY <2>3 DEF LinkKnown
  <2>4. CASE (\E s \in {"NOT_READY", "MEDIUM_ERROR"} : Error(s, EffectiveLun(cdb), sense)) \/ ToStatus(status)
    <3>1. ~atn_msg' /\ phase' \in {"STATUS", "BUS_FREE"}
      BY <2>1, <2>4 DEF Error, ErrorFor, ToBusFree, ToStatus
    <3>2. QED
      BY <3>1 DEF LinkKnown
  <2>5. QED
    BY <2>2, <2>3, <2>4
<1>9. CASE EndOfMessage
  BY <1>9 DEF EndOfMessage, ToBusFree, LinkKnown
<1>10. CASE UNCHANGED vars
  BY <1>10 DEF vars, connection, LinkKnown
<1>11. QED
  BY <1>1, <1>2, <1>3, <1>4, <1>5, <1>6, <1>7, <1>8, <1>9, <1>10 DEF Next

\* Every step of the controller is a step of the protocol, or none.
LEMMA StepKeepsProtocol ==
  ASSUME TypeOK, BrokenByRst, LinkKnown, SenseIsAskedFor, [Next]_vars
  PROVE  [Protocol!ProtocolNext]_(Protocol!pvars)
<1>1. CASE \E i \in Initiator \cup {UNKNOWN} : Select(i)
  <2>1. /\ phase = "BUS_FREE" /\ phase' = "SELECTION" /\ bsy' = TRUE
        /\ UNCHANGED linked
    BY <1>1 DEF Select, command
  <2>2. Link' = Link
    BY <2>1 DEF Link, LinkLeft
  <2>3. Protocol!Connect
    BY <2>1, <2>2 DEF Protocol!Connect
  <2>4. QED
    BY <2>3 DEF Protocol!ProtocolNext
<1>2. CASE ResetByInitiator \/ ResetAtSelection \/ HandshakeFails \/ CommandFails
  <2>1. phase # "BUS_FREE" \/ cut
    BY <1>2
    DEF ResetByInitiator, ResetAtSelection, HandshakeFails, CommandFails, BrokenByRst
  <2>2. phase' = "BUS_FREE" /\ cut' = TRUE /\ bsy' = FALSE /\ (linked' = FALSE \/ UNCHANGED linked)
    BY <1>2
    DEF ResetByInitiator, ResetAtSelection, Reset, HandshakeFails, CommandFails, GiveUp, ToBusFree
  <2>3. phase \in Phase /\ linked \in BOOLEAN
    BY DEF TypeOK
  <2>4. Link' = "none" \/ (Link' = "left" /\ Link # "none")
    BY <2>2, <2>3 DEF Link, LinkLeft
  <2>5. Protocol!Break
    BY <2>1, <2>2, <2>3, <2>4 DEF Phase, Protocol!Break
  <2>6. QED
    BY <2>5 DEF Protocol!ProtocolNext
<1>3. CASE Selection \/ \E m \in Message : ReceiveMessage(m)
  <2>1. /\ phase \in {"SELECTION", "MSG_OUT"} /\ phase' \in {"MSG_OUT", "COMMAND"}
        /\ UNCHANGED linked /\ bsy' \in {bsy, FALSE}
        /\ phase' = "MSG_OUT" => UNCHANGED bsy
    <3>1. CASE Selection
      BY <3>1 DEF Selection, command
    <3>2. ASSUME NEW m \in Message, ReceiveMessage(m)
          PROVE  /\ phase = "MSG_OUT" /\ phase' \in {"MSG_OUT", "COMMAND"}
                 /\ UNCHANGED linked /\ bsy' \in {bsy, FALSE}
                 /\ phase' = "MSG_OUT" => UNCHANGED bsy
      BY <3>2 DEF ReceiveMessage
    <3>3. QED
      BY <1>3, <3>1, <3>2
  <2>2. Link' = Link
    BY <2>1 DEF Link, LinkLeft
  <2>3. Protocol!ExpectCommand \/ UNCHANGED Protocol!pvars
    BY <2>1, <2>2 DEF Protocol!ExpectCommand, Protocol!pvars
  <2>4. QED
    BY <2>3 DEF Protocol!ProtocolNext
<1>4. CASE Handshake
  <2>1. UNCHANGED <<phase, linked, raised, status, bsy, cut>> /\ current /\ current' = FALSE
    BY <1>4 DEF Handshake, connection, command
  <2>2. Link' = Link
    BY <2>1 DEF Link, LinkLeft
  <2>3. Protocol!SendStatus \/ UNCHANGED Protocol!pvars
    BY <2>1, <2>2 DEF Protocol!SendStatus, Protocol!pvars
  <2>4. QED
    BY <2>3 DEF Protocol!ProtocolNext
<1>5. CASE UnknownCommand
  <2>1. /\ phase = "COMMAND" /\ UNCHANGED linked
        /\ ErrorFor("ILLEGAL_REQUEST", EffectiveLun(cdb), sense, "CHECK_CONDITION", NoLun)
    BY <1>5 DEF UnknownCommand, RaiseDeferredError
  <2>2. Link = IF linked THEN "left" ELSE "none"
    BY <2>1 DEF Link, LinkLeft
  <2>3. CASE ToBusFree /\ cut' = TRUE
    <3>1. Link' = Link
      BY <2>1, <2>2, <2>3 DEF ToBusFree, Link, LinkLeft
    <3>2. Protocol!Break
      BY <2>1, <2>2, <2>3, <3>1 DEF ToBusFree, Protocol!Break
    <3>3. QED
      BY <3>2 DEF Protocol!ProtocolNext
  <2>4. CASE ToStatus("CHECK_CONDITION") /\ raised' = RejectedByController
    <3>1. Link' = Link
      BY <2>1, <2>2, <2>4 DEF ToStatus, Link, LinkLeft
    <3>2. Protocol!Reject
      BY <2>1, <2>4, <3>1 DEF ToStatus, Protocol!Reject
    <3>3. QED
      BY <3>2 DEF Protocol!ProtocolNext
  <2>5. QED
    BY <2>1, <2>3, <2>4 DEF ErrorFor, RejectedByController
<1>6. CASE \E c \in Cdb : Execute(c)
  BY <1>6, ExecuteKeepsProtocol DEF Protocol!ProtocolNext
<1>7. CASE DataIn \/ DataOut
  <2>1. phase \in {"DATA_IN", "DATA_OUT"} /\ UNCHANGED linked /\ raised # RejectedByController
    BY <1>7 DEF DataIn, DataOut, LinkKnown
  <2>2. \/ UNCHANGED <<phase, bsy>>
        \/ \E s \in {"NOT_READY", "MEDIUM_ERROR"} : Error(s, EffectiveLun(cdb), sense)
        \/ ToStatus(status) /\ UNCHANGED raised
    BY <1>7 DEF DataIn, DataOut
  <2>3. CASE UNCHANGED <<phase, bsy>>
    <3>1. Link' = Link
      BY <2>1, <2>3 DEF Link, LinkLeft
    <3>2. UNCHANGED Protocol!pvars
      BY <2>1, <2>3, <3>1 DEF Protocol!pvars
    <3>3. QED
      BY <3>2
  <2>4. CASE \E s \in {"NOT_READY", "MEDIUM_ERROR"} : Error(s, EffectiveLun(cdb), sense)
    <3>1. EffectiveLun(cdb) # NoLun
      BY EffectiveLunType, NoLunIsNone DEF TypeOK
    <3>2. Protocol!Answer \/ Protocol!Break
      BY <2>1, <2>4, <3>1, ErrorInData DEF Error
    <3>3. QED
      BY <3>2 DEF Protocol!ProtocolNext
  <2>5. CASE ToStatus(status) /\ UNCHANGED raised
    <3>1. phase' = "STATUS" /\ current' = TRUE /\ UNCHANGED bsy
      BY <2>5 DEF ToStatus
    <3>2. Protocol!Answer
      BY <2>1, <2>5, <3>1, StatusAnswers
    <3>3. QED
      BY <3>2 DEF Protocol!ProtocolNext
  <2>6. QED
    BY <2>2, <2>3, <2>4, <2>5
<1>8. CASE StatusSent
  <2>1. /\ phase = "STATUS" /\ ~current /\ phase' = "MSG_IN"
        /\ UNCHANGED <<linked, raised, status, bsy, cut>>
    BY <1>8 DEF StatusSent, command
  <2>2. Link' = Link
    BY <2>1 DEF Link, LinkLeft
  <2>3. Protocol!Complete
    BY <2>1, <2>2 DEF Protocol!Complete
  <2>4. QED
    BY <2>3 DEF Protocol!ProtocolNext
<1>9. CASE EndOfMessage
  <2>1. phase = "MSG_IN" /\ ~atn_msg
    BY <1>9 DEF EndOfMessage, LinkKnown
  <2>2. CASE linked
    <3>1. phase' = "COMMAND" /\ linked' = FALSE /\ UNCHANGED bsy
      BY <1>9, <2>2 DEF EndOfMessage
    <3>2. Link # "none" /\ Link' = "none"
      BY <2>2, <3>1 DEF Link
    <3>3. Protocol!NextCommand
      BY <2>1, <3>1, <3>2 DEF Protocol!NextCommand
    <3>4. QED
      BY <3>3 DEF Protocol!ProtocolNext
  <2>3. CASE ~linked
    <3>1. phase' = "BUS_FREE" /\ cut' = FALSE /\ bsy' = FALSE /\ UNCHANGED linked
      BY <1>9, <2>1, <2>3 DEF EndOfMessage, ToBusFree
    <3>2. Link = "none" /\ Link' = "none"
      BY <2>3, <3>1 DEF Link
    <3>3. Protocol!Disconnect
      BY <2>1, <2>3, <3>1, <3>2 DEF Protocol!Disconnect
    <3>4. QED
      BY <3>3 DEF Protocol!ProtocolNext
  <2>4. QED
    BY <2>2, <2>3
<1>10. CASE UNCHANGED vars
  <2>1. UNCHANGED <<phase, linked, raised, status, bsy, cut, current>>
    BY <1>10 DEF vars, connection, command, transfer
  <2>2. Link' = Link
    BY <2>1 DEF Link, LinkLeft
  <2>3. QED
    BY <2>1, <2>2 DEF Protocol!pvars
<1>11. QED
  BY <1>1, <1>2, <1>3, <1>4, <1>5, <1>6, <1>7, <1>8, <1>9, <1>10 DEF Next

\* Every command is answered by one status byte and one completion message after it,
\* whatever fails and whoever asserts RST; a linked command is followed by a command, any
\* other only if a reset left a link; BSY is released where TargetProtocol says so.
THEOREM ProtocolKept ==
  ASSUME SenseIsAskedFor
  PROVE  Spec => KeepsProtocol
<1>1. Init => Protocol!ProtocolInit /\ BrokenByRst /\ LinkKnown
  BY DEF Init, Protocol!ProtocolInit, BrokenByRst, LinkKnown, Link
<1>2. BrokenByRst /\ [Next]_vars => BrokenByRst'
  BY KeepsBrokenByRst
<1>3. TypeOK /\ LinkKnown /\ [Next]_vars => LinkKnown'
  BY KeepsLinkKnown
<1>4. TypeOK /\ BrokenByRst /\ LinkKnown /\ [Next]_vars => [Protocol!ProtocolNext]_(Protocol!pvars)
  BY StepKeepsProtocol
<1>5. QED
  BY <1>1, <1>2, <1>3, <1>4, TypeCorrect, PTL DEF Spec, KeepsProtocol, Protocol!ProtocolSpec
===============================================================================
