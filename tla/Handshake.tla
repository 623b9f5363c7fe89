------------------------------- MODULE Handshake -------------------------------
(***************************************************************************)
(* A SCSI or SASI command on the wires: an initiator (s2pexec, s2pdump,    *)
(* s2pproto: cpp/initiator/initiator_executor.cpp) and a target            *)
(* (cpp/controllers/controller.cpp), byte by byte, through the handshakes  *)
(* of cpp/buses/bus.cpp.                                                   *)
(*                                                                         *)
(* Each side has its own board: it drives its own signals, and reads what  *)
(* either drives.  A step is what one side does between two looks at the   *)
(* bus; MSG, C/D and I/O change together.  A device may take any time to   *)
(* execute a command or a chunk of it, and the initiator may be killed, so *)
(* that the 3 s of a handshake, and the other timeouts, run out.           *)
(* Commands are not linked, and the only messages are IDENTIFY and COMMAND *)
(* COMPLETE; the whole of a target's phases is the subject of Controller.  *)
(***************************************************************************)
EXTENDS Naturals

CONSTANTS MaxCommands,   \* (bound) the commands of the initiator
          CdbLength,     \* the bytes of a CDB
          Total,         \* the bytes a command with a data phase transfers
          Chunk,         \* the bytes a device provides or takes at a time
          Length         \* the buffer sizes the initiator uses

ASSUME HandshakeAssumption ==
  /\ MaxCommands \in Nat /\ CdbLength \in Nat \ {0} /\ Total \in Nat \ {0} /\ Chunk \in Nat \ {0}
  /\ Length \subseteq Nat

VARIABLES tgt,       \* the signals the target drives
          ini,       \* the signals the initiator drives
          dat,       \* the byte on the data lines: its command, phase and index
          t,         \* the target: where it is, its command, bytes of the phase, a SEL edge
          i,         \* the initiator: where it is, and the members of InitiatorExecutor
          script,    \* the commands the initiator is going to execute
          sasi,      \* a SASI connection: no arbitration, no messages out
          moved,     \* data bytes of this command the receiver has stored
          inOrder    \* has every byte stored been the next one of its sender?

vars == <<tgt, ini, dat, t, i, script, sasi, moved, inOrder>>

None == 0   \* no command, no status (0xff)
Command == 1..MaxCommands
Phase == {"MSG_OUT", "COMMAND", "DATA_OUT", "DATA_IN", "STATUS", "MSG_IN"}
Released == [bsy |-> FALSE, req |-> FALSE, rst |-> FALSE, phase |-> "DATA_OUT"]
Silent == [bsy |-> FALSE, sel |-> FALSE, atn |-> FALSE, ack |-> FALSE, rst |-> FALSE]

Bsy == tgt.bsy \/ ini.bsy
Rst == tgt.rst \/ ini.rst

\* Bus::GetPhase()
GetPhase == IF ini.sel THEN "SELECTION" ELSE IF ~Bsy THEN "BUS_FREE" ELSE tgt.phase

ToTarget == {"MSG_OUT", "COMMAND", "DATA_OUT"}
Data == {"DATA_IN", "DATA_OUT"}

\* Has the call of CommandHandShake(), ReceiveHandShake() or SendHandShake() of the
\* target that handles byte number n of the phase reached its last byte?
LastOfCall(n) ==
  CASE tgt.phase = "COMMAND" -> n = CdbLength
    [] tgt.phase \in Data -> n = Total \/ n % Chunk = 0
    [] OTHER -> n = 1

FirstOfCall == t.n = 0 \/ (tgt.phase \in Data /\ t.n % Chunk = 0)

\* The bytes the initiator's call asks for.
Count == CASE i.phase = "COMMAND" -> CdbLength - i.offset
           [] i.phase \in Data -> i.length
           [] OTHER -> 1

-------------------------------------------------------------------------------
(* WaitSignal() and the other loops that wait: for what the other side does. *)

TargetWaits ==
  \/ t.at = "raise" /\ tgt.phase \notin ToTarget /\ ini.ack
  \/ t.at = "ack" /\ ~ini.ack
  \/ t.at = "noack" /\ ini.ack

\* Execute() sends no CDB byte when all have been sent.
NothingToSend == GetPhase = "COMMAND" /\ i.offset = CdbLength

InitiatorWaits ==
  \/ i.at = "free" /\ Bsy
  \/ i.at = "busy" /\ ~Bsy
  \/ i.at = "loop" /\ (tgt.req => NothingToSend)
  \/ i.at = "req" /\ ~tgt.req
  \/ i.at = "noreq" /\ tgt.req

\* The other side is not looking: a timeout may run out.
TargetAway == TargetWaits \/ t.at \in {"idle", "begin", "execute"}
InitiatorAway == InitiatorWaits \/ i.at = "idle"

TargetFailsNever == FALSE   \* (a mutation: the target waits for ever)
TargetFails == TargetWaits /\ (Rst \/ InitiatorAway)
InitiatorFails ==
  /\ InitiatorWaits
  /\ i.at = "loop" => ~tgt.req    \* Dispatch() starts the timeout anew
  /\ TargetAway \/ (Rst /\ i.at \in {"req", "noreq"})

-------------------------------------------------------------------------------
Init ==
  /\ tgt = Released
  /\ ini = Silent
  /\ dat = [cmd |-> None, phase |-> "COMMAND", index |-> 0]
  /\ t = [at |-> "idle", cmd |-> None, n |-> 0, edge |-> FALSE]
  /\ i = [at |-> "idle", cmd |-> None, phase |-> "COMMAND", done |-> 0,
          offset |-> 0, length |-> 0, status |-> None, buf |-> None]
  /\ script \in [Command -> [data : Data \cup {"STATUS"}, length : Length]]
  /\ sasi \in BOOLEAN
  /\ moved = 0
  /\ inOrder = TRUE

(* The target.  "idle" waits for an edge of SEL, "begin" for the execution lock. *)

TargetGoes(at) == t' = [t EXCEPT !.at = at]
TargetOnly == UNCHANGED <<ini, i, script, sasi>>

\* RpiBus::WaitForSelection(): the kernel keeps an edge that was not waited for.
WaitForSelection ==
  /\ t.at = "idle"
  /\ t.edge
  /\ t' = [t EXCEPT !.at = "notbusy", !.edge = FALSE]
  /\ UNCHANGED <<tgt, dat, moved, inOrder>> /\ TargetOnly

\* S2p::WaitForNotBusy(): the end of an arbitration (which the initiator does not delay)
WaitForNotBusy ==
  /\ t.at = "notbusy"
  /\ ~Bsy
  /\ TargetGoes("begin")
  /\ UNCHANGED <<tgt, dat, moved, inOrder>> /\ TargetOnly

\* Controller::Process() sees a reset: at the start, and before every call of a
\* phase but the COMMAND phase, which is entered without leaving Process().
Reset ==
  /\ Rst
  /\ \/ t.at \in {"begin", "selection"}
     \/ t.at \in {"raise", "execute"} /\ tgt.phase # "COMMAND" /\ (t.at = "raise" => FirstOfCall)
  /\ tgt' = Released
  /\ TargetGoes("idle")
  /\ UNCHANGED <<dat, moved, inOrder>> /\ TargetOnly

\* Controller::BusFree() and Selection(): the initiator may have gone by now.
Answer ==
  /\ t.at = "begin"
  /\ ~Rst
  /\ IF ini.sel /\ ~Bsy
       THEN tgt' = [tgt EXCEPT !.bsy = TRUE] /\ TargetGoes("selection")
       ELSE UNCHANGED tgt /\ TargetGoes("idle")
  /\ UNCHANGED <<dat, moved, inOrder>> /\ TargetOnly

Selected ==
  /\ t.at = "selection"
  /\ ~Rst
  /\ ~ini.sel
  /\ tgt' = [tgt EXCEPT !.phase = IF ini.atn THEN "MSG_OUT" ELSE "COMMAND"]
  /\ t' = [t EXCEPT !.at = "raise", !.n = 0]
  /\ UNCHANGED <<dat, moved, inOrder>> /\ TargetOnly

\* The phase that follows: ProcessMessage(), Execute(), DataOut(), Send(), Receive().
Following ==
  CASE tgt.phase = "MSG_OUT" -> "COMMAND"
    [] tgt.phase = "COMMAND" -> script[t.cmd].data
    [] tgt.phase \in Data -> IF t.n < Total THEN tgt.phase ELSE "STATUS"
    [] OTHER -> "MSG_IN"

\* The device has done its part of the command or of the transfer.
Proceed ==
  /\ t.at = "execute"
  /\ tgt.phase = "COMMAND" \/ ~Rst
  /\ IF tgt.phase = "MSG_IN"
       THEN tgt' = Released /\ TargetGoes("idle")
       ELSE /\ tgt' = [tgt EXCEPT !.phase = Following]
            /\ t' = [t EXCEPT !.at = "raise", !.n = IF Following = tgt.phase THEN @ ELSE 0]
  /\ UNCHANGED <<dat, moved, inOrder>> /\ TargetOnly

\* SetREQ(true): for bytes to the initiator after the ACK of the last one is gone.
RaiseAtOnce ==   \* (a mutation: REQ and the next byte do not wait for ACK to go)
  /\ t.at = "raise"
  /\ FirstOfCall /\ tgt.phase # "COMMAND" => ~Rst
  /\ tgt' = [tgt EXCEPT !.req = TRUE]
  /\ IF tgt.phase \in ToTarget
       THEN UNCHANGED dat
       ELSE dat' = [cmd |-> t.cmd, phase |-> tgt.phase, index |-> t.n]
  /\ TargetGoes("ack")
  /\ UNCHANGED <<moved, inOrder>> /\ TargetOnly
Raise ==
  /\ t.at = "raise"
  /\ FirstOfCall /\ tgt.phase # "COMMAND" => ~Rst
  /\ tgt.phase \notin ToTarget => ~ini.ack
  /\ tgt' = [tgt EXCEPT !.req = TRUE]
  /\ IF tgt.phase \in ToTarget
       THEN UNCHANGED dat
       ELSE dat' = [cmd |-> t.cmd, phase |-> tgt.phase, index |-> t.n]
  /\ TargetGoes("ack")
  /\ UNCHANGED <<moved, inOrder>> /\ TargetOnly

\* The first byte of a CDB is the one that names a command to the target.
FromSameCommand ==
  tgt.phase = "DATA_OUT" \/ (tgt.phase = "COMMAND" /\ t.n > 0) => dat.cmd = t.cmd

\* WaitSignal(PIN_ACK, true), GetDAT(), SetREQ(false)
TakeByte ==
  /\ t.at = "ack"
  /\ ini.ack
  /\ tgt.phase \in ToTarget
  /\ tgt' = [tgt EXCEPT !.req = FALSE]
  /\ t' = [t EXCEPT !.at = "noack", !.cmd = IF tgt.phase = "COMMAND" THEN dat.cmd ELSE @]
  /\ inOrder' = (inOrder /\ dat.phase = tgt.phase /\ dat.index = t.n /\ FromSameCommand)
  /\ moved' = IF tgt.phase = "DATA_OUT" THEN t.n + 1 ELSE moved
  /\ UNCHANGED dat /\ TargetOnly

ByteTaken ==
  /\ t.at = "ack"
  /\ ini.ack
  /\ tgt.phase \notin ToTarget
  /\ tgt' = [tgt EXCEPT !.req = FALSE]
  /\ t' = [t EXCEPT !.n = @ + 1, !.at = IF LastOfCall(t.n + 1) THEN "noack" ELSE "raise"]
  /\ UNCHANGED <<dat, moved, inOrder>> /\ TargetOnly

\* WaitSignal(PIN_ACK, false)
AckGone ==
  /\ t.at = "noack"
  /\ ~ini.ack
  /\ t' = IF tgt.phase \in ToTarget
            THEN [t EXCEPT !.n = @ + 1, !.at = IF LastOfCall(t.n + 1) THEN "execute" ELSE "raise"]
            ELSE [t EXCEPT !.at = "execute"]
  /\ UNCHANGED <<tgt, dat, moved, inOrder>> /\ TargetOnly

\* A call fails: RST is set, which makes Error() go to BusFree().  RST stays.  Only
\* the wait at the end of SendHandShake() has no consequence.
GiveUpPhase ==
  /\ TargetFails
  /\ IF t.at = "noack" /\ tgt.phase \notin ToTarget
       THEN UNCHANGED tgt /\ TargetGoes("execute")
       ELSE tgt' = [Released EXCEPT !.rst = TRUE] /\ TargetGoes("idle")
  /\ UNCHANGED <<dat, moved, inOrder>> /\ TargetOnly

-------------------------------------------------------------------------------
(* The initiator: InitiatorExecutor::Execute().  "idle" is between two calls. *)

InitiatorOnly == UNCHANGED <<tgt, script, sasi>>
InitiatorGoes(at) == i' = [i EXCEPT !.at = at]
SameData == UNCHANGED <<dat, t, moved, inOrder>>

\* SetSEL(true) is what wakes the target up.
SetSEL == t' = [t EXCEPT !.edge = @ \/ ~ini.sel]

Execute ==
  /\ i.at = "idle"
  /\ i.cmd < MaxCommands
  /\ ini' = Silent
  /\ i' = [i EXCEPT !.at = IF sasi THEN "select" ELSE "free", !.cmd = @ + 1, !.offset = 0,
                    !.length = script[i.cmd + 1].length, !.status = None]
  /\ moved' = 0
  /\ UNCHANGED <<dat, t, inOrder>> /\ InitiatorOnly

\* Arbitration(), with nobody to lose it to.
ArbitrateAtOnce ==   \* (a mutation: the bus is not waited for)
  /\ i.at = "free"
  /\ ini' = [ini EXCEPT !.bsy = TRUE, !.sel = TRUE]
  /\ SetSEL
  /\ InitiatorGoes("select")
  /\ UNCHANGED <<dat, moved, inOrder>> /\ InitiatorOnly
Arbitrate ==
  /\ i.at = "free"
  /\ ~Bsy
  /\ ini' = [ini EXCEPT !.bsy = TRUE, !.sel = TRUE]
  /\ SetSEL
  /\ InitiatorGoes("select")
  /\ UNCHANGED <<dat, moved, inOrder>> /\ InitiatorOnly

\* Selection(): ATN announces an IDENTIFY message, unless the LUN is in the CDB.
Select(atn) ==
  /\ i.at = "select"
  /\ sasi => ~atn
  /\ ini' = [ini EXCEPT !.sel = TRUE, !.atn = atn, !.bsy = FALSE]
  /\ SetSEL
  /\ InitiatorGoes("busy")
  /\ UNCHANGED <<dat, moved, inOrder>> /\ InitiatorOnly

\* WaitForBusy()
Answered ==
  /\ i.at = "busy"
  /\ Bsy
  /\ ini' = [ini EXCEPT !.sel = FALSE]
  /\ InitiatorGoes("loop")
  /\ SameData /\ InitiatorOnly

\* Dispatch(): a transfer into or out of a full buffer is an exception.
Dispatch ==
  /\ i.at = "loop"
  /\ tgt.req
  /\ ~NothingToSend
  /\ i' = [i EXCEPT !.phase = GetPhase, !.done = 0,
                    !.at = IF GetPhase \in Data /\ i.length = 0 THEN "reset" ELSE "req"]
  /\ UNCHANGED ini /\ SameData /\ InitiatorOnly

\* The end of Command(), MsgOut(), DataIn(), DataOut(), Status() or MsgIn(), in which d
\* bytes counted.  MsgIn() ends the command, be it a failure or not.
Ended(r, d) ==
  CASE r.phase = "COMMAND" -> [r EXCEPT !.at = "loop", !.offset = @ + d]
    [] r.phase = "DATA_IN" -> [r EXCEPT !.at = "loop", !.length = @ - d]
    [] r.phase = "DATA_OUT" -> [r EXCEPT !.at = IF d = r.length THEN "loop" ELSE "reset", !.length = @ - d]
    [] r.phase = "STATUS" -> [r EXCEPT !.at = "loop", !.status = IF d = 1 THEN r.buf ELSE @]
    [] r.phase = "MSG_OUT" -> [r EXCEPT !.at = "loop"]
    [] OTHER -> [r EXCEPT !.at = "idle"]

\* WaitSignal(PIN_REQ, true), and the byte, if the phase is still the same.
PhaseError ==
  /\ i.at = "req"
  /\ tgt.req
  /\ GetPhase # i.phase
  /\ i' = Ended(i, i.done)
  /\ UNCHANGED ini /\ SameData /\ InitiatorOnly

PutByte ==
  /\ i.at = "req"
  /\ tgt.req
  /\ GetPhase = i.phase
  /\ i.phase \in ToTarget
  /\ dat' = [cmd |-> i.cmd, phase |-> i.phase,
             index |-> IF i.phase = "COMMAND" THEN i.offset + i.done ELSE i.done]
  /\ ini' = [ini EXCEPT !.ack = TRUE, !.atn = @ /\ i.phase # "MSG_OUT"]
  /\ InitiatorGoes("noreq")
  /\ UNCHANGED <<t, moved, inOrder>> /\ InitiatorOnly

GetByte ==
  /\ i.at = "req"
  /\ tgt.req
  /\ GetPhase = i.phase
  /\ i.phase \notin ToTarget
  /\ ini' = [ini EXCEPT !.ack = TRUE]
  /\ i' = [i EXCEPT !.at = "noreq", !.buf = dat.cmd]
  /\ inOrder' = (inOrder /\ dat.phase = i.phase /\ dat.cmd = i.cmd
                         /\ dat.index = IF i.phase = "DATA_IN" THEN moved ELSE 0)
  /\ moved' = IF i.phase = "DATA_IN" THEN moved + 1 ELSE moved
  /\ UNCHANGED <<dat, t>> /\ InitiatorOnly

\* WaitSignal(PIN_REQ, false), SetACK(false).  Another look at the phase follows.
ReqGone ==
  /\ i.at = "noreq"
  /\ ~tgt.req
  /\ ini' = [ini EXCEPT !.ack = FALSE]
  /\ i' = IF i.phase = "MSG_IN" THEN Ended(i, 1) ELSE [i EXCEPT !.at = "check"]
  /\ SameData /\ InitiatorOnly

\* A byte after which the phase has changed already is not counted.
CheckPhase ==
  /\ i.at = "check"
  /\ i' = IF GetPhase # i.phase THEN Ended(i, i.done)
          ELSE IF i.done + 1 = Count THEN Ended(i, i.done + 1)
          ELSE [i EXCEPT !.at = "req", !.done = @ + 1]
  /\ UNCHANGED ini /\ SameData /\ InitiatorOnly

\* A call fails: what it has counted so far remains.
CallFails ==
  /\ i.at \in {"req", "noreq"}
  /\ InitiatorFails
  /\ ini' = [ini EXCEPT !.ack = FALSE]
  /\ i' = Ended(i, i.done)
  /\ SameData /\ InitiatorOnly

\* The bus is not free, nobody answers, or the timeout of Execute() is over, after
\* which the signals are left as they are.
TimedOut ==
  /\ i.at \in {"free", "busy", "loop"}
  /\ InitiatorFails
  /\ ini' = IF i.at = "loop" THEN ini ELSE Silent
  /\ InitiatorGoes("idle")
  /\ SameData /\ InitiatorOnly

\* ResetBus() after an exception, in two steps
PulseRST ==
  /\ i.at = "reset"
  /\ ini' = [ini EXCEPT !.rst = TRUE]
  /\ InitiatorGoes("pulse")
  /\ SameData /\ InitiatorOnly
PulseEnds ==
  /\ i.at = "pulse"
  /\ ini' = Silent
  /\ i' = [i EXCEPT !.at = "idle", !.status = None]
  /\ SameData /\ InitiatorOnly

\* S2pExec::TerminationHandler() and its likes release the bus and end the process.
Terminate ==
  /\ i.at # "idle"
  /\ ini' = Silent
  /\ i' = [i EXCEPT !.at = "idle", !.status = None]
  /\ SameData /\ InitiatorOnly

-------------------------------------------------------------------------------
TargetStep ==
  \/ WaitForSelection \/ WaitForNotBusy \/ Reset \/ Answer \/ Selected \/ Proceed
  \/ Raise \/ TakeByte \/ ByteTaken \/ AckGone \/ GiveUpPhase

InitiatorStep ==
  \/ Arbitrate \/ Answered \/ Dispatch \/ PhaseError \/ PutByte \/ GetByte \/ ReqGone
  \/ CheckPhase \/ CallFails \/ TimedOut \/ PulseRST \/ PulseEnds
  \/ \E atn \in BOOLEAN : Select(atn)

Next == TargetStep \/ InitiatorStep \/ Execute \/ Terminate

\* Both sides run, and every wait ends; a device takes as long as it likes.
Spec == Init /\ [][Next]_vars /\ WF_vars(TargetStep) /\ WF_vars(InitiatorStep)

-------------------------------------------------------------------------------
(* The types of signals, of the byte on the bus, and of both sides. *)
TypeOK ==
  /\ tgt \in [bsy : BOOLEAN, req : BOOLEAN, rst : BOOLEAN, phase : Phase]
  /\ ini \in [bsy : BOOLEAN, sel : BOOLEAN, atn : BOOLEAN, ack : BOOLEAN, rst : BOOLEAN]
  /\ dat \in [cmd : 0..MaxCommands, phase : Phase, index : Nat]
  /\ t.at \in {"idle", "notbusy", "begin", "selection", "raise", "ack", "noack", "execute"}
  /\ t.cmd \in 0..MaxCommands
  /\ t.n <= CdbLength \/ t.n <= Total
  /\ i.at \in {"idle", "free", "select", "busy", "loop", "req", "noreq", "check", "reset", "pulse"}
  /\ i.cmd \in 0..MaxCommands
  /\ i.offset + i.done \in Nat
  /\ i.length \in Nat
  /\ i.status \in 0..MaxCommands
  /\ moved \in 0..Total

\* The handshakes of bus.cpp: with arbitration, whatever times out, is reset or killed,
\* each byte a side stores is the next one the other side has for it.
BytesInOrder == sasi \/ inOrder

\* InitiatorExecutor::Execute(): the status returned is the one of this command, and
\* comes after all of its data, of which the initiator may have missed the last byte
\* in its count, see CheckPhase; a status of an earlier command is never picked up.
StatusIsOwn ==
  i.at = "idle" /\ i.status # None /\ ~sasi =>
    /\ i.status = i.cmd
    /\ script[i.cmd].data \in Data =>
         moved = Total /\ script[i.cmd].length - i.length \in {Total - 1, Total}

\* The two sides have a sane state, and no status is taken for another's: both.
StatusAgrees == TypeOK /\ StatusIsOwn

\* Every call of Execute() returns, and the target gives up a bus it holds.
Recovers ==
  /\ i.at # "idle" ~> i.at = "idle"
  /\ tgt.bsy ~> ~tgt.bsy
===============================================================================
