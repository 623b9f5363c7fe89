---------------------------- MODULE HandshakeProofs ----------------------------
(***************************************************************************)
(* Proofs about Handshake, for any number of commands, any length of a CDB *)
(* and of a transfer, and any chunks and buffers: whatever times out, is   *)
(* reset or killed, each byte stored is the next one of its sender, and a  *)
(* status returned is the one of its command.                              *)
(*                                                                         *)
(* The invariant relates the two counts of the bytes of a phase that the   *)
(* sides keep, for every pair of places they can be at in the handshake,   *)
(* including an initiator that still is in a phase the target has left.    *)
(***************************************************************************)
EXTENDS Handshake, Integers, TLAPS

TargetAt == {"idle", "notbusy", "begin", "selection", "raise", "ack", "noack", "execute"}
InitiatorAt ==
  {"idle", "free", "select", "busy", "loop", "req", "noreq", "check", "reset", "pulse"}

Records ==
  /\ tgt \in [bsy : BOOLEAN, req : BOOLEAN, rst : BOOLEAN, phase : Phase]
  /\ ini \in [bsy : BOOLEAN, sel : BOOLEAN, atn : BOOLEAN, ack : BOOLEAN, rst : BOOLEAN]
  /\ dat \in [cmd : 0..MaxCommands, phase : Phase, index : Nat]
  /\ t \in [at : TargetAt, cmd : 0..MaxCommands, n : Nat, edge : BOOLEAN]
  /\ i \in [at : InitiatorAt, cmd : 0..MaxCommands, phase : Phase, done : Nat,
            offset : Nat, length : Nat, status : 0..MaxCommands, buf : 0..MaxCommands]
  /\ script \in [Command -> [data : Data \cup {"STATUS"}, length : Length]]
  /\ sasi \in BOOLEAN
  /\ moved \in Nat

\* The target is in a phase, the initiator in a call of Dispatch().
Serving == t.at \in {"raise", "ack", "noack", "execute"}
InCall == i.at \in {"req", "noreq", "check"}

\* Each side drives its signals in the places that it does so.
Signals ==
  /\ tgt.req <=> t.at = "ack"
  /\ tgt.bsy <=> Serving \/ t.at = "selection"
  /\ tgt.rst => ~tgt.bsy
  /\ ini.ack <=> i.at = "noreq"
  /\ ini.rst <=> i.at = "pulse"
  /\ ini.sel => i.at \in {"select", "busy"}
  /\ i.at = "busy" => ini.sel
  /\ ini.bsy => i.at = "select"
  /\ i.at = "select" /\ ~sasi => ini.bsy

\* The target's count stays within its phase.
TargetCounts ==
  /\ t.n <= CdbLength \/ t.n <= Total
  /\ Serving =>
       /\ tgt.phase = "COMMAND" => t.n <= CdbLength /\ (t.at = "execute" <=> t.n = CdbLength)
       /\ tgt.phase \in Data => t.n <= Total /\ (t.at \in {"raise", "ack"} => t.n < Total)
       /\ tgt.phase = "DATA_OUT" /\ t.at = "noack" => t.n < Total
       /\ tgt.phase \notin Data \cup {"COMMAND"} => t.n <= 1
       /\ tgt.phase \notin Data \cup {"COMMAND"} /\ t.at \in {"raise", "ack"} => t.n = 0
       /\ tgt.phase = "MSG_OUT" /\ t.at = "noack" => t.n = 0

\* The initiator's count stays below what it asks for.
InitiatorCounts ==
  InCall => /\ i.phase \in Data => i.done < i.length
            /\ i.phase \notin Data \cup {"COMMAND"} => i.done = 0

\* No more bytes are stored than the target has counted.
MovedBounds ==
  /\ moved <= Total
  /\ i.at \in {"free", "select", "busy"} => moved = 0
  /\ t.at = "selection" \/ (Serving /\ tgt.phase \in {"MSG_OUT", "COMMAND"}) => moved = 0
  /\ Serving /\ tgt.phase = "DATA_IN" =>
       moved <= IF t.at = "ack" /\ i.at \notin {"loop", "req", "check"} THEN t.n + 1 ELSE t.n

\* Both sides know the command once its CDB has begun, and so does the byte on the bus.
CommandsKnown ==
  /\ i.at # "idle" => i.cmd # None
  /\ Serving /\ tgt.phase # "MSG_OUT" => \/ t.cmd # None
                                        \/ /\ tgt.phase = "COMMAND" /\ t.n = 0
                                           /\ t.at \in {"raise", "ack"}
  /\ ini.ack \/ (t.at = "ack" /\ tgt.phase \notin ToTarget) => dat.cmd # None

Basic ==
  Records /\ Signals /\ TargetCounts /\ InitiatorCounts /\ MovedBounds /\ CommandsKnown

-------------------------------------------------------------------------------
(* What the steps do to the members of the records. *)

\* TargetGoes() and the other ways the target's record changes.
TargetBecomes(at, cmd, n) ==
  /\ t' \in [at : TargetAt, cmd : 0..MaxCommands, n : Nat, edge : BOOLEAN]
  /\ t'.at = at /\ t'.cmd = cmd /\ t'.n = n

\* The signals of the target.
TargetDrives(bsy, req, rst, phase) ==
  /\ tgt' \in [bsy : BOOLEAN, req : BOOLEAN, rst : BOOLEAN, phase : Phase]
  /\ tgt'.bsy = bsy /\ tgt'.req = req /\ tgt'.rst = rst /\ tgt'.phase = phase

\* TargetGoes() changes the place only.
LEMMA TargetGoesTo ==
  ASSUME Records, NEW a \in TargetAt, TargetGoes(a)
  PROVE  TargetBecomes(a, t.cmd, t.n)
BY DEF Records, TargetGoes, TargetBecomes

\* BusFree() releases every signal.
LEMMA TargetReleases ==
  ASSUME tgt' = Released
  PROVE  TargetDrives(FALSE, FALSE, FALSE, "DATA_OUT")
BY DEF Released, TargetDrives, Phase

\* A target that waits to be selected changes its place only.
LEMMA WaitEffect ==
  ASSUME Records, WaitForSelection \/ WaitForNotBusy
  PROVE  /\ t.at \in {"idle", "notbusy"} /\ t'.at \in {"notbusy", "begin"}
         /\ TargetBecomes(t'.at, t.cmd, t.n)
         /\ UNCHANGED <<tgt, ini, dat, i, script, sasi, moved, inOrder>>
<1>1. CASE WaitForSelection
  BY <1>1 DEF WaitForSelection, TargetOnly, Records, TargetBecomes, TargetAt
<1>2. CASE WaitForNotBusy
  BY <1>2, TargetGoesTo DEF WaitForNotBusy, TargetOnly, TargetBecomes, TargetAt
<1>3. QED
  BY <1>1, <1>2

\* The target leaves the bus, or has not come.
TargetLeaves ==
  /\ TargetBecomes("idle", t.cmd, t.n)
  /\ \E rst \in BOOLEAN : TargetDrives(FALSE, FALSE, rst, "DATA_OUT")
  /\ UNCHANGED <<ini, dat, i, script, sasi, moved, inOrder>>

\* A reset makes the target leave.
LEMMA ResetEffect ==
  ASSUME Records, Reset
  PROVE  TargetLeaves
BY TargetGoesTo, TargetReleases DEF Reset, TargetOnly, TargetLeaves, TargetAt

\* A target that is selected sets BSY, or finds that the initiator has gone.
LEMMA AnswerEffect ==
  ASSUME Records, Answer
  PROVE  /\ t.at = "begin" /\ ~Rst
         /\ UNCHANGED <<ini, dat, i, script, sasi, moved, inOrder>>
         /\ \/ /\ ini.sel /\ ~Bsy
               /\ TargetBecomes("selection", t.cmd, t.n)
               /\ TargetDrives(TRUE, tgt.req, tgt.rst, tgt.phase)
            \/ TargetBecomes("idle", t.cmd, t.n) /\ UNCHANGED tgt
<1>1. CASE ini.sel /\ ~Bsy
  <2>1. tgt' = [tgt EXCEPT !.bsy = TRUE] /\ TargetGoes("selection")
    BY <1>1 DEF Answer
  <2>2. TargetDrives(TRUE, tgt.req, tgt.rst, tgt.phase)
    BY <2>1 DEF Records, TargetDrives
  <2>3. QED
    BY <1>1, <2>1, <2>2, TargetGoesTo DEF Answer, TargetOnly, TargetAt
<1>2. CASE ~(ini.sel /\ ~Bsy)
  BY <1>2, TargetGoesTo DEF Answer, TargetOnly, TargetAt
<1>3. QED
  BY <1>1, <1>2

\* The end of the selection starts a phase.
LEMMA SelectedEffect ==
  ASSUME Records, Selected
  PROVE  /\ t.at = "selection" /\ ~ini.sel
         /\ UNCHANGED <<ini, dat, i, script, sasi, moved, inOrder>>
         /\ TargetBecomes("raise", t.cmd, 0)
         /\ \E p \in {"MSG_OUT", "COMMAND"} : TargetDrives(tgt.bsy, tgt.req, tgt.rst, p)
<1>1. TargetBecomes("raise", t.cmd, 0)
  BY DEF Selected, Records, TargetBecomes, TargetAt
<1>2. \E p \in {"MSG_OUT", "COMMAND"} : tgt' = [tgt EXCEPT !.phase = p]
  BY DEF Selected
<1>3. \E p \in {"MSG_OUT", "COMMAND"} : TargetDrives(tgt.bsy, tgt.req, tgt.rst, p)
  BY <1>2 DEF Records, TargetDrives, Phase
<1>4. QED
  BY <1>1, <1>3 DEF Selected, TargetOnly

\* The phase that follows starts, or the bus is free after a message.
LEMMA ProceedEffect ==
  ASSUME Records, Proceed, Following \in Phase
  PROVE  /\ t.at = "execute"
         /\ \/ tgt.phase = "MSG_IN" /\ TargetLeaves
            \/ /\ tgt.phase # "MSG_IN"
               /\ TargetBecomes("raise", t.cmd, IF Following = tgt.phase THEN t.n ELSE 0)
               /\ TargetDrives(tgt.bsy, tgt.req, tgt.rst, Following)
               /\ UNCHANGED <<ini, dat, i, script, sasi, moved, inOrder>>
<1>1. CASE tgt.phase = "MSG_IN"
  BY <1>1, TargetGoesTo, TargetReleases DEF Proceed, TargetOnly, TargetLeaves, TargetAt
<1>2. CASE tgt.phase # "MSG_IN"
  <2> DEFINE p == Following
             m == IF Following = tgt.phase THEN t.n ELSE 0
  <2>1. /\ tgt' = [tgt EXCEPT !.phase = p]
        /\ t' = [t EXCEPT !.at = "raise", !.n = m]
    BY <1>2 DEF Proceed
  <2>2. p \in Phase /\ m \in Nat
    BY DEF Records
  <2> HIDE DEF p, m
  <2>3. TargetBecomes("raise", t.cmd, m) /\ TargetDrives(tgt.bsy, tgt.req, tgt.rst, p)
    BY <2>1, <2>2 DEF Records, TargetBecomes, TargetDrives, TargetAt
  <2>4. QED
    BY <1>2, <2>3 DEF Proceed, TargetOnly, p, m
<1>3. QED
  BY <1>1, <1>2 DEF Proceed

\* A byte is put on the data lines.
BusHolds(cmd, phase, index) ==
  /\ dat' \in [cmd : 0..MaxCommands, phase : Phase, index : Nat]
  /\ dat'.cmd = cmd /\ dat'.phase = phase /\ dat'.index = index

\* SetREQ(true), with a byte for the initiator.
LEMMA RaiseEffect ==
  ASSUME Records, Raise
  PROVE  /\ t.at = "raise" /\ (tgt.phase \notin ToTarget => ~ini.ack)
         /\ TargetBecomes("ack", t.cmd, t.n)
         /\ TargetDrives(tgt.bsy, TRUE, tgt.rst, tgt.phase)
         /\ IF tgt.phase \in ToTarget
              THEN UNCHANGED dat
              ELSE BusHolds(t.cmd, tgt.phase, t.n)
         /\ UNCHANGED <<ini, i, script, sasi, moved, inOrder>>
<1>1. TargetBecomes("ack", t.cmd, t.n)
  BY TargetGoesTo DEF Raise, TargetAt
<1>2. TargetDrives(tgt.bsy, TRUE, tgt.rst, tgt.phase)
  BY DEF Raise, Records, TargetDrives
<1>3. tgt.phase \notin ToTarget => BusHolds(t.cmd, tgt.phase, t.n)
  BY DEF Raise, Records, BusHolds
<1>4. QED
  BY <1>1, <1>2, <1>3, Zenon DEF Raise, TargetOnly

\* The target stores the byte of the initiator.
LEMMA TakeByteEffect ==
  ASSUME Records, TakeByte
  PROVE  /\ t.at = "ack" /\ ini.ack /\ tgt.phase \in ToTarget
         /\ TargetBecomes("noack", IF tgt.phase = "COMMAND" THEN dat.cmd ELSE t.cmd, t.n)
         /\ TargetDrives(tgt.bsy, FALSE, tgt.rst, tgt.phase)
         /\ moved' = IF tgt.phase = "DATA_OUT" THEN t.n + 1 ELSE moved
         /\ UNCHANGED <<ini, dat, i, script, sasi>>
<1> DEFINE c == IF tgt.phase = "COMMAND" THEN dat.cmd ELSE t.cmd
<1>1. c \in 0..MaxCommands /\ t' = [t EXCEPT !.at = "noack", !.cmd = c]
  BY DEF TakeByte, Records
<1> HIDE DEF c
<1>2. TargetBecomes("noack", c, t.n)
  BY <1>1 DEF Records, TargetBecomes, TargetAt
<1>3. TargetDrives(tgt.bsy, FALSE, tgt.rst, tgt.phase)
  BY DEF TakeByte, Records, TargetDrives
<1>4. QED
  BY <1>2, <1>3, Zenon DEF TakeByte, TargetOnly, c

\* The initiator has seen the byte of the target.
LEMMA ByteTakenEffect ==
  ASSUME Records, ByteTaken
  PROVE  /\ t.at = "ack" /\ ini.ack /\ tgt.phase \notin ToTarget
         /\ TargetBecomes(IF LastOfCall(t.n + 1) THEN "noack" ELSE "raise", t.cmd, t.n + 1)
         /\ TargetDrives(tgt.bsy, FALSE, tgt.rst, tgt.phase)
         /\ UNCHANGED <<ini, dat, i, script, sasi, moved, inOrder>>
<1> DEFINE a == IF LastOfCall(t.n + 1) THEN "noack" ELSE "raise"
<1>1. a \in TargetAt /\ t' = [t EXCEPT !.n = t.n + 1, !.at = a]
  BY DEF ByteTaken, TargetAt
<1> HIDE DEF a
<1> DEFINE m == t.n + 1
<1>m. m \in Nat /\ t' = [t EXCEPT !.n = m, !.at = a]
  BY <1>1 DEF Records
<1> HIDE DEF m
<1>2. TargetBecomes(a, t.cmd, m)
  BY <1>1, <1>m DEF Records, TargetBecomes
<1>3. TargetDrives(tgt.bsy, FALSE, tgt.rst, tgt.phase)
  BY DEF ByteTaken, Records, TargetDrives
<1>4. QED
  BY <1>2, <1>3 DEF ByteTaken, TargetOnly, a, m

\* The handshake of one byte is over.
LEMMA AckGoneEffect ==
  ASSUME Records, AckGone
  PROVE  /\ t.at = "noack" /\ ~ini.ack
         /\ UNCHANGED <<tgt, ini, dat, i, script, sasi, moved, inOrder>>
         /\ IF tgt.phase \in ToTarget
              THEN TargetBecomes(IF LastOfCall(t.n + 1) THEN "execute" ELSE "raise", t.cmd, t.n + 1)
              ELSE TargetBecomes("execute", t.cmd, t.n)
<1>1. CASE tgt.phase \in ToTarget
  <2> DEFINE a == IF LastOfCall(t.n + 1) THEN "execute" ELSE "raise"
  <2>1. a \in TargetAt /\ t' = [t EXCEPT !.n = t.n + 1, !.at = a]
    BY <1>1 DEF AckGone, TargetAt
  <2> HIDE DEF a
  <2> DEFINE m == t.n + 1
  <2>m. m \in Nat /\ t' = [t EXCEPT !.n = m, !.at = a]
    BY <2>1 DEF Records
  <2> HIDE DEF m
  <2>2. TargetBecomes(a, t.cmd, m)
    BY <2>1, <2>m DEF Records, TargetBecomes
  <2>3. QED
    BY <1>1, <2>2 DEF AckGone, TargetOnly, a, m
<1>2. CASE tgt.phase \notin ToTarget
  BY <1>2 DEF AckGone, TargetOnly, Records, TargetBecomes, TargetAt
<1>3. QED
  BY <1>1, <1>2

\* An initiator that has set ACK looks at REQ: the end of SendHandShake() does not fail.
LEMMA GiveUpEffect ==
  ASSUME Records, Signals, GiveUpPhase
  PROVE  TargetLeaves
<1>1. ~(t.at = "noack" /\ tgt.phase \notin ToTarget)
  BY DEF GiveUpPhase, Signals, TargetFails, TargetWaits, Rst, InitiatorAway, InitiatorWaits, Serving
<1>2. TargetDrives(FALSE, FALSE, TRUE, "DATA_OUT")
  BY <1>1 DEF GiveUpPhase, Released, TargetDrives, Phase
<1>3. QED
  BY <1>1, <1>2, TargetGoesTo DEF GiveUpPhase, TargetOnly, TargetLeaves, TargetAt

-------------------------------------------------------------------------------
(* The same for the initiator. *)

InitiatorRecord ==
  [at : InitiatorAt, cmd : 0..MaxCommands, phase : Phase, done : Nat,
   offset : Nat, length : Nat, status : 0..MaxCommands, buf : 0..MaxCommands]
InitiatorSignals == [bsy : BOOLEAN, sel : BOOLEAN, atn : BOOLEAN, ack : BOOLEAN, rst : BOOLEAN]

\* The initiator's record but for its place and the counts of its call.
InitiatorKeeps ==
  /\ i' \in InitiatorRecord
  /\ i'.cmd = i.cmd /\ i'.offset = i.offset /\ i'.length = i.length /\ i'.buf = i.buf

InitiatorDrives(bsy, sel, ack, rst) ==
  /\ ini' \in InitiatorSignals
  /\ ini'.bsy = bsy /\ ini'.sel = sel /\ ini'.ack = ack /\ ini'.rst = rst

\* The target's record: SEL may leave an edge.
TargetStays == TargetBecomes(t.at, t.cmd, t.n)

\* InitiatorGoes() changes the place only.
LEMMA InitiatorGoesTo ==
  ASSUME Records, NEW a \in InitiatorAt, InitiatorGoes(a)
  PROVE  /\ InitiatorKeeps /\ i'.at = a /\ i'.phase = i.phase /\ i'.done = i.done
         /\ i'.status = i.status
BY DEF Records, InitiatorGoes, InitiatorKeeps, InitiatorRecord

\* Bus::Reset() releases every signal.
LEMMA InitiatorReleases ==
  ASSUME ini' = Silent
  PROVE  InitiatorDrives(FALSE, FALSE, FALSE, FALSE)
BY DEF Silent, InitiatorDrives, InitiatorSignals

\* A step that does not touch the target.
LEMMA TargetSame ==
  ASSUME Records, UNCHANGED t
  PROVE  TargetStays
BY DEF Records, TargetStays, TargetBecomes

\* SetSEL(true) leaves at most an edge.
LEMMA EdgeSet ==
  ASSUME Records, SetSEL
  PROVE  TargetStays
<1>1. (t.edge \/ ~ini.sel) \in BOOLEAN
  OBVIOUS
<1> DEFINE e == t.edge \/ ~ini.sel
<1>2. t' = [t EXCEPT !.edge = e]
  BY DEF SetSEL
<1> HIDE DEF e
<1>3. QED
  BY <1>1, <1>2 DEF Records, TargetStays, TargetBecomes, e

\* The initiator leaves the command: it is somewhere where it looks at no byte.
InitiatorLeaves ==
  /\ InitiatorKeeps /\ i'.at \in {"idle", "reset", "pulse"}
  /\ i'.status \in {i.status, None}
  /\ ini' \in InitiatorSignals /\ ~ini'.bsy /\ ~ini'.sel /\ ~ini'.ack
  /\ ini'.rst <=> i'.at = "pulse"
  /\ UNCHANGED <<tgt, dat, t, script, sasi, moved, inOrder>>

\* The initiator's record after Ended(i, d).
EndedWith(d) ==
  /\ i' \in InitiatorRecord
  /\ i'.cmd = i.cmd /\ i'.buf = i.buf /\ i'.phase = i.phase /\ i'.done = i.done
  /\ i'.offset = IF i.phase = "COMMAND" THEN i.offset + d ELSE i.offset
  /\ i'.length = IF i.phase \in Data THEN i.length - d ELSE i.length
  /\ i'.status = IF i.phase = "STATUS" /\ d = 1 THEN i.buf ELSE i.status
  /\ i'.at = IF i.phase = "MSG_IN" THEN "idle"
             ELSE IF i.phase = "DATA_OUT" /\ d # i.length THEN "reset" ELSE "loop"

\* The end of a call, member by member.
LEMMA EndedEffect ==
  ASSUME Records, NEW d \in Nat, i.phase \in Data => d <= i.length, i' = Ended(i, d)
  PROVE  EndedWith(d)
<1>1. CASE i.phase = "COMMAND"
  <2> DEFINE o == i.offset + d
  <2>1. o \in Nat /\ i' = [i EXCEPT !.at = "loop", !.offset = o]
    BY <1>1 DEF Records, Ended
  <2> HIDE DEF o
  <2>2. QED
    BY <1>1, <2>1 DEF Records, InitiatorRecord, InitiatorAt, EndedWith, Data, o
<1>2. CASE i.phase = "DATA_IN"
  <2> DEFINE l == i.length - d
  <2>1. l \in Nat /\ i' = [i EXCEPT !.at = "loop", !.length = l]
    BY <1>2 DEF Records, Ended, Data
  <2> HIDE DEF l
  <2>2. QED
    BY <1>2, <2>1 DEF Records, InitiatorRecord, InitiatorAt, EndedWith, Data, l
<1>3. CASE i.phase = "DATA_OUT"
  <2> DEFINE l == i.length - d
             a == IF d = i.length THEN "loop" ELSE "reset"
  <2>1. l \in Nat /\ a \in InitiatorAt /\ i' = [i EXCEPT !.at = a, !.length = l]
    BY <1>3 DEF Records, Ended, Data, InitiatorAt
  <2> HIDE DEF l, a
  <2>2. QED
    BY <1>3, <2>1 DEF Records, InitiatorRecord, EndedWith, Data, l, a
<1>4. CASE i.phase = "STATUS"
  <2> DEFINE u == IF d = 1 THEN i.buf ELSE i.status
  <2>1. u \in 0..MaxCommands /\ i' = [i EXCEPT !.at = "loop", !.status = u]
    BY <1>4 DEF Records, Ended
  <2> HIDE DEF u
  <2>2. QED
    BY <1>4, <2>1 DEF Records, InitiatorRecord, InitiatorAt, EndedWith, Data, u
<1>5. CASE i.phase = "MSG_OUT"
  BY <1>5 DEF Records, Ended, InitiatorRecord, InitiatorAt, EndedWith, Data
<1>6. CASE i.phase = "MSG_IN"
  BY <1>6 DEF Records, Ended, InitiatorRecord, InitiatorAt, EndedWith, Data
<1>7. QED
  BY <1>1, <1>2, <1>3, <1>4, <1>5, <1>6 DEF Records, Phase

\* In a call, and in the loop around the calls, the initiator does not select.
LEMMA LooksAt ==
  ASSUME Records, Signals, i.at = "loop" \/ InCall
  PROVE  /\ ~ini.sel /\ ~ini.bsy /\ ~ini.rst
         /\ GetPhase = IF tgt.bsy THEN tgt.phase ELSE "BUS_FREE"
         /\ GetPhase \in Phase => tgt.bsy /\ GetPhase = tgt.phase
BY DEF Signals, InCall, GetPhase, Bsy, Phase

\* A command starts with nothing transferred.
LEMMA ExecuteEffect ==
  ASSUME Records, Execute
  PROVE  /\ i.at = "idle" /\ i.cmd + 1 \in Command
         /\ i' \in InitiatorRecord /\ i'.at = (IF sasi THEN "select" ELSE "free")
         /\ i'.cmd = i.cmd + 1 /\ i'.offset = 0 /\ i'.status = None
         /\ i'.length = script[i.cmd + 1].length
         /\ InitiatorDrives(FALSE, FALSE, FALSE, FALSE)
         /\ moved' = 0
         /\ UNCHANGED <<tgt, dat, t, script, sasi, inOrder>>
<1> DEFINE a == IF sasi THEN "select" ELSE "free"
           c == i.cmd + 1
           l == script[c].length
<1>1. c \in Command /\ c \in 0..MaxCommands /\ a \in InitiatorAt
  BY HandshakeAssumption DEF Execute, Records, Command, InitiatorAt
<1>2. l \in Nat
  BY <1>1, HandshakeAssumption DEF Records
<1>3. i' = [i EXCEPT !.at = a, !.cmd = c, !.offset = 0, !.length = l, !.status = None]
  BY DEF Execute
<1>4. 0 \in 0..MaxCommands
  BY HandshakeAssumption
<1> HIDE DEF a, c, l
<1>5. /\ i' \in InitiatorRecord /\ i'.at = a /\ i'.cmd = c /\ i'.offset = 0
      /\ i'.status = None /\ i'.length = l
  BY <1>1, <1>2, <1>3, <1>4 DEF Records, InitiatorRecord, None
<1>6. InitiatorDrives(FALSE, FALSE, FALSE, FALSE)
  BY InitiatorReleases DEF Execute
<1>7. QED
  BY <1>1, <1>5, <1>6 DEF Execute, InitiatorOnly, a, c, l

\* Arbitration, selection and the answer of the target.
LEMMA SelectionEffect ==
  ASSUME Records, Signals, Arbitrate \/ (\E atn \in BOOLEAN : Select(atn)) \/ Answered
  PROVE  /\ InitiatorKeeps /\ i'.status = i.status /\ TargetStays
         /\ UNCHANGED <<tgt, dat, script, sasi, moved, inOrder>>
         /\ \/ /\ i.at = "free" /\ ~Bsy /\ i'.at = "select"
               /\ InitiatorDrives(TRUE, TRUE, FALSE, FALSE)
            \/ /\ i.at = "select" /\ i'.at = "busy"
               /\ InitiatorDrives(FALSE, TRUE, FALSE, FALSE)
            \/ /\ i.at = "busy" /\ Bsy /\ i'.at = "loop"
               /\ InitiatorDrives(FALSE, FALSE, FALSE, FALSE)
<1>1. i.at \in {"free", "select", "busy"} => ~ini.ack /\ ~ini.rst
  BY DEF Signals
<1>2. CASE Arbitrate
  <2>1. InitiatorKeeps /\ i'.at = "select" /\ i'.status = i.status /\ TargetStays
    BY <1>2, InitiatorGoesTo, EdgeSet DEF Arbitrate, InitiatorAt
  <2>2. InitiatorDrives(TRUE, TRUE, FALSE, FALSE)
    BY <1>1, <1>2 DEF Arbitrate, Records, InitiatorDrives, InitiatorSignals
  <2>3. QED
    BY <1>2, <2>1, <2>2 DEF Arbitrate, InitiatorOnly
<1>3. CASE \E atn \in BOOLEAN : Select(atn)
  <2>1. PICK atn \in BOOLEAN : Select(atn)
    BY <1>3
  <2>2. InitiatorKeeps /\ i'.at = "busy" /\ i'.status = i.status /\ TargetStays
    BY <2>1, InitiatorGoesTo, EdgeSet DEF Select, InitiatorAt
  <2>3. InitiatorDrives(FALSE, TRUE, FALSE, FALSE)
    BY <1>1, <2>1 DEF Select, Records, InitiatorDrives, InitiatorSignals
  <2>4. QED
    BY <2>1, <2>2, <2>3 DEF Select, InitiatorOnly
<1>4. CASE Answered
  <2>1. InitiatorKeeps /\ i'.at = "loop" /\ i'.status = i.status /\ TargetStays
    BY <1>4, InitiatorGoesTo, TargetSame DEF Answered, SameData, InitiatorAt
  <2>2. InitiatorDrives(FALSE, FALSE, FALSE, FALSE)
    BY <1>1, <1>4 DEF Answered, Records, Signals, InitiatorDrives, InitiatorSignals
  <2>3. QED
    BY <1>4, <2>1, <2>2 DEF Answered, InitiatorOnly, SameData
<1>5. QED
  BY <1>2, <1>3, <1>4

\* A call starts in the phase of the target, which holds REQ.
LEMMA DispatchEffect ==
  ASSUME Records, Signals, Dispatch
  PROVE  /\ i.at = "loop" /\ t.at = "ack"
         /\ InitiatorKeeps /\ i'.status = i.status /\ i'.phase = tgt.phase /\ i'.done = 0
         /\ i'.at = IF tgt.phase \in Data /\ i.length = 0 THEN "reset" ELSE "req"
         /\ tgt.phase = "COMMAND" => i.offset # CdbLength
         /\ UNCHANGED <<tgt, ini, dat, t, script, sasi, moved, inOrder>>
<1>1. i.at = "loop" /\ t.at = "ack" /\ GetPhase = tgt.phase
  BY LooksAt DEF Dispatch, Signals, Serving
<1> DEFINE p == tgt.phase
           a == IF p \in Data /\ i.length = 0 THEN "reset" ELSE "req"
<1>2. i' = [i EXCEPT !.phase = p, !.done = 0, !.at = a]
  BY <1>1 DEF Dispatch
<1>3. p \in Phase /\ a \in InitiatorAt
  BY DEF Records, InitiatorAt
<1>4. p = "COMMAND" => i.offset # CdbLength
  BY <1>1 DEF Dispatch, NothingToSend
<1> HIDE DEF p, a
<1>5. InitiatorKeeps /\ i'.status = i.status /\ i'.phase = p /\ i'.done = 0 /\ i'.at = a
  BY <1>2, <1>3 DEF Records, InitiatorKeeps, InitiatorRecord
<1>6. QED
  BY <1>1, <1>4, <1>5 DEF Dispatch, InitiatorOnly, SameData, p, a

\* A call ends because the target is in another phase.
LEMMA PhaseErrorEffect ==
  ASSUME Records, Signals, InitiatorCounts, PhaseError
  PROVE  /\ i.at = "req" /\ t.at = "ack" /\ i.phase # tgt.phase
         /\ EndedWith(i.done)
         /\ UNCHANGED <<tgt, ini, dat, t, script, sasi, moved, inOrder>>
<1>1. i.at = "req" /\ InCall /\ t.at = "ack" /\ GetPhase = tgt.phase
  BY LooksAt DEF PhaseError, Signals, Serving, InCall
<1>2. i.done \in Nat /\ (i.phase \in Data => i.done <= i.length)
  BY <1>1 DEF Records, InitiatorCounts
<1>3. EndedWith(i.done)
  BY <1>2, EndedEffect DEF PhaseError
<1>4. QED
  BY <1>1, <1>3 DEF PhaseError, InitiatorOnly, SameData

\* The index of the next byte of the initiator.
Base == IF i.phase = "COMMAND" THEN i.offset + i.done ELSE i.done

\* The byte of the initiator is on the bus, with ACK.
LEMMA PutByteEffect ==
  ASSUME Records, Signals, PutByte
  PROVE  /\ i.at = "req" /\ t.at = "ack" /\ i.phase = tgt.phase /\ i.phase \in ToTarget
         /\ InitiatorKeeps /\ i'.at = "noreq" /\ i'.phase = i.phase /\ i'.done = i.done
         /\ i'.status = i.status
         /\ InitiatorDrives(FALSE, FALSE, TRUE, FALSE)
         /\ BusHolds(i.cmd, i.phase, Base)
         /\ UNCHANGED <<tgt, t, script, sasi, moved, inOrder>>
<1>1. i.at = "req" /\ InCall /\ t.at = "ack" /\ GetPhase = tgt.phase
  BY LooksAt DEF PutByte, Signals, Serving, InCall
<1>2. InitiatorKeeps /\ i'.at = "noreq" /\ i'.phase = i.phase /\ i'.done = i.done
      /\ i'.status = i.status
  BY InitiatorGoesTo DEF PutByte, InitiatorAt
<1>3. InitiatorDrives(FALSE, FALSE, TRUE, FALSE)
  <2> DEFINE b == ini.atn /\ i.phase # "MSG_OUT"
  <2>1. b \in BOOLEAN /\ ini' = [ini EXCEPT !.ack = TRUE, !.atn = b]
    BY DEF PutByte
  <2> HIDE DEF b
  <2>2. ~ini.bsy /\ ~ini.sel /\ ~ini.rst
    BY <1>1, LooksAt
  <2>3. QED
    BY <2>1, <2>2 DEF Records, InitiatorDrives, InitiatorSignals
<1>4. BusHolds(i.cmd, i.phase, Base)
  <2> DEFINE b == Base
  <2>1. b \in Nat
    BY DEF Records, Base
  <2>2. dat' = [cmd |-> i.cmd, phase |-> i.phase, index |-> b]
    BY DEF PutByte, Base
  <2> HIDE DEF b
  <2>3. BusHolds(i.cmd, i.phase, b)
    BY <2>1, <2>2 DEF Records, BusHolds
  <2>4. QED
    BY <2>3 DEF b
<1>5. QED
  BY <1>1, <1>2, <1>3, <1>4 DEF PutByte, InitiatorOnly

\* The initiator stores the byte of the target, and sets ACK.
LEMMA GetByteEffect ==
  ASSUME Records, Signals, GetByte
  PROVE  /\ i.at = "req" /\ t.at = "ack" /\ i.phase = tgt.phase /\ i.phase \notin ToTarget
         /\ i' \in InitiatorRecord /\ i'.at = "noreq" /\ i'.phase = i.phase /\ i'.done = i.done
         /\ i'.cmd = i.cmd /\ i'.offset = i.offset /\ i'.length = i.length
         /\ i'.status = i.status /\ i'.buf = dat.cmd
         /\ InitiatorDrives(FALSE, FALSE, TRUE, FALSE)
         /\ moved' = IF i.phase = "DATA_IN" THEN moved + 1 ELSE moved
         /\ UNCHANGED <<tgt, dat, t, script, sasi>>
<1>1. i.at = "req" /\ InCall /\ t.at = "ack" /\ GetPhase = tgt.phase
  BY LooksAt DEF GetByte, Signals, Serving, InCall
<1>2. /\ i' \in InitiatorRecord /\ i'.at = "noreq" /\ i'.phase = i.phase /\ i'.done = i.done
      /\ i'.cmd = i.cmd /\ i'.offset = i.offset /\ i'.length = i.length
      /\ i'.status = i.status /\ i'.buf = dat.cmd
  BY DEF GetByte, Records, InitiatorRecord, InitiatorAt
<1>3. InitiatorDrives(FALSE, FALSE, TRUE, FALSE)
  <2>1. ~ini.bsy /\ ~ini.sel /\ ~ini.rst /\ ini' = [ini EXCEPT !.ack = TRUE]
    BY <1>1, LooksAt DEF GetByte
  <2>2. QED
    BY <2>1 DEF Records, InitiatorDrives, InitiatorSignals
<1>4. i.phase = tgt.phase /\ i.phase \notin ToTarget /\ UNCHANGED <<tgt, dat, t, script, sasi>>
  BY <1>1 DEF GetByte, InitiatorOnly
<1>5. moved' = IF i.phase = "DATA_IN" THEN moved + 1 ELSE moved
  BY DEF GetByte
<1>6. QED
  BY <1>1, <1>2, <1>3, <1>4, <1>5, Zenon

\* ACK goes after REQ; a message ends the command.
LEMMA ReqGoneEffect ==
  ASSUME Records, Signals, ReqGone
  PROVE  /\ i.at = "noreq" /\ t.at # "ack"
         /\ \/ i.phase = "MSG_IN" /\ EndedWith(1)
            \/ /\ i.phase # "MSG_IN"
               /\ InitiatorKeeps /\ i'.at = "check" /\ i'.phase = i.phase /\ i'.done = i.done
               /\ i'.status = i.status
         /\ InitiatorDrives(FALSE, FALSE, FALSE, FALSE)
         /\ UNCHANGED <<tgt, dat, t, script, sasi, moved, inOrder>>
<1>1. i.at = "noreq" /\ InCall /\ t.at # "ack"
  BY DEF ReqGone, Signals, InCall
<1>2. InitiatorDrives(FALSE, FALSE, FALSE, FALSE)
  <2>1. ~ini.bsy /\ ~ini.sel /\ ~ini.rst /\ ini' = [ini EXCEPT !.ack = FALSE]
    BY <1>1, LooksAt DEF ReqGone
  <2>2. QED
    BY <2>1 DEF Records, InitiatorDrives, InitiatorSignals
<1>3. CASE i.phase = "MSG_IN"
  <2>1. EndedWith(1)
    BY <1>3, EndedEffect DEF ReqGone, Data
  <2>2. QED
    BY <1>1, <1>2, <1>3, <2>1 DEF ReqGone, SameData, InitiatorOnly
<1>4. CASE i.phase # "MSG_IN"
  <2>1. InitiatorGoes("check")
    BY <1>4 DEF ReqGone, InitiatorGoes
  <2>2. QED
    BY <1>1, <1>2, <1>4, <2>1, InitiatorGoesTo DEF ReqGone, SameData, InitiatorOnly, InitiatorAt
<1>5. QED
  BY <1>3, <1>4

\* Is the target still in the phase of the initiator's call?
SamePhase == tgt.bsy /\ tgt.phase = i.phase

\* After a byte, the call ends in another phase or with its last byte, or goes on.
LEMMA CheckPhaseEffect ==
  ASSUME Records, Signals, InitiatorCounts, CheckPhase
  PROVE  /\ i.at = "check"
         /\ \/ ~SamePhase /\ EndedWith(i.done)
            \/ SamePhase /\ i.done + 1 = Count /\ EndedWith(i.done + 1)
            \/ /\ SamePhase /\ i.done + 1 # Count
               /\ InitiatorKeeps /\ i'.at = "req" /\ i'.phase = i.phase
               /\ i'.done = i.done + 1 /\ i'.status = i.status
         /\ UNCHANGED <<tgt, ini, dat, t, script, sasi, moved, inOrder>>
<1>1. i.at = "check" /\ InCall /\ (GetPhase = i.phase <=> SamePhase)
  BY LooksAt DEF CheckPhase, InCall, SamePhase, Records, Phase
<1>2. /\ i.done \in Nat /\ i.done + 1 \in Nat
      /\ i.phase \in Data => i.done <= i.length /\ i.done + 1 <= i.length
  BY <1>1 DEF Records, InitiatorCounts
<1>3. UNCHANGED <<tgt, ini, dat, t, script, sasi, moved, inOrder>>
  BY DEF CheckPhase, InitiatorOnly, SameData
<1>4. CASE ~SamePhase
  <2>1. EndedWith(i.done)
    BY <1>1, <1>2, <1>4, EndedEffect DEF CheckPhase
  <2>2. QED
    BY <1>1, <1>3, <1>4, <2>1
<1>5. CASE SamePhase /\ i.done + 1 = Count
  <2>1. EndedWith(i.done + 1)
    BY <1>1, <1>2, <1>5, EndedEffect DEF CheckPhase
  <2>2. QED
    BY <1>1, <1>3, <1>5, <2>1
<1>6. CASE SamePhase /\ i.done + 1 # Count
  <2> DEFINE d == i.done + 1
  <2>1. i' = [i EXCEPT !.at = "req", !.done = d] /\ d \in Nat
    BY <1>1, <1>2, <1>6 DEF CheckPhase
  <2> HIDE DEF d
  <2>2. InitiatorKeeps /\ i'.at = "req" /\ i'.phase = i.phase /\ i'.done = d
        /\ i'.status = i.status
    BY <2>1 DEF Records, InitiatorKeeps, InitiatorRecord, InitiatorAt
  <2>3. QED
    BY <1>1, <1>3, <1>6, <2>2 DEF d
<1>7. QED
  BY <1>4, <1>5, <1>6

\* While the target keeps REQ up and sees ACK, nobody has a reason to give up.
LEMMA CallFailsEffect ==
  ASSUME Records, Signals, InitiatorCounts, CallFails
  PROVE  /\ i.at = "req" /\ t.at # "ack"
         /\ EndedWith(i.done)
         /\ InitiatorDrives(FALSE, FALSE, FALSE, FALSE)
         /\ UNCHANGED <<tgt, dat, t, script, sasi, moved, inOrder>>
<1>1. InCall /\ i.at \in {"req", "noreq"}
  BY DEF CallFails, InCall
<1>2. i.at = "req" /\ t.at # "ack"
  BY <1>1
     DEF CallFails, Signals, InitiatorFails, InitiatorWaits, TargetAway, TargetWaits, Rst, Serving
<1>3. i.done \in Nat /\ (i.phase \in Data => i.done <= i.length)
  BY <1>1 DEF Records, InitiatorCounts
<1>4. EndedWith(i.done)
  BY <1>3, EndedEffect DEF CallFails
<1>5. InitiatorDrives(FALSE, FALSE, FALSE, FALSE)
  <2>1. ~ini.bsy /\ ~ini.sel /\ ~ini.rst /\ ini' = [ini EXCEPT !.ack = FALSE]
    BY <1>1, LooksAt DEF CallFails
  <2>2. QED
    BY <2>1 DEF Records, InitiatorDrives, InitiatorSignals
<1>6. QED
  BY <1>2, <1>4, <1>5 DEF CallFails, InitiatorOnly, SameData

\* Timeouts, the reset after an exception and the end of the process leave the command.
LEMMA LeavingEffect ==
  ASSUME Records, Signals, TimedOut \/ PulseRST \/ PulseEnds \/ Terminate
  PROVE  InitiatorLeaves /\ i.at # "idle"
<1> None \in 0..MaxCommands
  BY HandshakeAssumption DEF None
<1>1. CASE TimedOut
  <2>1. InitiatorKeeps /\ i'.at = "idle" /\ i'.status = i.status
    BY <1>1, InitiatorGoesTo DEF TimedOut, InitiatorAt
  <2>2. ini' \in InitiatorSignals /\ ~ini'.bsy /\ ~ini'.sel /\ ~ini'.ack /\ ~ini'.rst
    BY <1>1, LooksAt DEF TimedOut, Silent, InitiatorSignals, Records, Signals
  <2>3. QED
    BY <1>1, <2>1, <2>2 DEF TimedOut, InitiatorLeaves, InitiatorOnly, SameData
<1>2. CASE PulseRST
  <2>1. InitiatorKeeps /\ i'.at = "pulse" /\ i'.status = i.status
    BY <1>2, InitiatorGoesTo DEF PulseRST, InitiatorAt
  <2>2. ini' \in InitiatorSignals /\ ~ini'.bsy /\ ~ini'.sel /\ ~ini'.ack /\ ini'.rst
    BY <1>2 DEF PulseRST, InitiatorSignals, Records, Signals
  <2>3. QED
    BY <1>2, <2>1, <2>2 DEF PulseRST, InitiatorLeaves, InitiatorOnly, SameData
<1>3. CASE PulseEnds \/ Terminate
  <2>1. i' = [i EXCEPT !.at = "idle", !.status = None] /\ ini' = Silent /\ i.at # "idle"
    BY <1>3 DEF PulseEnds, Terminate
  <2>2. InitiatorKeeps /\ i'.at = "idle" /\ i'.status = None
    BY <2>1 DEF Records, InitiatorKeeps, InitiatorRecord, InitiatorAt
  <2>3. ini' \in InitiatorSignals /\ ~ini'.bsy /\ ~ini'.sel /\ ~ini'.ack /\ ~ini'.rst
    BY <2>1 DEF Silent, InitiatorSignals
  <2>4. QED
    BY <1>3, <2>1, <2>2, <2>3 DEF PulseEnds, Terminate, InitiatorLeaves, InitiatorOnly, SameData
<1>4. QED
  BY <1>1, <1>2, <1>3
-------------------------------------------------------------------------------
(* With arbitration, a target that serves meets the command that selected it. *)

\* The initiator looks at the phases of the target.
Joined == i.at = "loop" \/ InCall
Meeting == Joined /\ Serving

\* Nothing has happened to the command of an initiator that has just begun.
Fresh ==
  i.cmd # None /\ i.offset = 0 /\ i.status = None /\ i.length = script[i.cmd].length

\* Until the target leaves the selection, the initiator is not in a phase.
Selecting ==
  /\ i.at \in {"free", "select", "busy"} => Fresh
  /\ i.at = "select" => ~tgt.bsy
  /\ i.at = "busy" /\ tgt.bsy => t.at = "selection"
  /\ Joined /\ t.at = "selection" => i.at = "loop" /\ Fresh

\* The initiator may still be in a phase that the target has left, but then the target
\* cannot get any further than its first byte.
Places ==
  Meeting =>
    /\ i.at = "noreq" =>
         /\ i.phase = tgt.phase /\ t.at # "execute"
         /\ tgt.phase \in ToTarget => t.at \in {"ack", "noack"}
    /\ InCall /\ i.phase # tgt.phase => t.n = 0 /\ t.at \in {"raise", "ack"}
    /\ tgt.phase = "MSG_OUT" /\ InCall => i.phase = "MSG_OUT"
    /\ tgt.phase = "COMMAND" /\ InCall => i.phase \in {"MSG_OUT", "COMMAND"}

\* The bytes of the phase the target has taken from the initiator.
Taken == IF t.at = "noack" THEN t.n + 1 ELSE t.n

\* Both sides count the bytes to the target alike.
Counts ==
  Meeting =>
    /\ InCall /\ i.phase = tgt.phase /\ tgt.phase \in ToTarget =>
         /\ i.at = "req" => Base = Taken
         /\ i.at = "noreq" => Base = t.n
         /\ i.at = "check" => Base + 1 = Taken
    /\ tgt.phase = "MSG_OUT" => i.offset = 0
    /\ tgt.phase = "COMMAND" =>
         /\ i.at = "loop" => i.offset = Taken
         /\ InCall /\ i.phase # "COMMAND" => i.offset = 0
    /\ tgt.phase = "DATA_OUT" /\ i.at = "loop" => Taken = 0 \/ i.length = 0

\* The byte on the bus while REQ is up.
Byte ==
  Meeting /\ t.at = "ack" =>
    /\ tgt.phase \notin ToTarget =>
         dat.cmd = t.cmd /\ dat.phase = tgt.phase /\ dat.index = t.n
    /\ tgt.phase \in ToTarget /\ i.at = "noreq" =>
         dat.cmd = i.cmd /\ dat.phase = tgt.phase /\ dat.index = Base

\* The target executes the command of the initiator, in the phases it has.
SameCommand ==
  Meeting =>
    /\ tgt.phase = "COMMAND" /\ Taken > 0 => t.cmd = i.cmd
    /\ tgt.phase \notin {"MSG_OUT", "COMMAND"} => t.cmd = i.cmd
    /\ tgt.phase \in Data => tgt.phase = script[i.cmd].data

\* What has been stored is what the target has counted.
Stored ==
  Meeting =>
    /\ tgt.phase = "DATA_IN" => moved = IF i.at = "noreq" /\ t.at = "ack" THEN t.n + 1 ELSE t.n
    /\ tgt.phase = "DATA_OUT" => moved = Taken
    /\ tgt.phase \in {"STATUS", "MSG_IN"} /\ script[i.cmd].data \in Data => moved = Total

-------------------------------------------------------------------------------
(* The status. *)

\* The bytes of the data phase the initiator has counted.
Counted == script[i.cmd].length - i.length
DataDone ==
  script[i.cmd].data \in Data => moved = Total /\ Counted \in {Total - 1, Total}

\* What the initiator has counted, and counts in its call, is what has been stored.
Accounts ==
  Meeting =>
    /\ tgt.phase \in {"MSG_OUT", "COMMAND"} => Counted = 0
    /\ tgt.phase \in Data /\ i.at = "loop" => Counted = moved
    /\ tgt.phase \in Data /\ InCall /\ i.phase # tgt.phase => Counted = 0
    /\ InCall /\ i.phase \in Data =>
         /\ i.phase = script[i.cmd].data
         /\ i.at = "req" => Counted + i.done = moved
         /\ i.at = "check" => Counted + i.done + 1 = moved
         /\ i.at = "noreq" => Counted + i.done = IF i.phase = "DATA_OUT" THEN t.n ELSE moved - 1
         /\ i.phase = "DATA_OUT" => Counted = 0

\* All the data come before the status, and the status is the one of this command.
Own ==
  Meeting =>
    /\ tgt.phase \in {"STATUS", "MSG_IN"} /\ (InCall => i.phase \notin Data) => DataDone
    /\ InCall /\ i.phase = "STATUS" /\ i.at # "req" => i.buf = i.cmd

\* Nothing of this changes once the initiator has the status.
StatusComplete ==
  i.status # None =>
    /\ i.status = i.cmd /\ DataDone
    /\ InCall => i.phase \in {"STATUS", "MSG_IN"}
    /\ Meeting => tgt.phase \in {"STATUS", "MSG_IN"}

\* What the steps of a target and an initiator that have met, or will, keep.
MeetingKept ==
  Selecting /\ Places /\ Counts /\ Byte /\ SameCommand /\ Stored
            /\ Accounts /\ Own /\ StatusComplete

IInv == Basic /\ BytesInOrder /\ (~sasi => MeetingKept)

-------------------------------------------------------------------------------
(* The basic invariant, with and without arbitration. *)

\* A target that waits for its selection keeps the basic invariant.
LEMMA BasicWait ==
  ASSUME Basic, WaitForSelection \/ WaitForNotBusy
  PROVE  Basic'
<1> Records /\ Signals /\ TargetCounts /\ InitiatorCounts /\ MovedBounds /\ CommandsKnown
  BY DEF Basic
<1>1. Records'
  BY WaitEffect DEF TargetBecomes, Records
<1>2. Signals'
  BY WaitEffect DEF Signals, Serving
<1>3. TargetCounts'
  BY WaitEffect DEF TargetBecomes, TargetCounts, Serving
<1>4. InitiatorCounts'
  BY WaitEffect DEF InitiatorCounts, InCall
<1>5. MovedBounds'
  BY WaitEffect DEF MovedBounds, Serving
<1>6. CommandsKnown'
  BY WaitEffect DEF CommandsKnown, Serving
<1>7. QED
  BY <1>1, <1>2, <1>3, <1>4, <1>5, <1>6 DEF Basic

\* A target that leaves keeps the basic invariant.
LEMMA BasicLeave ==
  ASSUME Basic, TargetLeaves
  PROVE  Basic'
<1> Records /\ Signals /\ TargetCounts /\ InitiatorCounts /\ MovedBounds /\ CommandsKnown
  BY DEF Basic
<1>1. Records'
  BY DEF TargetLeaves, TargetBecomes, TargetDrives, Records
<1>2. Signals'
  BY DEF TargetLeaves, TargetBecomes, TargetDrives, Signals, Serving
<1>3. TargetCounts'
  BY DEF TargetLeaves, TargetBecomes, TargetCounts, Serving
<1>4. InitiatorCounts'
  BY DEF TargetLeaves, InitiatorCounts, InCall
<1>5. MovedBounds'
  BY DEF TargetLeaves, TargetBecomes, TargetDrives, MovedBounds
<1>6. CommandsKnown'
  BY DEF TargetLeaves, TargetBecomes, CommandsKnown, Serving
<1>7. QED
  BY <1>1, <1>2, <1>3, <1>4, <1>5, <1>6 DEF Basic

\* An answer to a selection keeps the basic invariant.
LEMMA BasicAnswer ==
  ASSUME Basic, Answer
  PROVE  Basic'
<1> Records /\ Signals /\ TargetCounts /\ InitiatorCounts /\ MovedBounds /\ CommandsKnown
  BY DEF Basic
<1>1. Records'
  BY AnswerEffect DEF TargetBecomes, TargetDrives, Records, Phase
<1>2. Signals'
  BY AnswerEffect DEF TargetBecomes, TargetDrives, Rst, Signals, Serving
<1>3. TargetCounts'
  BY AnswerEffect DEF TargetBecomes, TargetCounts, Serving
<1>4. InitiatorCounts'
  BY AnswerEffect DEF InitiatorCounts, InCall
<1>5. MovedBounds'
  BY AnswerEffect DEF TargetBecomes, MovedBounds, Serving, Signals
<1>6. CommandsKnown'
  BY AnswerEffect DEF TargetBecomes, CommandsKnown, Serving
<1>7. QED
  BY <1>1, <1>2, <1>3, <1>4, <1>5, <1>6 DEF Basic

\* The end of a selection keeps the basic invariant.
LEMMA BasicSelected ==
  ASSUME Basic, Selected
  PROVE  Basic'
<1> Records /\ Signals /\ TargetCounts /\ InitiatorCounts /\ MovedBounds /\ CommandsKnown
  BY DEF Basic
<1>1. Records'
  BY SelectedEffect DEF TargetBecomes, TargetDrives, Records
<1>2. Signals'
  BY SelectedEffect DEF TargetBecomes, TargetDrives, Signals, Serving
<1>3. TargetCounts'
  BY SelectedEffect, HandshakeAssumption DEF TargetBecomes, TargetCounts
<1>4. InitiatorCounts'
  BY SelectedEffect DEF InitiatorCounts, InCall
<1>5. MovedBounds'
  BY SelectedEffect DEF TargetDrives, MovedBounds
<1>6. CommandsKnown'
  BY SelectedEffect DEF TargetBecomes, TargetDrives, CommandsKnown
<1>7. QED
  BY <1>1, <1>2, <1>3, <1>4, <1>5, <1>6 DEF Basic

\* SetREQ(true) keeps the basic invariant.
LEMMA BasicRaise ==
  ASSUME Basic, Raise
  PROVE  Basic'
<1> Records /\ Signals /\ TargetCounts /\ InitiatorCounts /\ MovedBounds /\ CommandsKnown
  BY DEF Basic
<1>1. Records'
  BY RaiseEffect DEF TargetBecomes, TargetDrives, BusHolds, Records
<1>2. Signals'
  BY RaiseEffect DEF TargetBecomes, TargetDrives, Signals, Serving
<1>3. TargetCounts'
  BY RaiseEffect DEF TargetBecomes, TargetDrives, TargetCounts, Serving
<1>4. InitiatorCounts'
  BY RaiseEffect DEF InitiatorCounts, InCall
<1>5. MovedBounds'
  <2>1. /\ t'.at = "ack" /\ t'.n = t.n /\ tgt'.phase = tgt.phase /\ t.at = "raise"
        /\ UNCHANGED <<i, moved>>
    BY RaiseEffect DEF TargetBecomes, TargetDrives
  <2>2. t.n \in Nat /\ moved \in Nat
    BY DEF Records
  <2>3. QED
    BY <2>1, <2>2 DEF MovedBounds, Serving
<1>6. CommandsKnown'
  <2>1. /\ t'.at = "ack" /\ t'.n = t.n /\ t'.cmd = t.cmd /\ tgt'.phase = tgt.phase
        /\ t.at = "raise" /\ UNCHANGED <<ini, i>>
        /\ IF tgt.phase \in ToTarget THEN dat' = dat ELSE dat'.cmd = t.cmd
    BY RaiseEffect DEF TargetBecomes, TargetDrives, BusHolds
  <2>2. QED
    BY <2>1 DEF CommandsKnown, Serving, ToTarget
<1>7. QED
  BY <1>1, <1>2, <1>3, <1>4, <1>5, <1>6 DEF Basic

\* A byte the target takes keeps the basic invariant.
LEMMA BasicTakeByte ==
  ASSUME Basic, TakeByte
  PROVE  Basic'
<1> Records /\ Signals /\ TargetCounts /\ InitiatorCounts /\ MovedBounds /\ CommandsKnown
  BY DEF Basic
<1>1. Records'
  <2>1. t' \in [at : TargetAt, cmd : 0..MaxCommands, n : Nat, edge : BOOLEAN]
    BY TakeByteEffect DEF TargetBecomes
  <2>2. tgt' \in [bsy : BOOLEAN, req : BOOLEAN, rst : BOOLEAN, phase : Phase]
    BY TakeByteEffect DEF TargetDrives
  <2>3. UNCHANGED <<ini, dat, i, script, sasi>>
    BY TakeByteEffect
  <2>4. t.n \in Nat /\ moved \in Nat /\ moved' = IF tgt.phase = "DATA_OUT" THEN t.n + 1 ELSE moved
    BY TakeByteEffect DEF Records
  <2>5. moved' \in Nat
    BY <2>4
  <2>6. QED
    BY <2>1, <2>2, <2>3, <2>5 DEF Records
<1>2. Signals'
  BY TakeByteEffect DEF TargetBecomes, TargetDrives, Signals, Serving
<1>3. TargetCounts'
  BY TakeByteEffect DEF TargetBecomes, TargetDrives, TargetCounts, Serving, Data
<1>4. InitiatorCounts'
  BY TakeByteEffect DEF InitiatorCounts, InCall
<1>5. MovedBounds'
  <2>1. /\ t.at = "ack" /\ t'.at = "noack" /\ t'.n = t.n /\ tgt'.phase = tgt.phase
        /\ moved' = IF tgt.phase = "DATA_OUT" THEN t.n + 1 ELSE moved
        /\ i' = i /\ i.at = "noreq" /\ tgt.phase # "DATA_IN"
    BY TakeByteEffect DEF TargetBecomes, TargetDrives, Signals, ToTarget
  <2>2. t.n \in Nat /\ moved \in Nat /\ Total \in Nat
    BY HandshakeAssumption DEF Records
  <2>3. tgt.phase = "DATA_OUT" => t.n < Total
    BY <2>1 DEF TargetCounts, Serving, Data
  <2>4. QED
    BY <2>1, <2>2, <2>3 DEF MovedBounds, Serving
<1>6. CommandsKnown'
  BY TakeByteEffect DEF TargetBecomes, TargetDrives, CommandsKnown, Serving
<1>7. QED
  BY <1>1, <1>2, <1>3, <1>4, <1>5, <1>6 DEF Basic

\* A byte the initiator has seen keeps the basic invariant.
LEMMA BasicByteTaken ==
  ASSUME Basic, ByteTaken
  PROVE  Basic'
<1> Records /\ Signals /\ TargetCounts /\ InitiatorCounts /\ MovedBounds /\ CommandsKnown
  BY DEF Basic
<1>1. Records'
  BY ByteTakenEffect DEF TargetBecomes, TargetDrives, Records, Data
<1>2. Signals'
  BY ByteTakenEffect DEF TargetBecomes, TargetDrives, Signals, Serving
<1>3. TargetCounts'
  <2> DEFINE last == LastOfCall(t.n + 1)
             n == t'.n
  <2>1. /\ t.at = "ack" /\ t'.at = (IF last THEN "noack" ELSE "raise") /\ n = t.n + 1
        /\ tgt'.phase = tgt.phase /\ tgt.phase \in {"DATA_IN", "STATUS", "MSG_IN"}
    BY ByteTakenEffect DEF TargetBecomes, TargetDrives, ToTarget, Phase
  <2>2. t.n \in Nat /\ Total \in Nat /\ CdbLength \in Nat
    BY HandshakeAssumption DEF Records
  <2>3. n \in Nat
    BY <2>1, <2>2
  <2>4. /\ tgt.phase = "DATA_IN" => n <= Total /\ (n = Total => last)
        /\ tgt.phase # "DATA_IN" => n = 1 /\ last
    BY <2>1, <2>2 DEF TargetCounts, Serving, LastOfCall, Data
  <2> HIDE DEF last
  <2>5. n <= CdbLength \/ n <= Total
    BY <2>4, HandshakeAssumption
  <2>6. QED
    BY <2>1, <2>2, <2>4, <2>5 DEF TargetCounts, Data
<1>4. InitiatorCounts'
  BY ByteTakenEffect DEF InitiatorCounts, InCall
<1>5. MovedBounds'
  BY ByteTakenEffect DEF TargetBecomes, TargetDrives, MovedBounds, Serving, Signals
<1>6. CommandsKnown'
  BY ByteTakenEffect DEF TargetBecomes, ToTarget, CommandsKnown, Serving
<1>7. QED
  BY <1>1, <1>2, <1>3, <1>4, <1>5, <1>6 DEF Basic

\* The end of a handshake keeps the basic invariant.
LEMMA BasicAckGone ==
  ASSUME Basic, AckGone
  PROVE  Basic'
<1> Records /\ Signals /\ TargetCounts /\ InitiatorCounts /\ MovedBounds /\ CommandsKnown
  BY DEF Basic
<1>1. Records'
  BY AckGoneEffect DEF TargetBecomes, Records
<1>2. Signals'
  BY AckGoneEffect DEF TargetBecomes, Signals, Serving
<1>3. TargetCounts'
  BY AckGoneEffect, HandshakeAssumption
     DEF TargetBecomes, ToTarget, LastOfCall, TargetCounts, Serving, Records, Data
<1>4. InitiatorCounts'
  BY AckGoneEffect DEF InitiatorCounts, InCall
<1>5. MovedBounds'
  BY AckGoneEffect DEF TargetBecomes, MovedBounds, Serving, Records
<1>6. CommandsKnown'
  BY AckGoneEffect DEF TargetBecomes, CommandsKnown, Serving
<1>7. QED
  BY <1>1, <1>2, <1>3, <1>4, <1>5, <1>6 DEF Basic

\* The start of a command keeps the basic invariant.
LEMMA BasicExecute ==
  ASSUME Basic, Execute
  PROVE  Basic'
<1> Records /\ Signals /\ TargetCounts /\ InitiatorCounts /\ MovedBounds /\ CommandsKnown
  BY DEF Basic
<1>1. Records'
  <2>1. i' \in InitiatorRecord
    BY ExecuteEffect
  <2>2. ini' \in InitiatorSignals
    BY ExecuteEffect DEF InitiatorDrives
  <2>3. moved' \in Nat /\ UNCHANGED <<tgt, dat, t, script, sasi>>
    BY ExecuteEffect
  <2>4. QED
    BY <2>1, <2>2, <2>3 DEF Records, InitiatorRecord, InitiatorSignals
<1>2. Signals'
  BY ExecuteEffect DEF InitiatorDrives, Signals, Serving
<1>3. TargetCounts'
  BY ExecuteEffect DEF TargetCounts, Serving
<1>4. InitiatorCounts'
  BY ExecuteEffect DEF InitiatorCounts, InCall
<1>5. MovedBounds'
  <2>1. moved' = 0 /\ UNCHANGED <<tgt, t>>
    BY ExecuteEffect
  <2>2. t.n \in Nat /\ t.n + 1 \in Nat /\ Total \in Nat
    BY HandshakeAssumption DEF Records
  <2>3. QED
    BY <2>1, <2>2 DEF MovedBounds
<1>6. CommandsKnown'
  <2>1. i'.cmd = i.cmd + 1 /\ UNCHANGED <<tgt, dat, t>> /\ ~ini'.ack
    BY ExecuteEffect DEF InitiatorDrives
  <2>2. i'.cmd # None
    BY <2>1 DEF None, Records
  <2>3. QED
    BY <2>1, <2>2 DEF CommandsKnown, Serving
<1>7. QED
  BY <1>1, <1>2, <1>3, <1>4, <1>5, <1>6 DEF Basic

\* Arbitration and selection keeps the basic invariant.
LEMMA BasicSelection ==
  ASSUME Basic, Arbitrate \/ (\E atn \in BOOLEAN : Select(atn)) \/ Answered
  PROVE  Basic'
<1> Records /\ Signals /\ TargetCounts /\ InitiatorCounts /\ MovedBounds /\ CommandsKnown
  BY DEF Basic
<1>1. Records'
  BY SelectionEffect
     DEF InitiatorKeeps, InitiatorDrives, TargetStays, TargetBecomes, Records, InitiatorRecord,
         InitiatorSignals
<1>2. Signals'
  BY SelectionEffect DEF InitiatorDrives, TargetStays, TargetBecomes, Signals, Serving
<1>3. TargetCounts'
  BY SelectionEffect DEF TargetStays, TargetBecomes, TargetCounts, Serving
<1>4. InitiatorCounts'
  BY SelectionEffect DEF InitiatorCounts, InCall
<1>5. MovedBounds'
  <2>1. /\ t'.at = t.at /\ t'.n = t.n /\ UNCHANGED <<tgt, moved>>
        /\ i.at \in {"free", "select", "busy"}
    BY SelectionEffect DEF TargetStays, TargetBecomes
  <2>2. moved = 0 /\ t.n \in Nat /\ t.n + 1 \in Nat
    BY <2>1 DEF MovedBounds, Records
  <2>3. Total \in Nat
    BY HandshakeAssumption
  <2>4. QED
    BY <2>1, <2>2 DEF MovedBounds
<1>6. CommandsKnown'
  BY SelectionEffect
     DEF InitiatorKeeps, InitiatorDrives, TargetStays, TargetBecomes, CommandsKnown, Serving
<1>7. QED
  BY <1>1, <1>2, <1>3, <1>4, <1>5, <1>6 DEF Basic

\* The start of a call keeps the basic invariant.
LEMMA BasicDispatch ==
  ASSUME Basic, Dispatch
  PROVE  Basic'
<1> Records /\ Signals /\ TargetCounts /\ InitiatorCounts /\ MovedBounds /\ CommandsKnown
  BY DEF Basic
<1>1. Records'
  BY DispatchEffect DEF InitiatorKeeps, Records, InitiatorRecord
<1>2. Signals'
  BY DispatchEffect DEF Signals, Serving
<1>3. TargetCounts'
  BY DispatchEffect DEF TargetCounts, Serving
<1>4. InitiatorCounts'
  BY DispatchEffect DEF InitiatorKeeps, InitiatorCounts, InCall, Records
<1>5. MovedBounds'
  BY DispatchEffect DEF MovedBounds, Serving, Records
<1>6. CommandsKnown'
  BY DispatchEffect DEF InitiatorKeeps, CommandsKnown, Serving
<1>7. QED
  BY <1>1, <1>2, <1>3, <1>4, <1>5, <1>6 DEF Basic

\* A call that ends in another phase keeps the basic invariant.
LEMMA BasicPhaseError ==
  ASSUME Basic, PhaseError
  PROVE  Basic'
<1> Records /\ Signals /\ TargetCounts /\ InitiatorCounts /\ MovedBounds /\ CommandsKnown
  BY DEF Basic
<1>1. Records'
  BY PhaseErrorEffect DEF EndedWith, Records, InitiatorRecord
<1>2. Signals'
  BY PhaseErrorEffect DEF EndedWith, Signals, Serving
<1>3. TargetCounts'
  BY PhaseErrorEffect DEF TargetCounts, Serving
<1>4. InitiatorCounts'
  BY PhaseErrorEffect DEF EndedWith, InitiatorCounts, InCall
<1>5. MovedBounds'
  BY PhaseErrorEffect DEF EndedWith, MovedBounds, Serving, Records
<1>6. CommandsKnown'
  BY PhaseErrorEffect DEF EndedWith, CommandsKnown, Serving
<1>7. QED
  BY <1>1, <1>2, <1>3, <1>4, <1>5, <1>6 DEF Basic

\* A byte of the initiator on the bus keeps the basic invariant.
LEMMA BasicPutByte ==
  ASSUME Basic, PutByte
  PROVE  Basic'
<1> Records /\ Signals /\ TargetCounts /\ InitiatorCounts /\ MovedBounds /\ CommandsKnown
  BY DEF Basic
<1>1. Records'
  BY PutByteEffect
     DEF InitiatorKeeps, InitiatorDrives, BusHolds, Records, InitiatorRecord, InitiatorSignals,
         Data
<1>2. Signals'
  BY PutByteEffect DEF InitiatorDrives, Signals, Serving
<1>3. TargetCounts'
  BY PutByteEffect DEF TargetCounts, Serving
<1>4. InitiatorCounts'
  BY PutByteEffect DEF InitiatorKeeps, InitiatorCounts, InCall
<1>5. MovedBounds'
  BY PutByteEffect DEF ToTarget, MovedBounds, Serving
<1>6. CommandsKnown'
  BY PutByteEffect DEF InitiatorKeeps, BusHolds, CommandsKnown, Serving
<1>7. QED
  BY <1>1, <1>2, <1>3, <1>4, <1>5, <1>6 DEF Basic

\* A byte the initiator stores keeps the basic invariant.
LEMMA BasicGetByte ==
  ASSUME Basic, GetByte
  PROVE  Basic'
<1> Records /\ Signals /\ TargetCounts /\ InitiatorCounts /\ MovedBounds /\ CommandsKnown
  BY DEF Basic
<1>1. Records'
  <2>1. i' \in InitiatorRecord /\ ini' \in InitiatorSignals /\ UNCHANGED <<tgt, dat, t, script, sasi>>
    BY GetByteEffect DEF InitiatorDrives
  <2>2. moved \in Nat /\ moved' = IF i.phase = "DATA_IN" THEN moved + 1 ELSE moved
    BY GetByteEffect DEF Records
  <2>3. moved' \in Nat
    BY <2>2
  <2>4. QED
    BY <2>1, <2>3 DEF Records, InitiatorRecord, InitiatorSignals
<1>2. Signals'
  BY GetByteEffect DEF InitiatorDrives, Signals, Serving
<1>3. TargetCounts'
  BY GetByteEffect DEF TargetCounts, Serving
<1>4. InitiatorCounts'
  BY GetByteEffect DEF InitiatorCounts, InCall
<1>5. MovedBounds'
  <2>1. /\ i.at = "req" /\ i'.at = "noreq" /\ t.at = "ack" /\ i.phase = tgt.phase
        /\ moved' = IF i.phase = "DATA_IN" THEN moved + 1 ELSE moved
        /\ UNCHANGED <<tgt, t>>
    BY GetByteEffect
  <2>2. t.n \in Nat /\ moved \in Nat /\ Total \in Nat
    BY HandshakeAssumption DEF Records
  <2>3. tgt.phase = "DATA_IN" => t.n < Total /\ moved <= t.n
    BY <2>1 DEF TargetCounts, MovedBounds, Serving, Data
  <2>4. QED
    BY <2>1, <2>2, <2>3 DEF MovedBounds, Serving
<1>6. CommandsKnown'
  BY GetByteEffect DEF CommandsKnown, Serving
<1>7. QED
  BY <1>1, <1>2, <1>3, <1>4, <1>5, <1>6 DEF Basic

\* The end of REQ keeps the basic invariant.
LEMMA BasicReqGone ==
  ASSUME Basic, ReqGone
  PROVE  Basic'
<1> Records /\ Signals /\ TargetCounts /\ InitiatorCounts /\ MovedBounds /\ CommandsKnown
  BY DEF Basic
<1>1. Records'
  BY ReqGoneEffect
     DEF InitiatorKeeps, InitiatorDrives, EndedWith, Records, InitiatorRecord, InitiatorSignals,
         Data
<1>2. Signals'
  BY ReqGoneEffect DEF InitiatorDrives, EndedWith, Signals, Serving
<1>3. TargetCounts'
  BY ReqGoneEffect DEF TargetCounts, Serving
<1>4. InitiatorCounts'
  BY ReqGoneEffect DEF InitiatorKeeps, EndedWith, InitiatorCounts, InCall
<1>5. MovedBounds'
  BY ReqGoneEffect DEF EndedWith, MovedBounds, Serving, Data
<1>6. CommandsKnown'
  BY ReqGoneEffect DEF InitiatorKeeps, InitiatorDrives, EndedWith, CommandsKnown, Serving
<1>7. QED
  BY <1>1, <1>2, <1>3, <1>4, <1>5, <1>6 DEF Basic

\* The look at the phase after a byte keeps the basic invariant.
LEMMA BasicCheckPhase ==
  ASSUME Basic, CheckPhase
  PROVE  Basic'
<1> Records /\ Signals /\ TargetCounts /\ InitiatorCounts /\ MovedBounds /\ CommandsKnown
  BY DEF Basic
<1>1. Records'
  BY CheckPhaseEffect DEF InitiatorKeeps, EndedWith, Records, InitiatorRecord
<1>2. Signals'
  BY CheckPhaseEffect DEF EndedWith, Signals, Serving
<1>3. TargetCounts'
  BY CheckPhaseEffect DEF TargetCounts, Serving
<1>4. InitiatorCounts'
  BY CheckPhaseEffect DEF InitiatorKeeps, EndedWith, Count, InitiatorCounts, InCall, Records
<1>5. MovedBounds'
  BY CheckPhaseEffect DEF EndedWith, MovedBounds, Serving, Records
<1>6. CommandsKnown'
  BY CheckPhaseEffect DEF InitiatorKeeps, EndedWith, CommandsKnown, Serving
<1>7. QED
  BY <1>1, <1>2, <1>3, <1>4, <1>5, <1>6 DEF Basic

\* A call that fails keeps the basic invariant.
LEMMA BasicCallFails ==
  ASSUME Basic, CallFails
  PROVE  Basic'
<1> Records /\ Signals /\ TargetCounts /\ InitiatorCounts /\ MovedBounds /\ CommandsKnown
  BY DEF Basic
<1>1. Records'
  BY CallFailsEffect DEF InitiatorDrives, EndedWith, Records, InitiatorRecord, InitiatorSignals
<1>2. Signals'
  BY CallFailsEffect DEF InitiatorDrives, EndedWith, Signals, Serving
<1>3. TargetCounts'
  BY CallFailsEffect DEF TargetCounts, Serving
<1>4. InitiatorCounts'
  BY CallFailsEffect DEF EndedWith, InitiatorCounts, InCall
<1>5. MovedBounds'
  BY CallFailsEffect DEF EndedWith, MovedBounds, Serving
<1>6. CommandsKnown'
  BY CallFailsEffect DEF InitiatorDrives, EndedWith, CommandsKnown, Serving
<1>7. QED
  BY <1>1, <1>2, <1>3, <1>4, <1>5, <1>6 DEF Basic

\* An initiator that gives up keeps the basic invariant.
LEMMA BasicLeaving ==
  ASSUME Basic, TimedOut \/ PulseRST \/ PulseEnds \/ Terminate
  PROVE  Basic'
<1> Records /\ Signals /\ TargetCounts /\ InitiatorCounts /\ MovedBounds /\ CommandsKnown
  BY DEF Basic
<1>1. Records'
  BY LeavingEffect DEF InitiatorLeaves, InitiatorKeeps, Records, InitiatorRecord, InitiatorSignals
<1>2. Signals'
  BY LeavingEffect DEF InitiatorLeaves, Signals, Serving
<1>3. TargetCounts'
  BY LeavingEffect DEF InitiatorLeaves, TargetCounts, Serving
<1>4. InitiatorCounts'
  BY LeavingEffect DEF InitiatorLeaves, InitiatorCounts, InCall
<1>5. MovedBounds'
  BY LeavingEffect DEF InitiatorLeaves, MovedBounds, Serving, Records
<1>6. CommandsKnown'
  BY LeavingEffect DEF InitiatorLeaves, InitiatorKeeps, CommandsKnown, Serving
<1>7. QED
  BY <1>1, <1>2, <1>3, <1>4, <1>5, <1>6 DEF Basic

\* The phase that follows, for a target that knows its command.
LEMMA FollowingPhase ==
  ASSUME Basic, t.at = "execute", tgt.phase # "MSG_IN"
  PROVE  /\ Following \in Phase
         /\ tgt.phase = "MSG_OUT" => Following = "COMMAND"
         /\ tgt.phase = "COMMAND" => t.cmd \in Command /\ Following = script[t.cmd].data
                                     /\ Following \in Data \cup {"STATUS"}
         /\ tgt.phase \in Data => Following = IF t.n < Total THEN tgt.phase ELSE "STATUS"
         /\ tgt.phase = "STATUS" => Following = "MSG_IN"
<1>1. tgt.phase \in Phase /\ t.cmd \in 0..MaxCommands
  BY DEF Basic, Records
<1>2. tgt.phase = "COMMAND" => t.cmd # None
  BY DEF Basic, CommandsKnown, Serving
<1>3. tgt.phase = "COMMAND" => t.cmd \in Command /\ script[t.cmd].data \in Data \cup {"STATUS"}
  <2>1. tgt.phase = "COMMAND" => t.cmd \in Command
    BY <1>1, <1>2 DEF None, Command
  <2>2. QED
    BY <2>1 DEF Basic, Records
<1>4. QED
  BY <1>3 DEF Following, Phase, Data

\* So does the phase that follows: it starts at its first byte.
LEMMA BasicProceed ==
  ASSUME Basic, Proceed
  PROVE  Basic'
<1> Records /\ Signals /\ TargetCounts /\ InitiatorCounts /\ MovedBounds /\ CommandsKnown
  BY DEF Basic
<1>1. CASE tgt.phase = "MSG_IN"
  <2>1. TargetLeaves
    BY <1>1, TargetGoesTo, TargetReleases DEF Proceed, TargetOnly, TargetLeaves, TargetAt
  <2>2. QED
    BY <2>1, BasicLeave
<1>2. CASE tgt.phase # "MSG_IN"
  <2> DEFINE p == Following
             m == IF p = tgt.phase THEN t.n ELSE 0
  <2>1. t.at = "execute" /\ p \in Phase
    BY <1>2, FollowingPhase DEF Proceed
  <2>2. /\ TargetBecomes("raise", t.cmd, m)
        /\ TargetDrives(tgt.bsy, tgt.req, tgt.rst, p)
        /\ UNCHANGED <<ini, dat, i, script, sasi, moved, inOrder>>
    BY <1>2, <2>1, ProceedEffect
  <2>3. /\ tgt.phase = "MSG_OUT" => p = "COMMAND"
        /\ tgt.phase = "COMMAND" => t.cmd # None /\ p \in Data \cup {"STATUS"}
        /\ tgt.phase \in Data => p = IF t.n < Total THEN tgt.phase ELSE "STATUS"
        /\ tgt.phase = "STATUS" => p = "MSG_IN"
    BY <1>2, <2>1, FollowingPhase DEF Command, None
  <2>4. m \in Nat /\ t.n \in Nat /\ moved \in Nat /\ Total \in Nat \ {0} /\ CdbLength \in Nat \ {0}
    BY HandshakeAssumption DEF Records
  <2>5. p = tgt.phase => p \in Data /\ m = t.n /\ t.n < Total
    BY <1>2, <2>3 DEF Data, Records, Phase
  <2>6. p # tgt.phase => m = 0
    OBVIOUS
  <2> HIDE DEF p, m
  <2>7. /\ t'.at = "raise" /\ t'.cmd = t.cmd /\ t'.n = m
        /\ tgt'.phase = p /\ (tgt'.bsy <=> tgt.bsy) /\ (tgt'.req <=> tgt.req) /\ (tgt'.rst <=> tgt.rst)
    BY <2>2 DEF TargetBecomes, TargetDrives
  <2>8. Records'
    BY <2>2 DEF TargetBecomes, TargetDrives, Records
  <2>9. Signals'
    BY <2>1, <2>2, <2>7 DEF Signals, Serving
  <2>10. TargetCounts'
    BY <2>4, <2>5, <2>6, <2>7 DEF TargetCounts, Data
  <2>11. InitiatorCounts'
    BY <2>2 DEF InitiatorCounts, InCall
  <2>12. MovedBounds'
    <3>1. moved <= Total /\ UNCHANGED <<i, moved>>
      BY <2>2 DEF MovedBounds
    <3>2. p \in {"MSG_OUT", "COMMAND"} => moved = 0
      BY <1>2, <2>1, <2>3 DEF MovedBounds, Serving, Data, Records, Phase
    <3>3. p = "DATA_IN" => moved <= m
      <4>1. CASE tgt.phase = "COMMAND"
        BY <2>1, <2>4, <4>1 DEF MovedBounds, Serving
      <4>2. CASE tgt.phase # "COMMAND"
        BY <1>2, <2>1, <2>3, <2>5, <4>2 DEF MovedBounds, Serving, Data, Records, Phase
      <4>3. QED
        BY <4>1, <4>2
    <3>4. i.at \in {"free", "select", "busy"} => moved = 0
      BY DEF MovedBounds
    <3>5. QED
      BY <2>7, <3>1, <3>2, <3>3 DEF MovedBounds
  <2>13. CommandsKnown'
    BY <2>1, <2>2, <2>3, <2>6, <2>7 DEF CommandsKnown, Serving
  <2>14. QED
    BY <2>8, <2>9, <2>10, <2>11, <2>12, <2>13 DEF Basic
<1>3. QED
  BY <1>1, <1>2

\* The basic invariant holds at the start.
LEMMA InitBasic ==
  ASSUME Init
  PROVE  Basic
<1>1. Records
  <2>1. /\ tgt \in [bsy : BOOLEAN, req : BOOLEAN, rst : BOOLEAN, phase : Phase]
        /\ ini \in [bsy : BOOLEAN, sel : BOOLEAN, atn : BOOLEAN, ack : BOOLEAN, rst : BOOLEAN]
    BY DEF Init, Released, Silent, Phase
  <2>2. /\ dat \in [cmd : 0..MaxCommands, phase : Phase, index : Nat]
        /\ t \in [at : TargetAt, cmd : 0..MaxCommands, n : Nat, edge : BOOLEAN]
        /\ i \in InitiatorRecord
    BY HandshakeAssumption DEF Init, None, Phase, TargetAt, InitiatorAt, InitiatorRecord
  <2>3. QED
    BY <2>1, <2>2 DEF Init, Records, InitiatorRecord
<1>2. Signals /\ InitiatorCounts
  BY DEF Init, Signals, Serving, InitiatorCounts, InCall, Released, Silent
<1>3. TargetCounts /\ MovedBounds /\ CommandsKnown
  BY HandshakeAssumption DEF Init, TargetCounts, MovedBounds, CommandsKnown, Serving, Silent
<1>4. QED
  BY <1>1, <1>2, <1>3 DEF Basic

\* Every step keeps the basic invariant.
LEMMA KeepsBasic ==
  ASSUME Basic, [Next]_vars
  PROVE  Basic'
<1> Records /\ Signals
  BY DEF Basic
<1>1. CASE TargetStep
  <2>1. CASE WaitForSelection \/ WaitForNotBusy
    BY <2>1, BasicWait
  <2>2. CASE Reset
    BY <2>2, ResetEffect, BasicLeave
  <2>3. CASE GiveUpPhase
    BY <2>3, GiveUpEffect, BasicLeave
  <2>4. QED
    BY <1>1, <2>1, <2>2, <2>3, BasicAnswer, BasicSelected, BasicProceed, BasicRaise,
       BasicTakeByte, BasicByteTaken, BasicAckGone
       DEF TargetStep
<1>2. CASE InitiatorStep \/ Execute \/ Terminate
  BY <1>2, BasicExecute, BasicSelection, BasicDispatch, BasicPhaseError, BasicPutByte,
     BasicGetByte, BasicReqGone, BasicCheckPhase, BasicCallFails, BasicLeaving
     DEF InitiatorStep
<1>3. CASE UNCHANGED vars
  BY <1>3
     DEF vars, Basic, Records, Signals, TargetCounts, InitiatorCounts, MovedBounds, CommandsKnown,
         Serving, InCall
<1>4. QED
  BY <1>1, <1>2, <1>3 DEF Next
-------------------------------------------------------------------------------
(* With arbitration, every step keeps the rest of the invariant. *)

\* The counts are natural numbers, the phases are phases.
LEMMA NumbersAre ==
  ASSUME Records
  PROVE  /\ t.n \in Nat /\ i.done \in Nat /\ i.offset \in Nat /\ i.length \in Nat /\ moved \in Nat
         /\ tgt.phase \in Phase /\ i.phase \in Phase
         /\ i.cmd # None => /\ script[i.cmd].length \in Nat
                            /\ script[i.cmd].data \in Data \cup {"STATUS"}
<1>1. i.cmd # None => i.cmd \in Command
  BY DEF Records, None, Command
<1>2. QED
  BY <1>1, HandshakeAssumption DEF Records

\* A step after which they have not met leaves little to show.
LEMMA NotMet ==
  ASSUME ~Meeting', Selecting', StatusComplete'
  PROVE  MeetingKept'
BY DEF MeetingKept, Places, Counts, Byte, SameCommand, Stored, Accounts, Own

\* A target that waits for its selection keeps the agreement.
LEMMA MetWait ==
  ASSUME Basic, MeetingKept, ~sasi, WaitForSelection \/ WaitForNotBusy
  PROVE  MeetingKept'
<1> /\ Records /\ Signals /\ TargetCounts /\ InitiatorCounts /\ MovedBounds /\ CommandsKnown
    /\ Selecting /\ Places /\ Counts /\ Byte /\ SameCommand /\ Stored
    /\ Accounts /\ Own /\ StatusComplete
  BY DEF Basic, MeetingKept
<1>t. /\ t.n \in Nat /\ i.done \in Nat /\ i.offset \in Nat /\ i.length \in Nat /\ moved \in Nat
      /\ tgt.phase \in Phase /\ i.phase \in Phase
      /\ i.cmd # None => /\ script[i.cmd].length \in Nat
                         /\ script[i.cmd].data \in Data \cup {"STATUS"}
      /\ Total \in Nat \ {0} /\ CdbLength \in Nat \ {0}
  BY NumbersAre, HandshakeAssumption
<1>e. /\ t.at \in {"idle", "notbusy"} /\ t'.at \in {"notbusy", "begin"}
      /\ UNCHANGED <<tgt, i, script, moved>>
  BY WaitEffect
<1>1. ~Meeting'
  BY <1>e DEF Meeting, Serving
<1>2. Selecting'
  BY <1>e DEF Selecting, Fresh
<1>3. StatusComplete'
  BY <1>e DEF StatusComplete, DataDone, Counted, Meeting, InCall, Serving
<1>4. QED
  BY <1>1, <1>2, <1>3, NotMet

\* A target that leaves keeps the agreement.
LEMMA MetLeave ==
  ASSUME Basic, MeetingKept, ~sasi, TargetLeaves
  PROVE  MeetingKept'
<1> /\ Records /\ Signals /\ TargetCounts /\ InitiatorCounts /\ MovedBounds /\ CommandsKnown
    /\ Selecting /\ Places /\ Counts /\ Byte /\ SameCommand /\ Stored
    /\ Accounts /\ Own /\ StatusComplete
  BY DEF Basic, MeetingKept
<1>t. /\ t.n \in Nat /\ i.done \in Nat /\ i.offset \in Nat /\ i.length \in Nat /\ moved \in Nat
      /\ tgt.phase \in Phase /\ i.phase \in Phase
      /\ i.cmd # None => /\ script[i.cmd].length \in Nat
                         /\ script[i.cmd].data \in Data \cup {"STATUS"}
      /\ Total \in Nat \ {0} /\ CdbLength \in Nat \ {0}
  BY NumbersAre, HandshakeAssumption
<1>e. t'.at = "idle" /\ ~tgt'.bsy /\ UNCHANGED <<i, script, moved>>
  BY DEF TargetLeaves, TargetBecomes, TargetDrives
<1>1. ~Meeting'
  BY <1>e DEF Meeting, Serving
<1>2. Selecting'
  BY <1>e DEF Selecting, Fresh
<1>3. StatusComplete'
  BY <1>e DEF StatusComplete, DataDone, Counted, Meeting, InCall, Serving
<1>4. QED
  BY <1>1, <1>2, <1>3, NotMet

\* An answer to a selection keeps the agreement.
LEMMA MetAnswer ==
  ASSUME Basic, MeetingKept, ~sasi, Answer
  PROVE  MeetingKept'
<1> /\ Records /\ Signals /\ TargetCounts /\ InitiatorCounts /\ MovedBounds /\ CommandsKnown
    /\ Selecting /\ Places /\ Counts /\ Byte /\ SameCommand /\ Stored
    /\ Accounts /\ Own /\ StatusComplete
  BY DEF Basic, MeetingKept
<1>t. /\ t.n \in Nat /\ i.done \in Nat /\ i.offset \in Nat /\ i.length \in Nat /\ moved \in Nat
      /\ tgt.phase \in Phase /\ i.phase \in Phase
      /\ i.cmd # None => /\ script[i.cmd].length \in Nat
                         /\ script[i.cmd].data \in Data \cup {"STATUS"}
      /\ Total \in Nat \ {0} /\ CdbLength \in Nat \ {0}
  BY NumbersAre, HandshakeAssumption
<1>e. /\ t.at = "begin" /\ UNCHANGED <<i, script, moved>>
      /\ \/ ini.sel /\ ~ini.bsy /\ t'.at = "selection"
         \/ t'.at = "idle" /\ UNCHANGED tgt
  BY AnswerEffect DEF TargetBecomes, Bsy
<1>1. ~Meeting'
  BY <1>e DEF Meeting, Serving
<1>2. Selecting'
  BY <1>e DEF Selecting, Fresh, Joined, InCall, Signals
<1>3. StatusComplete'
  BY <1>e DEF StatusComplete, DataDone, Counted, Meeting, InCall, Serving
<1>4. QED
  BY <1>1, <1>2, <1>3, NotMet

\* The start of a command keeps the agreement.
LEMMA MetExecute ==
  ASSUME Basic, MeetingKept, ~sasi, Execute
  PROVE  MeetingKept'
<1> /\ Records /\ Signals /\ TargetCounts /\ InitiatorCounts /\ MovedBounds /\ CommandsKnown
    /\ Selecting /\ Places /\ Counts /\ Byte /\ SameCommand /\ Stored
    /\ Accounts /\ Own /\ StatusComplete
  BY DEF Basic, MeetingKept
<1>t. /\ t.n \in Nat /\ i.done \in Nat /\ i.offset \in Nat /\ i.length \in Nat /\ moved \in Nat
      /\ tgt.phase \in Phase /\ i.phase \in Phase
      /\ i.cmd # None => /\ script[i.cmd].length \in Nat
                         /\ script[i.cmd].data \in Data \cup {"STATUS"}
      /\ Total \in Nat \ {0} /\ CdbLength \in Nat \ {0}
  BY NumbersAre, HandshakeAssumption
<1>e. /\ i'.at = "free" /\ i'.cmd # None /\ i'.offset = 0 /\ i'.status = None
      /\ i'.length = script'[i'.cmd].length /\ UNCHANGED <<tgt, t, script>>
  <2>1. i.cmd + 1 # None
    BY DEF Records, None
  <2>2. QED
    BY <2>1, ExecuteEffect
<1>1. ~Meeting'
  BY <1>e DEF Meeting, Joined, InCall
<1>2. Selecting'
  BY <1>e DEF Selecting, Fresh, Joined, InCall
<1>3. StatusComplete'
  BY <1>e DEF StatusComplete
<1>4. QED
  BY <1>1, <1>2, <1>3, NotMet

\* Arbitration and selection keeps the agreement.
LEMMA MetSelection ==
  ASSUME Basic, MeetingKept, ~sasi, Arbitrate \/ (\E atn \in BOOLEAN : Select(atn)) \/ Answered
  PROVE  MeetingKept'
<1> /\ Records /\ Signals /\ TargetCounts /\ InitiatorCounts /\ MovedBounds /\ CommandsKnown
    /\ Selecting /\ Places /\ Counts /\ Byte /\ SameCommand /\ Stored
    /\ Accounts /\ Own /\ StatusComplete
  BY DEF Basic, MeetingKept
<1>t. /\ t.n \in Nat /\ i.done \in Nat /\ i.offset \in Nat /\ i.length \in Nat /\ moved \in Nat
      /\ tgt.phase \in Phase /\ i.phase \in Phase
      /\ i.cmd # None => /\ script[i.cmd].length \in Nat
                         /\ script[i.cmd].data \in Data \cup {"STATUS"}
      /\ Total \in Nat \ {0} /\ CdbLength \in Nat \ {0}
  BY NumbersAre, HandshakeAssumption
<1>e. /\ i'.cmd = i.cmd /\ i'.offset = i.offset /\ i'.length = i.length /\ i'.status = i.status
      /\ t'.at = t.at /\ UNCHANGED <<tgt, script, moved>>
      /\ \/ i.at = "free" /\ ~tgt.bsy /\ i'.at = "select"
         \/ i.at = "select" /\ i'.at = "busy"
         \/ i.at = "busy" /\ tgt.bsy /\ i'.at = "loop"
  BY SelectionEffect DEF InitiatorKeeps, TargetStays, TargetBecomes, Bsy, Signals
<1>1. ~Meeting'
  BY <1>e DEF Meeting, Joined, InCall, Serving, Selecting
<1>2. Selecting'
  BY <1>e DEF Selecting, Fresh, Signals
<1>3. StatusComplete'
  BY <1>e DEF StatusComplete, Selecting, Fresh
<1>4. QED
  BY <1>1, <1>2, <1>3, NotMet

\* An initiator that gives up keeps the agreement.
LEMMA MetLeaving ==
  ASSUME Basic, MeetingKept, ~sasi, TimedOut \/ PulseRST \/ PulseEnds \/ Terminate
  PROVE  MeetingKept'
<1> /\ Records /\ Signals /\ TargetCounts /\ InitiatorCounts /\ MovedBounds /\ CommandsKnown
    /\ Selecting /\ Places /\ Counts /\ Byte /\ SameCommand /\ Stored
    /\ Accounts /\ Own /\ StatusComplete
  BY DEF Basic, MeetingKept
<1>t. /\ t.n \in Nat /\ i.done \in Nat /\ i.offset \in Nat /\ i.length \in Nat /\ moved \in Nat
      /\ tgt.phase \in Phase /\ i.phase \in Phase
      /\ i.cmd # None => /\ script[i.cmd].length \in Nat
                         /\ script[i.cmd].data \in Data \cup {"STATUS"}
      /\ Total \in Nat \ {0} /\ CdbLength \in Nat \ {0}
  BY NumbersAre, HandshakeAssumption
<1>e. /\ i'.cmd = i.cmd /\ i'.length = i.length /\ i'.status \in {i.status, None}
      /\ i'.at \in {"idle", "reset", "pulse"} /\ UNCHANGED <<tgt, t, script, moved>>
  BY LeavingEffect DEF InitiatorLeaves, InitiatorKeeps
<1>1. ~Meeting'
  BY <1>e DEF Meeting, Joined, InCall
<1>2. Selecting'
  BY <1>e DEF Selecting, Joined, InCall
<1>3. StatusComplete'
  BY <1>e DEF StatusComplete, DataDone, Counted, Meeting, Joined, InCall
<1>4. QED
  BY <1>1, <1>2, <1>3, NotMet

\* The end of a selection keeps the agreement.
LEMMA MetSelected ==
  ASSUME Basic, MeetingKept, ~sasi, Selected
  PROVE  MeetingKept'
<1> /\ Records /\ Signals /\ TargetCounts /\ InitiatorCounts /\ MovedBounds /\ CommandsKnown
    /\ Selecting /\ Places /\ Counts /\ Byte /\ SameCommand /\ Stored
    /\ Accounts /\ Own /\ StatusComplete
  BY DEF Basic, MeetingKept
<1>t. /\ t.n \in Nat /\ i.done \in Nat /\ i.offset \in Nat /\ i.length \in Nat /\ moved \in Nat
      /\ tgt.phase \in Phase /\ i.phase \in Phase
      /\ i.cmd # None => /\ script[i.cmd].length \in Nat
                         /\ script[i.cmd].data \in Data \cup {"STATUS"}
      /\ Total \in Nat \ {0} /\ CdbLength \in Nat \ {0}
  BY NumbersAre, HandshakeAssumption
<1>e. /\ t.at = "selection" /\ t'.at = "raise" /\ t'.n = 0 /\ tgt'.phase \in {"MSG_OUT", "COMMAND"}
      /\ (tgt'.bsy <=> tgt.bsy) /\ UNCHANGED <<ini, dat, i, script, moved>>
      /\ ~ini.sel
  BY SelectedEffect DEF TargetBecomes, TargetDrives
<1>1. Selecting'
  BY <1>e DEF Selecting, Fresh, Signals
<1>2. Places'
  BY <1>e DEF Places, Joined, InCall, Selecting
<1>3. Counts'
  BY <1>e DEF Counts, Taken, Meeting, Joined, InCall, Selecting, Fresh
<1>4. Byte'
  BY <1>e DEF Byte
<1>5. SameCommand'
  BY <1>e DEF SameCommand, Taken, Data
<1>6. Stored'
  BY <1>e DEF Stored
<1>7. Accounts'
  BY <1>e, <1>t DEF Accounts, Counted, Data, Meeting, Joined, InCall, Selecting, Fresh
<1>8. Own'
  BY <1>e DEF Own, Joined, InCall, Selecting
<1>9. StatusComplete'
  BY <1>e DEF StatusComplete, DataDone, Counted, Meeting, Joined, InCall, Selecting, Fresh
<1>10. QED
  BY <1>1, <1>2, <1>3, <1>4, <1>5, <1>6, <1>7, <1>8, <1>9 DEF MeetingKept

\* The phase that follows keeps the agreement.
LEMMA MetProceed ==
  ASSUME Basic, MeetingKept, ~sasi, Proceed
  PROVE  MeetingKept'
<1> /\ Records /\ Signals /\ TargetCounts /\ MovedBounds
    /\ Selecting /\ Places /\ Counts /\ Byte /\ SameCommand /\ Stored
    /\ Accounts /\ Own /\ StatusComplete
  BY DEF Basic, MeetingKept
<1>1. CASE tgt.phase = "MSG_IN"
  <2>1. TargetLeaves
    BY <1>1, TargetGoesTo, TargetReleases DEF Proceed, TargetOnly, TargetLeaves, TargetAt
  <2>2. QED
    BY <2>1, MetLeave
<1>2. CASE tgt.phase # "MSG_IN"
  <2> DEFINE p == Following
             m == IF p = tgt.phase THEN t.n ELSE 0
  <2>1. /\ t.at = "execute" /\ p \in Phase
        /\ tgt.phase = "MSG_OUT" => p = "COMMAND"
        /\ tgt.phase = "COMMAND" => p = script[t.cmd].data /\ p \in Data \cup {"STATUS"}
        /\ tgt.phase \in Data => p = IF t.n < Total THEN tgt.phase ELSE "STATUS"
        /\ tgt.phase = "STATUS" => p = "MSG_IN"
    BY <1>2, FollowingPhase DEF Proceed
  <2>2. /\ TargetBecomes("raise", t.cmd, m)
        /\ TargetDrives(tgt.bsy, tgt.req, tgt.rst, p)
        /\ UNCHANGED <<ini, dat, i, script, moved>>
    BY <1>2, <2>1, ProceedEffect
  <2>3. /\ t.n \in Nat /\ i.done \in Nat /\ i.offset \in Nat /\ i.length \in Nat /\ moved \in Nat
        /\ tgt.phase \in Phase /\ Total \in Nat \ {0} /\ CdbLength \in Nat \ {0}
    BY NumbersAre, HandshakeAssumption
  <2>4. p = tgt.phase => p \in Data /\ m = t.n
    BY <1>2, <2>1 DEF Data, Phase
  <2>5. p # tgt.phase => m = 0
    OBVIOUS
  <2> HIDE DEF p, m
  <2>6. /\ t'.at = "raise" /\ t'.cmd = t.cmd /\ t'.n = m /\ tgt'.phase = p /\ (tgt'.bsy <=> tgt.bsy)
        /\ UNCHANGED <<ini, dat, i, script, moved>>
    BY <2>2 DEF TargetBecomes, TargetDrives
  \* An initiator in a call is in the phase that ends.
  <2>7. Meeting' <=> Meeting
    BY <2>1, <2>6 DEF Meeting, Joined, InCall, Serving
  <2>8. Meeting /\ InCall => i.phase = tgt.phase /\ i.at # "noreq"
    BY <2>1 DEF Places
  <2>9. /\ tgt.phase = "COMMAND" => t.n = CdbLength
        /\ tgt.phase \in Data => t.n <= Total
    BY <2>1 DEF TargetCounts, Serving
  <2>10. Meeting /\ tgt.phase = "COMMAND" => t.cmd = i.cmd
    BY <2>3, <2>9 DEF SameCommand, Taken
  <2>11. i.at # "idle" => i.cmd # None
    BY DEF Basic, CommandsKnown
  <2>12. Selecting'
    BY <2>1, <2>6 DEF Selecting, Fresh
  <2>13. Places'
    <3>1. p # "MSG_OUT" /\ (p = "COMMAND" => tgt.phase = "MSG_OUT")
      BY <1>2, <2>1, <2>3 DEF Data, Phase
    <3>2. t'.at = "raise" /\ t'.n = m /\ tgt'.phase = p /\ i' = i
      BY <2>6
    <3>3. Meeting /\ InCall /\ i.phase # p => m = 0
      BY <2>5, <2>8
    <3>4. QED
      BY <2>7, <2>8, <3>1, <3>2, <3>3 DEF Places, InCall
  <2>14. Counts'
    BY <1>2, <2>1, <2>3, <2>4, <2>5, <2>6, <2>7, <2>8 DEF Counts, Base, Taken, InCall, Data, Phase
  <2>15. Byte'
    BY <2>6 DEF Byte
  <2>16. SameCommand'
    BY <1>2, <2>1, <2>3, <2>5, <2>6, <2>7, <2>10 DEF SameCommand, Taken, Data, Phase
  <2>17. moved = 0 \/ tgt.phase \notin {"MSG_OUT", "COMMAND"}
    BY <2>1 DEF MovedBounds, Serving
  <2>18. Stored'
    BY <1>2, <2>1, <2>3, <2>4, <2>5, <2>6, <2>7, <2>9, <2>10, <2>17 DEF Stored, Taken, Data, Phase
  <2>19. Accounts'
    BY <1>2, <2>1, <2>3, <2>6, <2>7, <2>8, <2>17 DEF Accounts, Counted, Data, Phase, InCall
  <2>20. Own'
    BY <2>1, <2>3, <2>6, <2>7, <2>8, <2>9
       DEF Own, DataDone, Counted, Data, Phase, InCall, Accounts, Stored, Taken, SameCommand,
           Meeting, Joined
  <2>21. StatusComplete'
    BY <1>2, <2>1, <2>6, <2>7 DEF StatusComplete, DataDone, Counted, InCall
  <2>22. QED
    BY <2>12, <2>13, <2>14, <2>15, <2>16, <2>18, <2>19, <2>20, <2>21 DEF MeetingKept
<1>3. QED
  BY <1>1, <1>2

\* SetREQ(true) keeps the agreement.
LEMMA MetRaise ==
  ASSUME Basic, MeetingKept, ~sasi, Raise
  PROVE  MeetingKept'
<1> /\ Records /\ Signals /\ TargetCounts /\ InitiatorCounts /\ MovedBounds /\ CommandsKnown
    /\ Selecting /\ Places /\ Counts /\ Byte /\ SameCommand /\ Stored
    /\ Accounts /\ Own /\ StatusComplete
  BY DEF Basic, MeetingKept
<1>t. /\ t.n \in Nat /\ i.done \in Nat /\ i.offset \in Nat /\ i.length \in Nat /\ moved \in Nat
      /\ tgt.phase \in Phase /\ i.phase \in Phase
      /\ i.cmd # None => /\ script[i.cmd].length \in Nat
                         /\ script[i.cmd].data \in Data \cup {"STATUS"}
      /\ Total \in Nat \ {0} /\ CdbLength \in Nat \ {0}
  BY NumbersAre, HandshakeAssumption
<1>e. /\ t.at = "raise" /\ t'.at = "ack" /\ t'.n = t.n /\ t'.cmd = t.cmd /\ tgt'.phase = tgt.phase
      /\ (tgt'.bsy <=> tgt.bsy) /\ UNCHANGED <<ini, i, script, moved>>
      /\ tgt.phase \notin ToTarget =>
           ~ini.ack /\ dat'.cmd = t.cmd /\ dat'.phase = tgt.phase /\ dat'.index = t.n
  BY RaiseEffect DEF TargetBecomes, TargetDrives, BusHolds
<1>1. Selecting'
  BY <1>e DEF Selecting, Fresh
<1>2. Places'
  BY <1>e DEF Places, Meeting, Joined, InCall, Serving
<1>3. Counts'
  BY <1>e DEF Counts, Base, Taken, Meeting, Joined, InCall, Serving
<1>4. Byte'
  BY <1>e DEF Byte, Meeting, Joined, InCall, Serving, Places
<1>5. SameCommand'
  BY <1>e DEF SameCommand, Taken, Meeting, Joined, InCall, Serving
<1>6. Stored'
  BY <1>e DEF Stored, Taken, Meeting, Joined, InCall, Serving, Signals, ToTarget
<1>7. Accounts'
  BY <1>e DEF Accounts, Counted, Meeting, Joined, InCall, Serving
<1>8. Own'
  BY <1>e DEF Own, DataDone, Counted, Meeting, Joined, InCall, Serving
<1>9. StatusComplete'
  BY <1>e DEF StatusComplete, DataDone, Counted, Meeting, Joined, InCall, Serving
<1>10. QED
  BY <1>1, <1>2, <1>3, <1>4, <1>5, <1>6, <1>7, <1>8, <1>9 DEF MeetingKept

\* A byte the target takes keeps the agreement.
LEMMA MetTakeByte ==
  ASSUME Basic, MeetingKept, ~sasi, TakeByte
  PROVE  MeetingKept'
<1> /\ Records /\ Signals /\ TargetCounts /\ InitiatorCounts /\ MovedBounds /\ CommandsKnown
    /\ Selecting /\ Places /\ Counts /\ Byte /\ SameCommand /\ Stored
    /\ Accounts /\ Own /\ StatusComplete
  BY DEF Basic, MeetingKept
<1>t. /\ t.n \in Nat /\ i.done \in Nat /\ i.offset \in Nat /\ i.length \in Nat /\ moved \in Nat
      /\ tgt.phase \in Phase /\ i.phase \in Phase
      /\ i.cmd # None => /\ script[i.cmd].length \in Nat
                         /\ script[i.cmd].data \in Data \cup {"STATUS"}
      /\ Total \in Nat \ {0} /\ CdbLength \in Nat \ {0}
  BY NumbersAre, HandshakeAssumption
<1>e. /\ t.at = "ack" /\ i.at = "noreq" /\ tgt.phase \in ToTarget
      /\ t'.at = "noack" /\ t'.n = t.n /\ t'.cmd = IF tgt.phase = "COMMAND" THEN dat.cmd ELSE t.cmd
      /\ tgt'.phase = tgt.phase /\ (tgt'.bsy <=> tgt.bsy)
      /\ moved' = IF tgt.phase = "DATA_OUT" THEN t.n + 1 ELSE moved
      /\ UNCHANGED <<ini, dat, i, script>>
  BY TakeByteEffect DEF TargetBecomes, TargetDrives, Signals
<1>1. Selecting'
  BY <1>e DEF Selecting
<1>2. Places'
  BY <1>e DEF Places, Meeting, Joined, InCall, Serving
<1>3. Counts'
  BY <1>e DEF Counts, Base, Meeting, Joined, InCall, Serving
<1>4. Byte'
  BY <1>e DEF Byte
<1>5. SameCommand'
  BY <1>e DEF SameCommand, Meeting, Joined, InCall, Serving, Byte
<1>6. Stored'
  BY <1>e DEF Stored, Taken, ToTarget
<1>7. Accounts'
  BY <1>e DEF Accounts, Counted, Meeting, Joined, InCall, Serving, Places
<1>8. Own'
  BY <1>e DEF Own, DataDone, Counted, Meeting, Joined, InCall, Serving
<1>9. StatusComplete'
  BY <1>e DEF StatusComplete, DataDone, Counted, Meeting, Joined, InCall, Serving
<1>10. QED
  BY <1>1, <1>2, <1>3, <1>4, <1>5, <1>6, <1>7, <1>8, <1>9 DEF MeetingKept

\* A byte the initiator has seen keeps the agreement.
LEMMA MetByteTaken ==
  ASSUME Basic, MeetingKept, ~sasi, ByteTaken
  PROVE  MeetingKept'
<1> /\ Records /\ Signals /\ TargetCounts /\ InitiatorCounts /\ MovedBounds /\ CommandsKnown
    /\ Selecting /\ Places /\ Counts /\ Byte /\ SameCommand /\ Stored
    /\ Accounts /\ Own /\ StatusComplete
  BY DEF Basic, MeetingKept
<1>t. /\ t.n \in Nat /\ i.done \in Nat /\ i.offset \in Nat /\ i.length \in Nat /\ moved \in Nat
      /\ tgt.phase \in Phase /\ i.phase \in Phase
      /\ i.cmd # None => /\ script[i.cmd].length \in Nat
                         /\ script[i.cmd].data \in Data \cup {"STATUS"}
      /\ Total \in Nat \ {0} /\ CdbLength \in Nat \ {0}
  BY NumbersAre, HandshakeAssumption
<1>e. /\ t.at = "ack" /\ i.at = "noreq" /\ tgt.phase \notin ToTarget
      /\ t'.at \in {"raise", "noack"} /\ t'.n = t.n + 1 /\ t'.cmd = t.cmd
      /\ tgt'.phase = tgt.phase /\ (tgt'.bsy <=> tgt.bsy)
      /\ UNCHANGED <<ini, dat, i, script, moved>>
  BY ByteTakenEffect DEF TargetBecomes, TargetDrives, Signals
<1>1. Selecting'
  BY <1>e DEF Selecting
<1>2. Places'
  BY <1>e DEF Places, Meeting, Joined, InCall, Serving
<1>3. Counts'
  BY <1>e DEF Counts, ToTarget
<1>4. Byte'
  BY <1>e DEF Byte
<1>5. SameCommand'
  BY <1>e DEF SameCommand, Meeting, Joined, InCall, Serving, ToTarget
<1>6. Stored'
  BY <1>e DEF Stored, Meeting, Joined, InCall, Serving, ToTarget
<1>7. Accounts'
  BY <1>e DEF Accounts, Counted, Meeting, Joined, InCall, Serving, Places, ToTarget
<1>8. Own'
  BY <1>e DEF Own, DataDone, Counted, Meeting, Joined, InCall, Serving
<1>9. StatusComplete'
  BY <1>e DEF StatusComplete, DataDone, Counted, Meeting, Joined, InCall, Serving
<1>10. QED
  BY <1>1, <1>2, <1>3, <1>4, <1>5, <1>6, <1>7, <1>8, <1>9 DEF MeetingKept

\* The end of a handshake keeps the agreement.
LEMMA MetAckGone ==
  ASSUME Basic, MeetingKept, ~sasi, AckGone
  PROVE  MeetingKept'
<1> /\ Records /\ Signals /\ TargetCounts /\ InitiatorCounts /\ MovedBounds /\ CommandsKnown
    /\ Selecting /\ Places /\ Counts /\ Byte /\ SameCommand /\ Stored
    /\ Accounts /\ Own /\ StatusComplete
  BY DEF Basic, MeetingKept
<1>t. /\ t.n \in Nat /\ i.done \in Nat /\ i.offset \in Nat /\ i.length \in Nat /\ moved \in Nat
      /\ tgt.phase \in Phase /\ i.phase \in Phase
      /\ i.cmd # None => /\ script[i.cmd].length \in Nat
                         /\ script[i.cmd].data \in Data \cup {"STATUS"}
      /\ Total \in Nat \ {0} /\ CdbLength \in Nat \ {0}
  BY NumbersAre, HandshakeAssumption
<1>e. /\ t.at = "noack" /\ i.at # "noreq" /\ t'.cmd = t.cmd
      /\ tgt.phase \in ToTarget => t'.at \in {"execute", "raise"} /\ t'.n = t.n + 1
      /\ tgt.phase \notin ToTarget => t'.at = "execute" /\ t'.n = t.n
      /\ UNCHANGED <<tgt, ini, dat, i, script, moved>>
  BY AckGoneEffect DEF TargetBecomes, Signals
<1>1. Selecting'
  BY <1>e DEF Selecting, Fresh
<1>2. Places'
  BY <1>e DEF Places, Meeting, Joined, InCall, Serving
<1>3. Counts'
  BY <1>e DEF Counts, Base, Taken, ToTarget, Meeting, Joined, InCall, Serving
<1>4. Byte'
  BY <1>e DEF Byte
<1>5. SameCommand'
  BY <1>e, <1>t DEF SameCommand, Taken, Meeting, Joined, InCall, Serving
<1>6. Stored'
  BY <1>e DEF Stored, Taken, Meeting, Joined, InCall, Serving, ToTarget
<1>7. Accounts'
  BY <1>e DEF Accounts, Counted, Meeting, Joined, InCall, Serving
<1>8. Own'
  BY <1>e DEF Own, DataDone, Counted, Meeting, Joined, InCall, Serving
<1>9. StatusComplete'
  BY <1>e DEF StatusComplete, DataDone, Counted, Meeting, Joined, InCall, Serving
<1>10. QED
  BY <1>1, <1>2, <1>3, <1>4, <1>5, <1>6, <1>7, <1>8, <1>9 DEF MeetingKept

\* The start of a call keeps the agreement.
LEMMA MetDispatch ==
  ASSUME Basic, MeetingKept, ~sasi, Dispatch
  PROVE  MeetingKept'
<1> /\ Records /\ Signals /\ TargetCounts /\ InitiatorCounts /\ MovedBounds /\ CommandsKnown
    /\ Selecting /\ Places /\ Counts /\ Byte /\ SameCommand /\ Stored
    /\ Accounts /\ Own /\ StatusComplete
  BY DEF Basic, MeetingKept
<1>t. /\ t.n \in Nat /\ i.done \in Nat /\ i.offset \in Nat /\ i.length \in Nat /\ moved \in Nat
      /\ tgt.phase \in Phase /\ i.phase \in Phase
      /\ i.cmd # None => /\ script[i.cmd].length \in Nat
                         /\ script[i.cmd].data \in Data \cup {"STATUS"}
      /\ Total \in Nat \ {0} /\ CdbLength \in Nat \ {0}
  BY NumbersAre, HandshakeAssumption
<1>e. /\ i.at = "loop" /\ t.at = "ack" /\ i'.cmd = i.cmd /\ i'.offset = i.offset /\ i'.length = i.length
      /\ i'.buf = i.buf /\ i'.status = i.status /\ i'.phase = tgt.phase /\ i'.done = 0
      /\ i'.at = IF tgt.phase \in Data /\ i.length = 0 THEN "reset" ELSE "req"
      /\ UNCHANGED <<tgt, ini, dat, t, script, moved>>
  BY DispatchEffect DEF InitiatorKeeps
<1>1. Selecting'
  BY <1>e DEF Selecting
<1>2. Places'
  BY <1>e DEF Places
<1>3. Counts'
  BY <1>e, <1>t DEF Counts, Base, Taken, ToTarget, Meeting, Joined, Serving, TargetCounts, Data
<1>4. Byte'
  BY <1>e DEF Byte, Meeting, Joined, Serving
<1>5. SameCommand'
  BY <1>e DEF SameCommand, Taken, Meeting, Joined, Serving
<1>6. Stored'
  BY <1>e DEF Stored, Taken, Meeting, Joined, Serving
<1>7. Accounts'
  BY <1>e, <1>t DEF Accounts, Counted, Meeting, Joined, InCall, Serving, Stored, Counts, SameCommand
<1>8. Own'
  BY <1>e DEF Own, DataDone, Counted, Meeting, Joined, InCall, Serving
<1>9. StatusComplete'
  BY <1>e DEF StatusComplete, DataDone, Counted, Meeting, Joined, Serving
<1>10. QED
  BY <1>1, <1>2, <1>3, <1>4, <1>5, <1>6, <1>7, <1>8, <1>9 DEF MeetingKept

\* A byte of the initiator on the bus keeps the agreement.
LEMMA MetPutByte ==
  ASSUME Basic, MeetingKept, ~sasi, PutByte
  PROVE  MeetingKept'
<1> /\ Records /\ Signals /\ TargetCounts /\ InitiatorCounts /\ MovedBounds /\ CommandsKnown
    /\ Selecting /\ Places /\ Counts /\ Byte /\ SameCommand /\ Stored
    /\ Accounts /\ Own /\ StatusComplete
  BY DEF Basic, MeetingKept
<1>t. /\ t.n \in Nat /\ i.done \in Nat /\ i.offset \in Nat /\ i.length \in Nat /\ moved \in Nat
      /\ tgt.phase \in Phase /\ i.phase \in Phase
      /\ i.cmd # None => /\ script[i.cmd].length \in Nat
                         /\ script[i.cmd].data \in Data \cup {"STATUS"}
      /\ Total \in Nat \ {0} /\ CdbLength \in Nat \ {0}
  BY NumbersAre, HandshakeAssumption
<1>e. /\ i.at = "req" /\ t.at = "ack" /\ i.phase = tgt.phase /\ i.phase \in ToTarget
      /\ i'.cmd = i.cmd /\ i'.offset = i.offset /\ i'.length = i.length
      /\ i'.buf = i.buf /\ i'.status = i.status /\ i'.phase = i.phase /\ i'.done = i.done
      /\ i'.at = "noreq" /\ UNCHANGED <<tgt, t, script, moved>>
      /\ dat'.cmd = i.cmd /\ dat'.phase = i.phase /\ dat'.index = Base
  BY PutByteEffect DEF InitiatorKeeps, BusHolds
<1>1. Selecting'
  BY <1>e DEF Selecting
<1>2. Places'
  BY <1>e DEF Places
<1>3. Counts'
  BY <1>e DEF Counts, Base, Taken, Meeting, Joined, InCall, Serving
<1>4. Byte'
  BY <1>e DEF Byte, Base
<1>5. SameCommand'
  BY <1>e DEF SameCommand, Taken, Meeting, Joined, InCall, Serving
<1>6. Stored'
  BY <1>e DEF Stored, Taken, Meeting, Joined, InCall, Serving, ToTarget
<1>7. Accounts'
  BY <1>e DEF Accounts, Counted, Data, Meeting, Joined, InCall, Serving, Stored, Taken, ToTarget
<1>8. Own'
  BY <1>e DEF Own, ToTarget
<1>9. StatusComplete'
  BY <1>e DEF StatusComplete, DataDone, Counted, InCall
<1>10. QED
  BY <1>1, <1>2, <1>3, <1>4, <1>5, <1>6, <1>7, <1>8, <1>9 DEF MeetingKept

\* A byte the initiator stores keeps the agreement.
LEMMA MetGetByte ==
  ASSUME Basic, MeetingKept, ~sasi, GetByte
  PROVE  MeetingKept'
<1> /\ Records /\ Signals /\ TargetCounts /\ InitiatorCounts /\ MovedBounds /\ CommandsKnown
    /\ Selecting /\ Places /\ Counts /\ Byte /\ SameCommand /\ Stored
    /\ Accounts /\ Own /\ StatusComplete
  BY DEF Basic, MeetingKept
<1>t. /\ t.n \in Nat /\ i.done \in Nat /\ i.offset \in Nat /\ i.length \in Nat /\ moved \in Nat
      /\ tgt.phase \in Phase /\ i.phase \in Phase
      /\ i.cmd # None => /\ script[i.cmd].length \in Nat
                         /\ script[i.cmd].data \in Data \cup {"STATUS"}
      /\ Total \in Nat \ {0} /\ CdbLength \in Nat \ {0}
  BY NumbersAre, HandshakeAssumption
<1>e. /\ i.at = "req" /\ t.at = "ack" /\ i.phase = tgt.phase /\ i.phase \notin ToTarget
      /\ i'.cmd = i.cmd /\ i'.offset = i.offset /\ i'.length = i.length
      /\ i'.buf = dat.cmd /\ i'.status = i.status /\ i'.phase = i.phase /\ i'.done = i.done
      /\ i'.at = "noreq" /\ UNCHANGED <<tgt, dat, t, script>>
      /\ moved' = IF i.phase = "DATA_IN" THEN moved + 1 ELSE moved
  BY GetByteEffect
<1>1. Selecting'
  BY <1>e DEF Selecting
<1>2. Places'
  BY <1>e DEF Places
<1>3. Counts'
  BY <1>e DEF Counts, ToTarget
<1>4. Byte'
  BY <1>e DEF Byte, Meeting, Joined, InCall, Serving
<1>5. SameCommand'
  BY <1>e DEF SameCommand, Taken, Meeting, Joined, InCall, Serving
<1>6. Stored'
  BY <1>e DEF Stored, Taken, Meeting, Joined, InCall, Serving
<1>7. Accounts'
  BY <1>e, <1>t DEF Accounts, Counted, Data, Meeting, Joined, InCall, Serving, ToTarget
<1>8. Own'
  BY <1>e DEF Own, DataDone, Counted, Meeting, Joined, InCall, Serving, Byte, SameCommand
<1>9. StatusComplete'
  BY <1>e DEF StatusComplete, DataDone, Counted, InCall
<1>10. QED
  BY <1>1, <1>2, <1>3, <1>4, <1>5, <1>6, <1>7, <1>8, <1>9 DEF MeetingKept

\* The end of REQ keeps the agreement.
LEMMA MetReqGone ==
  ASSUME Basic, MeetingKept, ~sasi, ReqGone, i.phase # "MSG_IN"
  PROVE  MeetingKept'
<1> /\ Records /\ Signals /\ TargetCounts /\ InitiatorCounts /\ MovedBounds /\ CommandsKnown
    /\ Selecting /\ Places /\ Counts /\ Byte /\ SameCommand /\ Stored
    /\ Accounts /\ Own /\ StatusComplete
  BY DEF Basic, MeetingKept
<1>t. /\ t.n \in Nat /\ i.done \in Nat /\ i.offset \in Nat /\ i.length \in Nat /\ moved \in Nat
      /\ tgt.phase \in Phase /\ i.phase \in Phase
      /\ i.cmd # None => /\ script[i.cmd].length \in Nat
                         /\ script[i.cmd].data \in Data \cup {"STATUS"}
      /\ Total \in Nat \ {0} /\ CdbLength \in Nat \ {0}
  BY NumbersAre, HandshakeAssumption
<1>e. /\ i.at = "noreq" /\ t.at # "ack" /\ i.phase # "MSG_IN"
      /\ i'.cmd = i.cmd /\ i'.offset = i.offset /\ i'.length = i.length
      /\ i'.buf = i.buf /\ i'.status = i.status /\ i'.phase = i.phase /\ i'.done = i.done
      /\ i'.at = "check" /\ UNCHANGED <<tgt, dat, t, script, moved>>
  BY ReqGoneEffect DEF InitiatorKeeps
<1>1. Selecting'
  BY <1>e DEF Selecting, Joined, InCall
<1>2. Places'
  BY <1>e DEF Places, Meeting, Joined, InCall, Serving
<1>3. Counts'
  BY <1>e DEF Counts, Base, Taken, Meeting, Joined, InCall, Serving, Places
<1>4. Byte'
  BY <1>e DEF Byte
<1>5. SameCommand'
  BY <1>e DEF SameCommand, Taken, Meeting, Joined, InCall, Serving
<1>6. Stored'
  BY <1>e DEF Stored, Taken, Meeting, Joined, InCall, Serving
<1>7. Accounts'
  BY <1>e, <1>t
     DEF Accounts, Counted, Meeting, Joined, InCall, Serving, Stored, Taken, Places, ToTarget
<1>8. Own'
  BY <1>e DEF Own, DataDone, Counted, Meeting, Joined, InCall, Serving
<1>9. StatusComplete'
  BY <1>e DEF StatusComplete, DataDone, Counted, Meeting, Joined, InCall, Serving
<1>10. QED
  BY <1>1, <1>2, <1>3, <1>4, <1>5, <1>6, <1>7, <1>8, <1>9 DEF MeetingKept

\* A call that goes on with its next byte keeps the agreement.
LEMMA MetContinue ==
  ASSUME Basic, MeetingKept, ~sasi, InCall, i.at = "check", SamePhase, i.done + 1 # Count,
         InitiatorKeeps, i'.at = "req", i'.phase = i.phase, i'.done = i.done + 1,
         i'.status = i.status, UNCHANGED <<tgt, ini, dat, t, script, moved>>
  PROVE  MeetingKept'
<1> /\ Records /\ Signals /\ TargetCounts /\ InitiatorCounts /\ MovedBounds /\ CommandsKnown
    /\ Selecting /\ Places /\ Counts /\ Byte /\ SameCommand /\ Stored
    /\ Accounts /\ Own /\ StatusComplete
  BY DEF Basic, MeetingKept
<1>t. /\ t.n \in Nat /\ i.done \in Nat /\ i.offset \in Nat /\ i.length \in Nat /\ moved \in Nat
      /\ tgt.phase \in Phase /\ i.phase \in Phase
      /\ i.cmd # None => /\ script[i.cmd].length \in Nat
                         /\ script[i.cmd].data \in Data \cup {"STATUS"}
      /\ Total \in Nat \ {0} /\ CdbLength \in Nat \ {0}
  BY NumbersAre, HandshakeAssumption
<1>e. /\ i.at = "check" /\ i.phase = tgt.phase
      /\ i'.cmd = i.cmd /\ i'.offset = i.offset /\ i'.length = i.length
      /\ i'.buf = i.buf /\ i'.status = i.status /\ i'.phase = i.phase /\ i'.done = i.done + 1
      /\ i'.at = "req" /\ UNCHANGED <<tgt, dat, t, script, moved>>
  BY DEF InitiatorKeeps, SamePhase
<1>1. Selecting'
  BY DEF Selecting, Joined
<1>2. Places'
  BY <1>e DEF Places
<1>3. Counts'
  BY <1>e, <1>t DEF Counts, Base, Taken, Meeting, Joined, Serving
<1>4. Byte'
  BY DEF Byte, Meeting, Joined, Serving
<1>5. SameCommand'
  BY <1>e DEF SameCommand, Taken, Meeting, Joined, Serving
<1>6. Stored'
  BY <1>e DEF Stored, Taken, Meeting, Joined, Serving
<1>7. Accounts'
  BY <1>e, <1>t DEF Accounts, Counted, Meeting, Joined, Serving, CommandsKnown
<1>8. Own'
  BY <1>e DEF Own, DataDone, Counted, Meeting, Joined, Serving
<1>9. StatusComplete'
  BY <1>e DEF StatusComplete, DataDone, Counted
<1>10. QED
  BY <1>1, <1>2, <1>3, <1>4, <1>5, <1>6, <1>7, <1>8, <1>9 DEF MeetingKept

\* The end of the command keeps the agreement.
LEMMA MetEndMsgIn ==
  ASSUME Basic, MeetingKept, ~sasi, NEW d \in Nat, i.phase = "MSG_IN", EndedWith(d),
         UNCHANGED <<tgt, dat, t, script, moved>>
  PROVE  MeetingKept'
<1> /\ Records /\ Signals /\ TargetCounts /\ InitiatorCounts /\ MovedBounds /\ CommandsKnown
    /\ Selecting /\ Places /\ Counts /\ Byte /\ SameCommand /\ Stored
    /\ Accounts /\ Own /\ StatusComplete
  BY DEF Basic, MeetingKept
<1>t. /\ t.n \in Nat /\ i.done \in Nat /\ i.offset \in Nat /\ i.length \in Nat /\ moved \in Nat
      /\ tgt.phase \in Phase /\ i.phase \in Phase
      /\ i.cmd # None => /\ script[i.cmd].length \in Nat
                         /\ script[i.cmd].data \in Data \cup {"STATUS"}
      /\ Total \in Nat \ {0} /\ CdbLength \in Nat \ {0}
  BY NumbersAre, HandshakeAssumption
<1>e. /\ i'.cmd = i.cmd /\ i'.length = i.length /\ i'.status = i.status
      /\ i'.at = "idle" /\ UNCHANGED <<tgt, t, script, moved>>
  BY DEF EndedWith, Data
<1>1. ~Meeting'
  BY <1>e DEF Meeting, Joined, InCall
<1>2. Selecting'
  BY <1>e DEF Selecting, Joined, InCall
<1>3. StatusComplete'
  BY <1>e DEF StatusComplete, DataDone, Counted, Meeting, Joined, InCall
<1>4. QED
  BY <1>1, <1>2, <1>3, NotMet

\* A call that ends before a byte keeps the agreement.
LEMMA MetEndAtReq ==
  ASSUME Basic, MeetingKept, ~sasi, i.at = "req", EndedWith(i.done), i.phase # "MSG_IN",
         UNCHANGED <<tgt, dat, t, script, moved>>
  PROVE  MeetingKept'
<1> /\ Records /\ Signals /\ TargetCounts /\ InitiatorCounts /\ MovedBounds /\ CommandsKnown
    /\ Selecting /\ Places /\ Counts /\ Byte /\ SameCommand /\ Stored
    /\ Accounts /\ Own /\ StatusComplete
  BY DEF Basic, MeetingKept
<1>t. /\ t.n \in Nat /\ i.done \in Nat /\ i.offset \in Nat /\ i.length \in Nat /\ moved \in Nat
      /\ tgt.phase \in Phase /\ i.phase \in Phase
      /\ i.cmd # None => /\ script[i.cmd].length \in Nat
                         /\ script[i.cmd].data \in Data \cup {"STATUS"}
      /\ Total \in Nat \ {0} /\ CdbLength \in Nat \ {0}
  BY NumbersAre, HandshakeAssumption
<1>e. /\ i'.cmd = i.cmd /\ i'.buf = i.buf
      /\ i'.offset = IF i.phase = "COMMAND" THEN i.offset + i.done ELSE i.offset
      /\ i'.length = IF i.phase \in Data THEN i.length - (i.done) ELSE i.length
      /\ i'.status = IF i.phase = "STATUS" /\ i.done = 1 THEN i.buf ELSE i.status
      /\ i'.at = IF i.phase = "DATA_OUT" /\ i.done # i.length THEN "reset" ELSE "loop"
      /\ i.phase \in Data => i.done < i.length
      /\ i.phase \notin Data \cup {"COMMAND"} => i.done = 0
      /\ i.cmd # None /\ UNCHANGED <<tgt, dat, t, script, moved>>
      /\ i.at = "req"
  BY DEF EndedWith, InitiatorCounts, InCall, CommandsKnown
<1>1. Selecting'
  BY <1>e DEF Selecting, Joined, InCall
<1>2. Places'
  BY <1>e DEF Places, InCall
<1>3. Counts'
  BY <1>e, <1>t DEF Counts, Base, Taken, ToTarget, Meeting, Joined, InCall, Serving, Places
<1>4. Byte'
  BY <1>e DEF Byte, Meeting, Joined, InCall, Serving
<1>5. SameCommand'
  BY <1>e DEF SameCommand, Taken, Meeting, Joined, InCall, Serving
<1>6. Stored'
  BY <1>e DEF Stored, Taken, Meeting, Joined, InCall, Serving
<1>7. Accounts'
  BY <1>e, <1>t DEF Accounts, Counted, Data, Meeting, Joined, InCall, Serving, Stored, Taken, Places
<1>8. Own'
  BY <1>e, <1>t DEF Own, DataDone, Counted, Meeting, Joined, InCall, Serving, Accounts, Stored
<1>9. StatusComplete'
  BY <1>e DEF StatusComplete, DataDone, Counted, Meeting, Joined, InCall, Serving, Data
<1>10. QED
  BY <1>1, <1>2, <1>3, <1>4, <1>5, <1>6, <1>7, <1>8, <1>9 DEF MeetingKept

\* A call that ends after a byte, because the phase has changed keeps the agreement.
LEMMA MetEndOfPhase ==
  ASSUME Basic, MeetingKept, ~sasi, i.at = "check", ~SamePhase, EndedWith(i.done),
         i.phase # "MSG_IN", UNCHANGED <<tgt, dat, t, script, moved>>
  PROVE  MeetingKept'
<1> /\ Records /\ Signals /\ TargetCounts /\ InitiatorCounts /\ MovedBounds /\ CommandsKnown
    /\ Selecting /\ Places /\ Counts /\ Byte /\ SameCommand /\ Stored
    /\ Accounts /\ Own /\ StatusComplete
  BY DEF Basic, MeetingKept
<1>t. /\ t.n \in Nat /\ i.done \in Nat /\ i.offset \in Nat /\ i.length \in Nat /\ moved \in Nat
      /\ tgt.phase \in Phase /\ i.phase \in Phase
      /\ i.cmd # None => /\ script[i.cmd].length \in Nat
                         /\ script[i.cmd].data \in Data \cup {"STATUS"}
      /\ Total \in Nat \ {0} /\ CdbLength \in Nat \ {0}
  BY NumbersAre, HandshakeAssumption
<1>e. /\ i'.cmd = i.cmd /\ i'.buf = i.buf
      /\ i'.offset = IF i.phase = "COMMAND" THEN i.offset + i.done ELSE i.offset
      /\ i'.length = IF i.phase \in Data THEN i.length - (i.done) ELSE i.length
      /\ i'.status = IF i.phase = "STATUS" /\ i.done = 1 THEN i.buf ELSE i.status
      /\ i'.at = IF i.phase = "DATA_OUT" /\ i.done # i.length THEN "reset" ELSE "loop"
      /\ i.phase \in Data => i.done < i.length
      /\ i.phase \notin Data \cup {"COMMAND"} => i.done = 0
      /\ i.cmd # None /\ UNCHANGED <<tgt, dat, t, script, moved>>
      /\ i.at = "check" /\ (Serving => i.phase # tgt.phase)
  BY DEF EndedWith, InitiatorCounts, InCall, CommandsKnown, SamePhase, Signals
<1>1. Selecting'
  BY <1>e DEF Selecting, Joined, InCall
<1>2. Places'
  BY <1>e DEF Places, InCall
<1>3. Counts'
  BY <1>e DEF Counts, Taken, Meeting, Joined, InCall, Serving, Places
<1>4. Byte'
  BY <1>e DEF Byte, Meeting, Joined, InCall, Serving
<1>5. SameCommand'
  BY <1>e DEF SameCommand, Taken, Meeting, Joined, InCall, Serving
<1>6. Stored'
  BY <1>e DEF Stored, Taken, Meeting, Joined, InCall, Serving
<1>7. Accounts'
  BY <1>e
     DEF Accounts, Counted, Data, Meeting, Joined, InCall, Serving, Stored, Taken, Places,
         SameCommand
<1>8. Own'
  BY <1>e, <1>t DEF Own, DataDone, Counted, Meeting, Joined, InCall, Serving, Accounts, Stored
<1>9. StatusComplete'
  BY <1>e DEF StatusComplete, DataDone, Counted, Meeting, Joined, InCall, Serving, Data
<1>10. QED
  BY <1>1, <1>2, <1>3, <1>4, <1>5, <1>6, <1>7, <1>8, <1>9 DEF MeetingKept

\* A call that ends with its last byte keeps the agreement.
LEMMA MetEndOfCall ==
  ASSUME Basic, MeetingKept, ~sasi, i.at = "check", SamePhase, i.done + 1 = Count,
         EndedWith(i.done + 1), i.phase # "MSG_IN", UNCHANGED <<tgt, dat, t, script, moved>>
  PROVE  MeetingKept'
<1> /\ Records /\ Signals /\ TargetCounts /\ InitiatorCounts /\ MovedBounds /\ CommandsKnown
    /\ Selecting /\ Places /\ Counts /\ Byte /\ SameCommand /\ Stored
    /\ Accounts /\ Own /\ StatusComplete
  BY DEF Basic, MeetingKept
<1>t. /\ t.n \in Nat /\ i.done \in Nat /\ i.offset \in Nat /\ i.length \in Nat /\ moved \in Nat
      /\ tgt.phase \in Phase /\ i.phase \in Phase
      /\ i.cmd # None => /\ script[i.cmd].length \in Nat
                         /\ script[i.cmd].data \in Data \cup {"STATUS"}
      /\ Total \in Nat \ {0} /\ CdbLength \in Nat \ {0}
  BY NumbersAre, HandshakeAssumption
<1>e. /\ i'.cmd = i.cmd /\ i'.buf = i.buf
      /\ i'.offset = IF i.phase = "COMMAND" THEN i.offset + (i.done + 1) ELSE i.offset
      /\ i'.length = IF i.phase \in Data THEN i.length - (i.done + 1) ELSE i.length
      /\ i'.status = IF i.phase = "STATUS" /\ i.done + 1 = 1 THEN i.buf ELSE i.status
      /\ i'.at = IF i.phase = "DATA_OUT" /\ i.done + 1 # i.length THEN "reset" ELSE "loop"
      /\ i.phase \in Data => i.done + 1 = i.length
      /\ i.phase \notin Data \cup {"COMMAND"} => i.done = 0
      /\ i.cmd # None /\ UNCHANGED <<tgt, dat, t, script, moved>>
      /\ i.at = "check" /\ i.phase = tgt.phase /\ Meeting
  <2>1. InCall /\ i.phase = tgt.phase /\ i.cmd # None
    BY DEF InCall, CommandsKnown, SamePhase
  <2>2. Meeting
    BY <2>1 DEF Meeting, Joined, Selecting, Signals, SamePhase
  <2>3. /\ i.phase \in Data => i.done + 1 = i.length
        /\ i.phase \notin Data \cup {"COMMAND"} => i.done = 0
    BY <2>1 DEF InitiatorCounts, Count
  <2>4. QED
    BY <2>1, <2>2, <2>3 DEF EndedWith
<1>1. Selecting'
  BY <1>e DEF Selecting, Joined, InCall
<1>2. Places'
  BY <1>e DEF Places, InCall
<1>3. Counts'
  BY <1>e, <1>t DEF Counts, Base, Taken, ToTarget, InCall, Data
<1>4. Byte'
  BY <1>e DEF Byte
<1>5. SameCommand'
  BY <1>e DEF SameCommand, Taken
<1>6. Stored'
  BY <1>e DEF Stored, Taken
<1>7. Accounts'
  <2>1. Counted' = IF i.phase \in Data THEN Counted + i.done + 1 ELSE Counted
    BY <1>e, <1>t DEF Counted
  <2>2. /\ i.phase = tgt.phase /\ i.at = "check" /\ InCall /\ Meeting
        /\ i'.at \in {"loop", "reset"} /\ UNCHANGED <<tgt, moved>>
    BY <1>e DEF InCall
  <2>3. Counted \in Int
    BY <1>e, <1>t DEF Counted
  <2>4. /\ tgt.phase \in {"MSG_OUT", "COMMAND"} => Counted = 0
        /\ i.phase \in Data => Counted + i.done + 1 = moved
    BY <2>2 DEF Accounts
  <2>5. /\ tgt.phase \in {"MSG_OUT", "COMMAND"} => Counted' = 0
        /\ i.phase \in Data => Counted' = moved
    BY <2>1, <2>2, <2>4 DEF Data
  <2>6. QED
    BY <2>2, <2>5 DEF Accounts, InCall
<1>8. Own'
  BY <1>e, <1>t DEF Own, DataDone, Counted, InCall, Accounts, Stored
<1>9. StatusComplete'
  BY <1>e DEF StatusComplete, DataDone, Counted, InCall, Own, Data
<1>10. QED
  BY <1>1, <1>2, <1>3, <1>4, <1>5, <1>6, <1>7, <1>8, <1>9 DEF MeetingKept

\* Every step keeps what a target and an initiator agree on.
LEMMA KeepsMeeting ==
  ASSUME Basic, MeetingKept, ~sasi, [Next]_vars
  PROVE  MeetingKept'
<1> Records /\ Signals /\ InitiatorCounts
  BY DEF Basic
<1>1. CASE TargetStep
  <2>1. CASE WaitForSelection \/ WaitForNotBusy
    BY <2>1, MetWait
  <2>2. CASE Reset
    BY <2>2, ResetEffect, MetLeave
  <2>3. CASE GiveUpPhase
    BY <2>3, GiveUpEffect, MetLeave
  <2>4. QED
    BY <1>1, <2>1, <2>2, <2>3, MetAnswer, MetSelected, MetProceed, MetRaise, MetTakeByte,
       MetByteTaken, MetAckGone
       DEF TargetStep
<1>2. CASE PhaseError
  <2>1. i.at = "req" /\ EndedWith(i.done) /\ UNCHANGED <<tgt, dat, t, script, moved>>
    BY <1>2, PhaseErrorEffect
  <2>2. CASE i.phase = "MSG_IN"
    BY <2>1, <2>2, MetEndMsgIn, NumbersAre
  <2>3. CASE i.phase # "MSG_IN"
    BY <2>1, <2>3, MetEndAtReq
  <2>4. QED
    BY <2>2, <2>3
<1>3. CASE ReqGone
  <2>1. CASE i.phase = "MSG_IN"
    BY <1>3, <2>1, ReqGoneEffect, MetEndMsgIn
  <2>2. CASE i.phase # "MSG_IN"
    BY <1>3, <2>2, MetReqGone
  <2>3. QED
    BY <2>1, <2>2
<1>4. CASE CheckPhase
  <2>1. i.at = "check" /\ InCall /\ UNCHANGED <<tgt, ini, dat, t, script, moved>>
    BY <1>4, CheckPhaseEffect DEF InCall
  <2>2. i.done \in Nat /\ i.done + 1 \in Nat
    BY NumbersAre
  <2>3. CASE ~SamePhase /\ EndedWith(i.done)
    BY <2>1, <2>2, <2>3, MetEndMsgIn, MetEndOfPhase
  <2>4. CASE SamePhase /\ i.done + 1 = Count /\ EndedWith(i.done + 1)
    BY <2>1, <2>2, <2>4, MetEndMsgIn, MetEndOfCall
  <2>5. QED
    BY <1>4, <2>1, <2>3, <2>4, CheckPhaseEffect, MetContinue
<1>5. CASE CallFails
  <2>1. i.at = "req" /\ EndedWith(i.done) /\ UNCHANGED <<tgt, dat, t, script, moved>>
    BY <1>5, CallFailsEffect
  <2>2. CASE i.phase = "MSG_IN"
    BY <2>1, <2>2, MetEndMsgIn, NumbersAre
  <2>3. CASE i.phase # "MSG_IN"
    BY <2>1, <2>3, MetEndAtReq
  <2>4. QED
    BY <2>2, <2>3
<1>6. CASE Execute \/ Dispatch \/ PutByte \/ GetByte
  BY <1>6, MetExecute, MetDispatch, MetPutByte, MetGetByte
<1>7. CASE Arbitrate \/ (\E atn \in BOOLEAN : Select(atn)) \/ Answered
  BY <1>7, MetSelection
<1>8. CASE TimedOut \/ PulseRST \/ PulseEnds \/ Terminate
  BY <1>8, MetLeaving
<1>9. CASE UNCHANGED vars
  BY <1>9
     DEF vars, MeetingKept, Selecting, Fresh, Places, Counts, Byte, SameCommand, Stored, Accounts,
         Own, StatusComplete, Meeting, Joined, InCall, Serving, Base, Taken, Counted, DataDone
<1>10. QED
  BY <1>1, <1>2, <1>3, <1>4, <1>5, <1>6, <1>7, <1>8, <1>9 DEF Next, InitiatorStep

-------------------------------------------------------------------------------
(* The bytes that are stored. *)

\* Only TakeByte and GetByte store a byte.
LEMMA OthersStoreNothing ==
  ASSUME [Next]_vars, ~TakeByte, ~GetByte
  PROVE  UNCHANGED <<sasi, inOrder>>
<1>1. CASE TargetStep
  <2>1. CASE WaitForSelection \/ WaitForNotBusy \/ Reset
    BY <2>1 DEF WaitForSelection, WaitForNotBusy, Reset, TargetOnly
  <2>2. CASE Answer \/ Selected \/ Proceed
    BY <2>2 DEF Answer, Selected, Proceed, TargetOnly
  <2>3. CASE Raise \/ ByteTaken \/ AckGone \/ GiveUpPhase
    BY <2>3 DEF Raise, ByteTaken, AckGone, GiveUpPhase, TargetOnly
  <2>4. QED
    BY <1>1, <2>1, <2>2, <2>3 DEF TargetStep
<1>2. CASE Execute \/ Terminate \/ PulseRST \/ PulseEnds
  BY <1>2 DEF Execute, Terminate, PulseRST, PulseEnds, SameData, InitiatorOnly
<1>3. CASE Arbitrate \/ (\E atn \in BOOLEAN : Select(atn)) \/ Answered
  BY <1>3 DEF Arbitrate, Select, Answered, SameData, InitiatorOnly
<1>4. CASE Dispatch \/ PhaseError \/ PutByte \/ ReqGone
  BY <1>4 DEF Dispatch, PhaseError, PutByte, ReqGone, SameData, InitiatorOnly
<1>5. CASE CheckPhase \/ CallFails \/ TimedOut
  BY <1>5 DEF CheckPhase, CallFails, TimedOut, SameData, InitiatorOnly
<1>6. CASE UNCHANGED vars
  BY <1>6 DEF vars
<1>7. QED
  BY <1>1, <1>2, <1>3, <1>4, <1>5, <1>6 DEF Next, InitiatorStep

\* The byte the target takes is the next one of the initiator.
LEMMA TakesNext ==
  ASSUME Basic, MeetingKept, ~sasi, TakeByte
  PROVE  dat.phase = tgt.phase /\ dat.index = t.n /\ FromSameCommand
<1>1. t.at = "ack" /\ i.at = "noreq" /\ tgt.phase \in ToTarget /\ Meeting /\ InCall
  BY TakeByteEffect DEF Basic, Signals, Meeting, Joined, InCall, Serving
<1>2. i.phase = tgt.phase /\ Base = t.n /\ dat.cmd = i.cmd /\ dat.phase = tgt.phase
      /\ dat.index = Base
  BY <1>1 DEF MeetingKept, Places, Counts, Byte
<1>3. tgt.phase = "DATA_OUT" \/ (tgt.phase = "COMMAND" /\ t.n > 0) => t.cmd = i.cmd
  BY <1>1 DEF MeetingKept, SameCommand, Taken
<1>4. QED
  BY <1>2, <1>3 DEF FromSameCommand

\* The byte the initiator gets is the next one of the target, and of this command.
LEMMA GetsNext ==
  ASSUME Basic, MeetingKept, ~sasi, GetByte
  PROVE  /\ dat.phase = i.phase /\ dat.cmd = i.cmd
         /\ dat.index = IF i.phase = "DATA_IN" THEN moved ELSE 0
<1>1. /\ t.at = "ack" /\ i.at = "req" /\ i.phase = tgt.phase /\ tgt.phase \notin ToTarget
      /\ Meeting /\ tgt.phase \in Phase
  BY GetByteEffect, NumbersAre DEF Basic, Meeting, Joined, InCall, Serving
<1>2. dat.cmd = t.cmd /\ dat.phase = tgt.phase /\ dat.index = t.n
  BY <1>1 DEF MeetingKept, Byte
<1>3. t.cmd = i.cmd
  BY <1>1 DEF MeetingKept, SameCommand, ToTarget
<1>4. tgt.phase = "DATA_IN" => moved = t.n
  BY <1>1 DEF MeetingKept, Stored
<1>5. tgt.phase # "DATA_IN" => t.n = 0
  BY <1>1 DEF Basic, TargetCounts, Serving, ToTarget, Data
<1>6. QED
  BY <1>1, <1>2, <1>3, <1>4, <1>5

\* Every byte stored is the next one.
LEMMA KeepsOrder ==
  ASSUME Basic, BytesInOrder, ~sasi => MeetingKept, [Next]_vars
  PROVE  BytesInOrder'
<1>1. CASE TakeByte
  <2>1. sasi' = sasi
    BY <1>1 DEF TakeByte, TargetOnly
  <2>2. ~sasi => inOrder'
    <3> SUFFICES ASSUME ~sasi PROVE inOrder'
      OBVIOUS
    <3>1. dat.phase = tgt.phase /\ dat.index = t.n /\ FromSameCommand
      BY <1>1, TakesNext
    <3>2. inOrder' = (inOrder /\ dat.phase = tgt.phase /\ dat.index = t.n /\ FromSameCommand)
      BY <1>1, Zenon DEF TakeByte
    <3>3. QED
      BY <3>1, <3>2, Zenon DEF BytesInOrder
  <2>3. QED
    BY <2>1, <2>2 DEF BytesInOrder
<1>2. CASE GetByte
  <2>1. sasi' = sasi
    BY <1>2 DEF GetByte, InitiatorOnly
  <2>2. ~sasi => inOrder'
    <3> SUFFICES ASSUME ~sasi PROVE inOrder'
      OBVIOUS
    <3> DEFINE right == dat.index = IF i.phase = "DATA_IN" THEN moved ELSE 0
    <3>1. dat.phase = i.phase /\ dat.cmd = i.cmd /\ right
      BY <1>2, GetsNext
    <3>2. inOrder' = (inOrder /\ dat.phase = i.phase /\ dat.cmd = i.cmd /\ right)
      BY <1>2, Zenon DEF GetByte
    <3> HIDE DEF right
    <3>3. QED
      BY <3>1, <3>2, Zenon DEF BytesInOrder
  <2>3. QED
    BY <2>1, <2>2 DEF BytesInOrder
<1>3. CASE ~TakeByte /\ ~GetByte
  BY <1>3, OthersStoreNothing DEF BytesInOrder
<1>4. QED
  BY <1>1, <1>2, <1>3

-------------------------------------------------------------------------------
(* The theorems. *)

\* The invariant holds at the start.
LEMMA InitIInv ==
  ASSUME Init
  PROVE  IInv
<1>1. Basic /\ BytesInOrder
  BY InitBasic DEF Init, BytesInOrder
<1>2. t.at = "idle" /\ i.at = "idle" /\ i.status = None
  BY DEF Init
<1>3. MeetingKept
  BY <1>2
     DEF MeetingKept, Selecting, Places, Counts, Byte, SameCommand, Stored, Accounts, Own,
         StatusComplete, Meeting, Joined, InCall
<1>4. QED
  BY <1>1, <1>3 DEF IInv

\* The kind of the connection does not change.
LEMMA SasiStays ==
  ASSUME [Next]_vars
  PROVE  sasi' = sasi
<1>1. CASE TakeByte \/ GetByte
  BY <1>1 DEF TakeByte, GetByte, TargetOnly, InitiatorOnly
<1>2. QED
  BY <1>1, OthersStoreNothing

\* The invariant is inductive.
LEMMA KeepsIInv ==
  ASSUME IInv, [Next]_vars
  PROVE  IInv'
<1>1. Basic'
  BY KeepsBasic DEF IInv
<1>2. BytesInOrder'
  BY KeepsOrder DEF IInv
<1>3. (~sasi => MeetingKept)'
  BY KeepsMeeting, SasiStays DEF IInv
<1>4. QED
  BY <1>1, <1>2, <1>3 DEF IInv

\* The invariant always holds.
LEMMA Always ==
  Spec => []IInv
<1>1. Init => IInv
  BY InitIInv
<1>2. IInv /\ [Next]_vars => IInv'
  BY KeepsIInv
<1>3. QED
  BY <1>1, <1>2, PTL DEF Spec

\* With arbitration, whatever times out, is reset or killed, each byte that a side stores
\* is the next one that the other side has for it: CommandHandShake(), ReceiveHandShake(),
\* SendHandShake() and InitiatorExecutor's loops of cpp/buses/bus.cpp and
\* cpp/initiator/initiator_executor.cpp.
THEOREM BytesArriveInOrder ==
  Spec => []BytesInOrder
<1>1. IInv => BytesInOrder
  BY DEF IInv
<1>2. QED
  BY <1>1, Always, PTL

\* The basic invariant has the types of TypeOK.
LEMMA BasicTypes ==
  ASSUME Basic
  PROVE  TypeOK
<1>1. i.offset + i.done \in Nat
  BY NumbersAre DEF Basic
<1>2. moved \in 0..Total
  BY DEF Basic, Records, MovedBounds
<1>3. t.n <= CdbLength \/ t.n <= Total
  BY DEF Basic, TargetCounts
<1>4. QED
  BY <1>2, <1>3 DEF Basic, Records, TypeOK, TargetAt, InitiatorAt

\* The two sides have a sane state, and a status that Execute() of
\* cpp/initiator/initiator_executor.cpp returns is the one of its own command, after all
\* of the data of that command: a status of an earlier command is never picked up.
THEOREM StatusIsOfThisCommand ==
  Spec => []StatusAgrees
<1>1. IInv => StatusAgrees
  BY BasicTypes DEF IInv, MeetingKept, StatusComplete, DataDone, Counted, StatusAgrees, StatusIsOwn
<1>2. QED
  BY <1>1, Always, PTL
===============================================================================
