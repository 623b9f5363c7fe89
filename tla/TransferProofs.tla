---------------------------- MODULE TransferProofs ----------------------------
(***************************************************************************)
(* Proofs about the parts of MCDevices that move data for a host, for      *)
(* every size of medium, block, packet queue and chunk: the DaynaPort, the *)
(* disk drive with its Linux cache, and the SCSI generic device. With the  *)
(* invariants of DevicesProofs, the types of all parts.                    *)
(***************************************************************************)
EXTENDS DevicesProofs

(* The DaynaPort: packets. *)

Ascending(s) == \A i, j \in 1..Len(s) : i < j => s[i] < s[j]
AllBelow(s, n) == \A i \in 1..Len(s) : s[i] < n
AllAbove(s, n) == \A i \in 1..Len(s) : n < s[i]

\* What was written to the interface.
Frame == [message : Nat, exact : BOOLEAN]

PacketTypes ==
  /\ queue \in Seq(Nat) /\ read_packets \in Seq(Nat) /\ arrived \in Nat /\ messages \in Nat
  /\ response.packet \in Nat /\ accepted_frames \in Seq(Nat)
  /\ frames \in Seq(Frame)
  /\ net_phase \in {"FREE", "DATA_IN", "DATA_OUT"}
  /\ attached # "ATTACHED" => net_phase = "FREE"

\* The packets that were fetched came before the one that is on its way to the host, and this one
\* before those that wait.
PacketOrder ==
  /\ Ascending(queue) /\ AllBelow(queue, arrived + 1)
  /\ Ascending(read_packets) /\ AllBelow(read_packets, arrived + 1)
  /\ \A k \in 1..Len(queue) : AllBelow(read_packets, queue[k])
  /\ net_phase = "DATA_IN" /\ response.packet # 0 =>
       /\ AllBelow(read_packets, response.packet) /\ AllAbove(queue, response.packet)
       /\ response.packet < arrived + 1

\* What a host has been told about more packets, or is being told.
MorePackets ==
  /\ attached = "NEW" => ~pending
  /\ attached = "ATTACHED" /\ net_phase # "DATA_IN" /\ pending => queue # <<>>
  /\ net_phase = "DATA_IN" /\ response.more => queue # <<>>

\* A frame has the number of an earlier command, and while a packet comes from the host, of one before
\* the command that sends it.
FrameOrder ==
  /\ \A i \in 1..Len(frames) : frames[i].message <= messages
  /\ net_phase = "DATA_OUT" => \A i \in 1..Len(frames) : frames[i].message < messages
  /\ \A i \in 1..Len(frames) : frames[i].exact =>
       /\ \E k \in 1..Len(accepted_frames) : accepted_frames[k] = frames[i].message
       /\ \A j \in 1..i - 1 : frames[j].exact => frames[j].message < frames[i].message

\* The bridge is one that was there before, or the device has created it where there was none.
BridgeKept ==
  /\ N!TapTypeOK
  /\ found \in {"NONE", "MANUAL"}
  /\ found = "MANUAL" => network.bridge = "MANUAL" /\ network.up /\ "eth0" \in network.members
  /\ bridge_created => found = "NONE"
  /\ ~bridge_created /\ ~untidy => network.bridge = found
  /\ attached = "NEW" => network.bridge = found /\ tap_fd = "NONE"
  /\ attached = "DETACHED" /\ ~untidy => network.bridge = found
  /\ tap_fd # "OPEN" => ~network.link /\ ~network.address
  /\ tap_fd = "NONE" => ~bridge_created
  /\ attached \in {"REFUSED", "DETACHED"} => tap_fd # "OPEN"

NetworkInv == part = "NETWORK" => PacketTypes /\ PacketOrder /\ MorePackets /\ FrameOrder /\ BridgeKept

\* A packet that comes in at the end of an ascending queue.
LEMMA AppendAscends ==
  ASSUME NEW s \in Seq(Nat), NEW x \in Nat, Ascending(s), AllBelow(s, x)
  PROVE  /\ Append(s, x) \in Seq(Nat) /\ Append(s, x) # <<>>
         /\ Ascending(Append(s, x)) /\ AllBelow(Append(s, x), x + 1)
         /\ \A n \in Nat : AllBelow(s, n) /\ x < n => AllBelow(Append(s, x), n)
<1>1. /\ Append(s, x) \in Seq(Nat) /\ Len(Append(s, x)) = Len(s) + 1 /\ Len(s) \in Nat
      /\ \A i \in 1..Len(s) : Append(s, x)[i] = s[i] /\ s[i] \in Nat
      /\ Append(s, x)[Len(s) + 1] = x
  OBVIOUS
<1>2. QED
  BY <1>1 DEF Ascending, AllBelow

\* A packet that leaves an ascending queue at its head.
LEMMA TailAscends ==
  ASSUME NEW s \in Seq(Nat), s # <<>>, Ascending(s)
  PROVE  /\ Tail(s) \in Seq(Nat) /\ Head(s) \in Nat /\ 1 \in 1..Len(s) /\ Head(s) = s[1]
         /\ Ascending(Tail(s)) /\ AllAbove(Tail(s), Head(s))
         /\ \A i \in 1..Len(Tail(s)) : i + 1 \in 1..Len(s) /\ Tail(s)[i] = s[i + 1]
         /\ \A n \in Nat : AllBelow(s, n) => AllBelow(Tail(s), n)
<1>1. /\ Tail(s) \in Seq(Nat) /\ Head(s) \in Nat /\ Head(s) = s[1] /\ Len(s) \in Nat \ {0}
      /\ Len(Tail(s)) = Len(s) - 1
      /\ \A i \in 1..Len(Tail(s)) : Tail(s)[i] = s[i + 1]
  BY HeadTailProperties
<1>2. \A i \in 1..Len(Tail(s)) : i + 1 \in 1..Len(s) /\ Tail(s)[i] = s[i + 1]
  BY <1>1
<1>3. QED
  BY <1>1, <1>2 DEF Ascending, AllBelow, AllAbove

\* The types of the packets and commands in a step that begins a command and takes nothing from the
\* host.
LEMMA BeginsCommand ==
  ASSUME PacketTypes, NEW m, N!Begin(m)
  PROVE  /\ messages' \in Nat /\ messages' = messages + 1
         /\ UNCHANGED <<arrived, stops_on_error, attached>>
         /\ attached = "ATTACHED" /\ net_phase = "FREE"
BY DEF PacketTypes, N!Begin, N!counts

\* What Receive() gives and leaves.
LEMMA Received ==
  ASSUME PacketTypes, PacketOrder, NEW r \in N!Receive
  PROVE  /\ r.packet \in Nat /\ r.left \in Seq(Nat)
         /\ Ascending(r.left) /\ AllBelow(r.left, arrived + 1)
         /\ \A k \in 1..Len(r.left) : AllBelow(read_packets, r.left[k])
         /\ r.packet # 0 => /\ AllBelow(read_packets, r.packet) /\ AllAbove(r.left, r.packet)
                            /\ r.packet < arrived + 1
<1>1. \/ r.packet = 0 /\ r.left = queue
      \/ queue # <<>> /\ r.left = Tail(queue) /\ r.packet \in {0, Head(queue)}
  BY DEF N!Receive, N!HasPendingPackets
<1>2. CASE r.packet = 0 /\ r.left = queue
  BY <1>2 DEF PacketTypes, PacketOrder
<1>3. CASE queue # <<>> /\ r.left = Tail(queue) /\ r.packet \in {0, Head(queue)}
  <2>1. queue \in Seq(Nat) /\ Ascending(queue) /\ arrived + 1 \in Nat /\ AllBelow(queue, arrived + 1)
        /\ \A k \in 1..Len(queue) : AllBelow(read_packets, queue[k])
    BY DEF PacketTypes, PacketOrder
  <2>2. /\ Tail(queue) \in Seq(Nat) /\ Head(queue) \in Nat /\ 1 \in 1..Len(queue)
        /\ Head(queue) = queue[1] /\ Ascending(Tail(queue)) /\ AllAbove(Tail(queue), Head(queue))
        /\ \A i \in 1..Len(Tail(queue)) : i + 1 \in 1..Len(queue) /\ Tail(queue)[i] = queue[i + 1]
        /\ AllBelow(Tail(queue), arrived + 1)
    BY <1>3, <2>1, TailAscends
  <2>3. AllBelow(read_packets, Head(queue)) /\ Head(queue) < arrived + 1
    BY <2>1, <2>2 DEF AllBelow
  <2>4. \A k \in 1..Len(Tail(queue)) : AllBelow(read_packets, Tail(queue)[k])
    BY <2>1, <2>2
  <2>5. QED
    BY <1>3, <2>2, <2>3, <2>4
<1>4. QED
  BY <1>1, <1>2, <1>3

\* Every step of the DaynaPort keeps the packets in order.
LEMMA PacketStep ==
  ASSUME PacketTypes, PacketOrder, MorePackets, N!Next
  PROVE  PacketTypes' /\ PacketOrder' /\ MorePackets'
<1> DEFINE Kept == PacketTypes' /\ PacketOrder' /\ MorePackets'
<1>1. CASE N!SetUp
  BY <1>1 DEF N!SetUp, N!counts, N!heard, N!said, PacketTypes, PacketOrder, MorePackets
<1>2. CASE N!CleanUp
  <2>1. /\ queue' = <<>> /\ attached' = "DETACHED" /\ net_phase = "FREE"
        /\ UNCHANGED <<arrived, response, pending, read_packets, frames, accepted_frames, net_phase,
                       messages>>
    BY <1>2 DEF N!CleanUp, N!counts, N!said
  <2>2. <<>> \in Seq(Nat) /\ Len(<<>>) = 0
    OBVIOUS
  <2>3. QED
    BY <2>1, <2>2 DEF PacketTypes, PacketOrder, MorePackets, Ascending, AllBelow, AllAbove
<1>3. CASE N!Arrive
  <2>1. /\ arrived' = arrived + 1 /\ queue' = Append(queue, arrived + 1)
        /\ UNCHANGED <<attached, response, pending, read_packets, frames, accepted_frames, net_phase,
                       messages>>
    BY <1>3 DEF N!Arrive, N!said
  <2>a. arrived + 1 \in Nat /\ arrived' + 1 = (arrived + 1) + 1
    BY <2>1 DEF PacketTypes
  <2>2. /\ queue' \in Seq(Nat) /\ queue' # <<>> /\ Ascending(queue') /\ AllBelow(queue', arrived' + 1)
    BY <2>1, <2>a, AppendAscends DEF PacketTypes, PacketOrder
  <2>3. /\ Len(queue') = Len(queue) + 1 /\ queue'[Len(queue) + 1] = arrived + 1
        /\ \A i \in 1..Len(queue) : queue'[i] = queue[i] /\ queue[i] \in Nat
        /\ arrived \in Nat /\ Len(queue) \in Nat
        /\ \A i \in 1..Len(read_packets) : read_packets[i] \in Nat
    BY <2>1 DEF PacketTypes
  <2>b. AllBelow(read_packets', arrived' + 1)
    BY <2>1, <2>3 DEF PacketOrder, AllBelow
  <2>c. \A k \in 1..Len(queue') : AllBelow(read_packets', queue'[k])
    BY <2>1, <2>3 DEF PacketOrder, AllBelow
  <2>d. net_phase' = "DATA_IN" /\ response'.packet # 0 =>
          /\ AllBelow(read_packets', response'.packet) /\ AllAbove(queue', response'.packet)
          /\ response'.packet < arrived' + 1
    BY <2>1, <2>3 DEF PacketTypes, PacketOrder, AllAbove
  <2>4. PacketOrder'
    BY <2>1, <2>2, <2>b, <2>c, <2>d DEF PacketOrder
  <2>5. QED
    BY <2>1, <2>2, <2>4 DEF PacketTypes, MorePackets
<1>4. ASSUME NEW root \in BOOLEAN, NEW valid \in BOOLEAN, N!GetMessage(root, valid)
      PROVE  Kept
  <2>1. /\ messages' \in Nat /\ attached = "ATTACHED" /\ net_phase = "FREE"
        /\ UNCHANGED <<arrived, attached, pending, read_packets, frames, accepted_frames>>
    BY <1>4, BeginsCommand DEF N!GetMessage, N!said
  <2>2. CASE net_phase' = "FREE" /\ UNCHANGED <<queue, response>>
    BY <2>1, <2>2 DEF PacketTypes, PacketOrder, MorePackets
  <2>3. ASSUME NEW r \in N!Receive, queue' = r.left, net_phase' = "DATA_IN",
               response' = [packet |-> r.packet, more |-> N!More(r.packet, r.left)]
        PROVE  Kept
    <3>1. /\ response'.packet = r.packet
          /\ response'.more => r.left # <<>>
      BY <2>3 DEF N!More, N!HasPendingPackets
    <3>2. QED
      BY <2>1, <2>3, <3>1, Received DEF PacketTypes, PacketOrder, MorePackets
  <2>4. QED
    BY <1>4, <2>2, <2>3 DEF N!GetMessage, N!Ends
<1>5. CASE N!Deliver
  <2>1. /\ net_phase = "DATA_IN" /\ net_phase' = "FREE"
        /\ UNCHANGED <<arrived, attached, queue, response, frames, accepted_frames, messages>>
        /\ \/ pending' = response.more
              /\ read_packets' = IF response.packet = 0 THEN read_packets
                                 ELSE Append(read_packets, response.packet)
           \/ pending' = FALSE /\ UNCHANGED read_packets
    BY <1>5 DEF N!Deliver, N!counts, N!said
  <2>2. attached = "ATTACHED"
    BY <2>1 DEF PacketTypes
  <2>3. MorePackets'
    BY <2>1, <2>2 DEF MorePackets
  <2>4. CASE read_packets' = read_packets
    BY <2>1, <2>3, <2>4 DEF PacketTypes, PacketOrder
  <2>5. CASE response.packet # 0 /\ read_packets' = Append(read_packets, response.packet)
    <3>1. /\ read_packets' \in Seq(Nat) /\ Ascending(read_packets')
          /\ \A n \in Nat : AllBelow(read_packets, n) /\ response.packet < n => AllBelow(read_packets', n)
      BY <2>1, <2>5, AppendAscends DEF PacketTypes, PacketOrder
    <3>2. AllBelow(read_packets', arrived + 1)
      BY <2>1, <2>5, <3>1 DEF PacketTypes, PacketOrder
    <3>3. \A k \in 1..Len(queue) : AllBelow(read_packets', queue[k])
      BY <2>1, <2>5, <3>1 DEF PacketTypes, PacketOrder, AllAbove
    <3>4. QED
      BY <2>1, <2>3, <3>1, <3>2, <3>3 DEF PacketTypes, PacketOrder
  <2>6. QED
    BY <2>1, <2>4, <2>5
<1>6. ASSUME NEW m, N!Begin(m), net_phase' \in {"FREE", "DATA_OUT"},
             UNCHANGED <<queue, response, pending, read_packets, frames, accepted_frames>>
      PROVE  Kept
  BY <1>6, BeginsCommand DEF PacketTypes, PacketOrder, MorePackets
<1>7. ASSUME NEW f \in {"RAW", "SIZED", "OTHER"}, NEW fits \in BOOLEAN, N!SendMessage(f, fits)
      PROVE  Kept
  BY <1>6, <1>7 DEF N!SendMessage, N!Ends, N!heard, N!said
<1>8. CASE N!SetAddress
  BY <1>6, <1>8 DEF N!SetAddress, N!heard, N!said
<1>9. CASE N!NoEffect
  BY <1>6, <1>9 DEF N!NoEffect, N!Ends, N!heard, N!said
<1>10. CASE N!WriteData
  <2>1. /\ net_phase = "DATA_OUT" /\ net_phase' = "FREE"
        /\ UNCHANGED <<arrived, attached, queue, response, pending, read_packets, messages>>
    BY <1>10 DEF N!WriteData, N!Ends, N!counts, N!heard
  <2>2. PICK exact \in BOOLEAN :
          /\ accepted_frames' \in {accepted_frames, Append(accepted_frames, messages)}
          /\ frames' \in {frames, Append(frames, [message |-> messages, exact |-> exact])}
    BY <1>10 DEF N!WriteData, N!said
  <2> DEFINE f == [message |-> messages, exact |-> exact]
  <2>3. f \in Frame /\ frames' \in {frames, Append(frames, f)}
    BY <2>2 DEF PacketTypes, Frame
  <2>4. accepted_frames \in Seq(Nat) /\ messages \in Nat /\ frames \in Seq(Frame)
    BY DEF PacketTypes
  <2> HIDE DEF f
  <2>5. frames' \in Seq(Frame)
    <3>1. CASE frames' = frames
      BY <2>4, <3>1
    <3>2. CASE frames' = Append(frames, f)
      <4>1. Append(frames, f) \in Seq(Frame)
        BY <2>3, <2>4, AppendProperties
      <4>2. QED
        BY <3>2, <4>1
    <3>3. QED
      BY <2>3, <3>1, <3>2
  <2>6. accepted_frames' \in Seq(Nat)
    <3>1. accepted_frames' \in {accepted_frames, Append(accepted_frames, messages)}
      BY <2>2
    <3>2. QED
      BY <2>4, <3>1
  <2>7. accepted_frames' \in Seq(Nat) /\ frames' \in Seq(Frame)
    BY <2>5, <2>6
  <2>8. QED
    BY <2>1, <2>7 DEF PacketTypes, PacketOrder, MorePackets
<1>11. CASE N!BreakOff
  BY <1>11 DEF N!BreakOff, N!Ends, N!counts, N!heard, N!said, PacketTypes, PacketOrder, MorePackets
<1>12. ASSUME NEW up \in BOOLEAN, N!EnableInterface(up)
       PROVE  Kept
  <2>1. /\ messages' \in Nat /\ net_phase' = "FREE" /\ net_phase = "FREE"
        /\ UNCHANGED <<arrived, attached, response, read_packets, frames, accepted_frames>>
        /\ \/ UNCHANGED <<queue, pending>>
           \/ queue' = <<>> /\ ~pending'
           \/ UNCHANGED queue /\ (pending' => pending)
    BY <1>12, BeginsCommand DEF N!EnableInterface, N!Ends, N!said
  <2>2. <<>> \in Seq(Nat) /\ Len(<<>>) = 0
    OBVIOUS
  <2>3. CASE queue' = <<>> /\ ~pending'
    BY <2>1, <2>2, <2>3 DEF PacketTypes, PacketOrder, MorePackets, Ascending, AllBelow, AllAbove
  <2>4. CASE UNCHANGED queue /\ (pending' => pending)
    BY <2>1, <2>4 DEF PacketTypes, PacketOrder, MorePackets
  <2>5. QED
    BY <2>1, <2>3, <2>4
<1>13. QED
  BY <1>1, <1>2, <1>3, <1>4, <1>5, <1>7, <1>8, <1>9, <1>10, <1>11, <1>12 DEF N!Next

\* A frame is a record with the number of its command, and so is one that is added.
LEMMA FramesNumbered ==
  ASSUME frames \in Seq(Frame)
  PROVE  /\ Len(frames) \in Nat /\ \A i \in 1..Len(frames) : frames[i].message \in Nat
         /\ \A f : /\ Len(Append(frames, f)) = Len(frames) + 1
                   /\ Append(frames, f)[Len(frames) + 1] = f
                   /\ \A i \in 1..Len(frames) : Append(frames, f)[i] = frames[i]
<1>1. Len(frames) \in Nat /\ \A i \in 1..Len(frames) : frames[i] \in Frame
  OBVIOUS
<1>2. QED
  BY <1>1, AppendProperties DEF Frame

\* Every step of the DaynaPort keeps the frames in the order of the commands.
LEMMA FrameStep ==
  ASSUME PacketTypes, FrameOrder, N!Next
  PROVE  FrameOrder'
<1>1. ASSUME NEW m, N!Begin(m), UNCHANGED <<frames, accepted_frames>>
      PROVE  FrameOrder'
  <2>1. messages' = messages + 1 /\ messages \in Nat /\ messages' \in Nat
        /\ \A i \in 1..Len(frames) : frames[i].message \in Nat
    BY <1>1, BeginsCommand, FramesNumbered DEF PacketTypes
  <2>2. QED
    BY <1>1, <2>1 DEF FrameOrder
<1>2. ASSUME UNCHANGED <<frames, accepted_frames, messages>>, net_phase' = "DATA_OUT" => UNCHANGED net_phase
      PROVE  FrameOrder'
  BY <1>2 DEF FrameOrder
<1>3. CASE N!WriteData
  <2>1. PICK exact \in BOOLEAN :
          /\ exact => accepted_frames' = Append(accepted_frames, messages)
          /\ accepted_frames' \in {accepted_frames, Append(accepted_frames, messages)}
          /\ frames' = Append(frames, [message |-> messages, exact |-> exact]) \/ UNCHANGED frames
    BY <1>3 DEF N!WriteData, N!said
  <2>2. UNCHANGED messages /\ net_phase' = "FREE" /\ net_phase = "DATA_OUT" /\ messages \in Nat
    BY <1>3 DEF N!WriteData, N!Ends, PacketTypes
  <2>a. accepted_frames \in Seq(Nat) /\ Len(accepted_frames) \in Nat
    BY DEF PacketTypes
  <2>3. \A k \in 1..Len(accepted_frames) :
          k \in 1..Len(accepted_frames') /\ accepted_frames'[k] = accepted_frames[k]
    BY <2>1, <2>2, <2>a, SMTT(30)
  <2>4. exact => \E k \in 1..Len(accepted_frames') : accepted_frames'[k] = messages
    <3>1. ASSUME exact
          PROVE  /\ Len(accepted_frames) + 1 \in 1..Len(accepted_frames')
                 /\ accepted_frames'[Len(accepted_frames) + 1] = messages
      BY <2>1, <3>1 DEF PacketTypes
    <3>2. QED
      BY <3>1
  <2>5. CASE UNCHANGED frames
    BY <2>2, <2>3, <2>5 DEF FrameOrder
  <2>6. CASE frames' = Append(frames, [message |-> messages, exact |-> exact])
    <3>1. /\ Len(frames') = Len(frames) + 1 /\ Len(frames) \in Nat
          /\ \A i \in 1..Len(frames) : frames'[i] = frames[i] /\ frames[i].message \in Nat
          /\ frames'[Len(frames) + 1].message = messages /\ frames'[Len(frames) + 1].exact = exact
      BY <2>2, <2>6, FramesNumbered DEF PacketTypes
    <3>2. /\ \A i \in 1..Len(frames) : frames[i].message < messages
          /\ \A i \in 1..Len(frames) : frames[i].exact =>
               /\ \E k \in 1..Len(accepted_frames) : accepted_frames[k] = frames[i].message
               /\ \A j \in 1..i - 1 : frames[j].exact => frames[j].message < frames[i].message
      BY <2>2 DEF FrameOrder
    <3>3. \A i \in 1..Len(frames') : frames'[i].message <= messages
      BY <2>2, <3>1, <3>2
    <3>4. ASSUME NEW i \in 1..Len(frames'), frames'[i].exact
          PROVE  /\ \E k \in 1..Len(accepted_frames') : accepted_frames'[k] = frames'[i].message
                 /\ \A j \in 1..i - 1 : frames'[j].exact => frames'[j].message < frames'[i].message
      <4>1. CASE i \in 1..Len(frames)
        <5>1. frames'[i] = frames[i] /\ \A j \in 1..i - 1 : j \in 1..Len(frames) /\ frames'[j] = frames[j]
          BY <3>1, <4>1
        <5>2. PICK k \in 1..Len(accepted_frames) : accepted_frames[k] = frames[i].message
          BY <3>2, <3>4, <4>1, <5>1
        <5>3. \E l \in 1..Len(accepted_frames') : accepted_frames'[l] = frames'[i].message
          BY <2>3, <5>1, <5>2
        <5>4. QED
          BY <3>2, <3>4, <4>1, <5>1, <5>3
      <4>2. CASE i = Len(frames) + 1
        BY <2>4, <3>1, <3>2, <3>4, <4>2
      <4>3. QED
        BY <3>1, <4>1, <4>2
    <3>5. QED
      BY <2>2, <3>3, <3>4 DEF FrameOrder
  <2>7. QED
    BY <2>1, <2>5, <2>6
<1>4. CASE N!SetUp \/ N!CleanUp \/ N!Arrive \/ N!Deliver \/ N!BreakOff
  BY <1>2, <1>4
     DEF N!SetUp, N!CleanUp, N!Arrive, N!Deliver, N!BreakOff, N!counts, N!heard, N!said, N!Ends
<1>5. CASE \/ N!SetAddress \/ N!NoEffect
           \/ \E r, v \in BOOLEAN : N!GetMessage(r, v)
           \/ \E f \in {"RAW", "SIZED", "OTHER"}, fits \in BOOLEAN : N!SendMessage(f, fits)
           \/ \E up \in BOOLEAN : N!EnableInterface(up)
  BY <1>1, <1>5
     DEF N!SetAddress, N!NoEffect, N!GetMessage, N!SendMessage, N!EnableInterface, N!heard,
     N!said
<1>6. QED
  BY <1>3, <1>4, <1>5 DEF N!Next

(* The DaynaPort: the bridge. *)

\* Is step one of the first n of the steps of Init()?
Done(bridged, n, step) == \E i \in 1..n : N!Steps(bridged)[i] = step

StepNames == {"INTERFACE", "OPEN", "TUNSETIFF", "SOCKET", "LINK", "ADDRESS", "BRIDGE_SOCKET", "ADDBR",
              "ADDIF_ETH", "BRIDGE_UP", "ADDIF_TAP"}

\* The elements of two lists of steps, one behind the other.
LEMMA BehindEachOther ==
  ASSUME NEW x \in Seq(StepNames), NEW y \in Seq(StepNames)
  PROVE  /\ x \o y \in Seq(StepNames) /\ Len(x \o y) = Len(x) + Len(y)
         /\ \A i \in 1..Len(x) : (x \o y)[i] = x[i]
         /\ \A i \in 1..Len(y) : (x \o y)[Len(x) + i] = y[i]
<1>1. /\ x \o y \in Seq(StepNames) /\ Len(x \o y) = Len(x) + Len(y)
      /\ \A i \in 1..Len(x) + Len(y) : (x \o y)[i] = IF i <= Len(x) THEN x[i] ELSE y[i - Len(x)]
  BY ConcatProperties
<1>2. Len(y) \in Nat
  OBVIOUS
<1>3. ASSUME NEW i \in 1..Len(y)
      PROVE  (x \o y)[Len(x) + i] = y[i]
  <2>1. Len(x) + i \in 1..Len(x) + Len(y) /\ ~(Len(x) + i <= Len(x)) /\ Len(x) + i - Len(x) = i
    BY <1>2
  <2>2. QED
    BY <1>1, <2>1
<1>4. QED
  BY <1>1, <1>2, <1>3

\* Where the steps of Init() that matter are: the device file is opened second, and only a bridge that
\* is not there is added and then brought up.
LEMMA StepsInOrder ==
  ASSUME NEW bridged \in BOOLEAN
  PROVE  LET s == N!Steps(bridged)
             new == bridged /\ network.bridge = "NONE" IN
         /\ Len(s) = IF ~bridged THEN 6 ELSE IF new THEN 10 ELSE 7
         /\ \A i \in 1..Len(s) : /\ s[i] = "OPEN" <=> i = 2
                                 /\ s[i] = "ADDBR" <=> new /\ i = 7
                                 /\ s[i] = "BRIDGE_UP" <=> new /\ i = 9
<1> DEFINE c == N!Common
           a == <<"ADDRESS">>
           b == <<"BRIDGE_SOCKET">>
           k == N!Create
           t == <<"ADDIF_TAP">>
<1>1. /\ c \in Seq(StepNames) /\ Len(c) = 5 /\ c[1] = "INTERFACE" /\ c[2] = "OPEN" /\ c[3] = "TUNSETIFF"
      /\ c[4] = "SOCKET" /\ c[5] = "LINK"
  BY DEF N!Common, StepNames
<1>2. /\ a \in Seq(StepNames) /\ Len(a) = 1 /\ a[1] = "ADDRESS"
      /\ b \in Seq(StepNames) /\ Len(b) = 1 /\ b[1] = "BRIDGE_SOCKET"
      /\ t \in Seq(StepNames) /\ Len(t) = 1 /\ t[1] = "ADDIF_TAP"
      /\ <<>> \in Seq(StepNames)
  BY DEF StepNames
<1>3. k \in Seq(StepNames) /\ Len(k) = 3 /\ k[1] = "ADDBR" /\ k[2] = "ADDIF_ETH" /\ k[3] = "BRIDGE_UP"
  BY DEF N!Create, StepNames
<1>4. N!Steps(bridged) = IF ~bridged THEN c \o a
                         ELSE IF network.bridge = "NONE" THEN c \o b \o k \o t ELSE c \o b \o <<>> \o t
  BY DEF N!Steps
<1> HIDE DEF c, a, b, k, t
<1>5. CASE ~bridged
  <2>a. /\ c \o a \in Seq(StepNames) /\ Len(c \o a) = Len(c) + Len(a)
        /\ \A i \in 1..Len(c) : (c \o a)[i] = c[i]
        /\ \A i \in 1..Len(a) : (c \o a)[Len(c) + i] = a[i]
    BY <1>1, <1>2, BehindEachOther
  <2>1. /\ Len(c \o a) = 6 /\ (c \o a)[6] = "ADDRESS" /\ \A i \in 1..5 : (c \o a)[i] = c[i]
    BY <1>1, <1>2, <2>a
  <2> DEFINE s == c \o a
  <2>2. /\ s[1] = "INTERFACE" /\ s[2] = "OPEN" /\ s[3] = "TUNSETIFF" /\ s[4] = "SOCKET" /\ s[5] = "LINK"
    BY <1>1, <2>1
  <2>3. s = N!Steps(bridged)
    BY <1>4, <1>5
  <2>4. Len(s) = 6 /\ s[6] = "ADDRESS"
    BY <2>1
  <2> HIDE DEF s
  <2>5. \A i \in 1..6 : (s[i] = "OPEN" <=> i = 2) /\ s[i] # "ADDBR" /\ s[i] # "BRIDGE_UP"
    BY <2>2, <2>4
  <2>6. QED
    BY <1>5, <2>3, <2>4, <2>5
<1>6. /\ c \o b \in Seq(StepNames) /\ Len(c \o b) = 6
      /\ \A i \in 1..5 : (c \o b)[i] = c[i]
      /\ (c \o b)[6] = "BRIDGE_SOCKET"
  <2>1. /\ c \o b \in Seq(StepNames) /\ Len(c \o b) = Len(c) + Len(b)
        /\ \A i \in 1..Len(c) : (c \o b)[i] = c[i]
        /\ \A i \in 1..Len(b) : (c \o b)[Len(c) + i] = b[i]
    BY <1>1, <1>2, BehindEachOther
  <2>2. QED
    BY <1>1, <1>2, <2>1
<1>7. CASE bridged /\ network.bridge = "NONE"
  <2> DEFINE e == c \o b
             d == e \o k
             s == d \o t
  <2>1. /\ d \in Seq(StepNames) /\ Len(d) = 9
        /\ \A i \in 1..6 : d[i] = e[i]
        /\ d[7] = "ADDBR" /\ d[8] = "ADDIF_ETH" /\ d[9] = "BRIDGE_UP"
    <3> HIDE DEF e
    <3>a. e \in Seq(StepNames) /\ Len(e) = 6
      BY <1>6 DEF e
    <3>1. /\ e \o k \in Seq(StepNames) /\ Len(e \o k) = Len(e) + Len(k)
          /\ \A i \in 1..Len(e) : (e \o k)[i] = e[i]
          /\ \A i \in 1..Len(k) : (e \o k)[Len(e) + i] = k[i]
      BY <1>3, <3>a, BehindEachOther
    <3>2. QED
      BY <1>3, <3>a, <3>1, SMTT(30)
  <2> HIDE DEF d
  <2>2. /\ Len(s) = 10 /\ s[10] = "ADDIF_TAP" /\ \A i \in 1..9 : s[i] = d[i]
    <3>1. /\ d \o t \in Seq(StepNames) /\ Len(d \o t) = Len(d) + Len(t)
          /\ \A i \in 1..Len(d) : (d \o t)[i] = d[i]
          /\ \A i \in 1..Len(t) : (d \o t)[Len(d) + i] = t[i]
      BY <1>2, <2>1, BehindEachOther
    <3>a. 1..Len(d) = 1..9 /\ Len(d) + Len(t) = 10
      BY <1>2, <2>1
    <3>2. Len(s) = 10 /\ \A i \in 1..9 : s[i] = d[i]
      BY <3>1, <3>a
    <3>3. (d \o t)[9 + 1] = t[1]
      BY <1>2, <2>1, <3>1
    <3>4. QED
      BY <1>2, <3>2, <3>3, SMTT(30)
  <2>3. /\ s[1] = "INTERFACE" /\ s[2] = "OPEN" /\ s[3] = "TUNSETIFF" /\ s[4] = "SOCKET" /\ s[5] = "LINK"
        /\ s[6] = "BRIDGE_SOCKET" /\ s[7] = "ADDBR" /\ s[8] = "ADDIF_ETH" /\ s[9] = "BRIDGE_UP"
    <3> HIDE DEF s
    <3>a. (\A i \in 1..5 : e[i] = c[i]) /\ e[6] = "BRIDGE_SOCKET"
      BY <1>6 DEF e
    <3> HIDE DEF e
    <3>1. \A i \in 1..5 : i \in 1..6 /\ i \in 1..9
      OBVIOUS
    <3>2. \A i \in 1..5 : s[i] = c[i]
      BY <2>1, <2>2, <3>a, <3>1
    <3>3. /\ s[6] = e[6] /\ s[7] = d[7] /\ s[8] = d[8] /\ s[9] = d[9]
      BY <2>1, <2>2
    <3>4. QED
      BY <1>1, <2>1, <3>a, <3>2, <3>3
  <2>4. s = N!Steps(bridged)
    BY <1>4, <1>7 DEF d
  <2> HIDE DEF s
  <2>5. \A i \in 1..10 : /\ s[i] = "OPEN" <=> i = 2
                         /\ s[i] = "ADDBR" <=> i = 7
                         /\ s[i] = "BRIDGE_UP" <=> i = 9
    BY <2>2, <2>3
  <2>6. QED
    BY <1>7, <2>2, <2>4, <2>5
<1>8. CASE bridged /\ network.bridge # "NONE"
  <2>1. c \o b \o <<>> = c \o b
    BY <1>6, ConcatEmptySeq
  <2> DEFINE d == c \o b
             s == d \o t
  <2>2. /\ Len(s) = 7 /\ s[7] = "ADDIF_TAP" /\ \A i \in 1..6 : s[i] = d[i]
    <3> HIDE DEF d
    <3>a. d \in Seq(StepNames) /\ Len(d) = 6
      BY <1>6 DEF d
    <3>1. /\ d \o t \in Seq(StepNames) /\ Len(d \o t) = Len(d) + Len(t)
          /\ \A i \in 1..Len(d) : (d \o t)[i] = d[i]
          /\ \A i \in 1..Len(t) : (d \o t)[Len(d) + i] = t[i]
      BY <1>2, <3>a, BehindEachOther
    <3>2. QED
      BY <1>2, <3>a, <3>1, SMTT(30)
  <2> HIDE DEF d
  <2>3. /\ s[1] = "INTERFACE" /\ s[2] = "OPEN" /\ s[3] = "TUNSETIFF" /\ s[4] = "SOCKET" /\ s[5] = "LINK"
        /\ s[6] = "BRIDGE_SOCKET"
    BY <1>1, <1>6, <2>2 DEF d
  <2>4. s = N!Steps(bridged)
    BY <1>4, <1>8, <2>1 DEF d
  <2> HIDE DEF s
  <2>5. \A i \in 1..7 : (s[i] = "OPEN" <=> i = 2) /\ s[i] # "ADDBR" /\ s[i] # "BRIDGE_UP"
    BY <2>2, <2>3
  <2>6. QED
    BY <1>8, <2>2, <2>4, <2>5
<1>9. QED
  BY <1>5, <1>7, <1>8

\* A bridge is created only where there is none, and brought up and the interfaces added after that.
LEMMA StepsDone ==
  ASSUME NEW bridged \in BOOLEAN, NEW n \in 0..Len(N!Steps(bridged))
  PROVE  /\ Done(bridged, n, "ADDBR") => network.bridge = "NONE"
         /\ Done(bridged, n, "BRIDGE_UP") => Done(bridged, n, "ADDBR")
         /\ Done(bridged, n, "ADDBR") => Done(bridged, n, "OPEN")
<1>1. \A i \in 1..n : i \in 1..Len(N!Steps(bridged))
  BY StepsInOrder
<1>2. ASSUME Done(bridged, n, "ADDBR")
      PROVE  network.bridge = "NONE" /\ bridged /\ 7 <= n
  BY <1>1, <1>2, StepsInOrder DEF Done
<1>3. ASSUME Done(bridged, n, "BRIDGE_UP")
      PROVE  network.bridge = "NONE" /\ bridged /\ 9 <= n
  BY <1>1, <1>3, StepsInOrder DEF Done
<1>4. 2 <= n => Done(bridged, n, "OPEN")
  BY <1>1, StepsInOrder DEF Done
<1>5. ASSUME bridged, network.bridge = "NONE", 7 <= n
      PROVE  Done(bridged, n, "ADDBR")
  <2>a. Len(N!Steps(bridged)) = 10 /\ n \in 0..10
    BY <1>5, StepsInOrder
  <2>b. 7 \in 1..n
    <3>1. \A k \in 0..10 : 7 <= k => 7 \in 1..k
      OBVIOUS
    <3>2. QED
      BY <1>5, <2>a, <3>1
  <2>1. 7 \in 1..n /\ 7 \in 1..Len(N!Steps(bridged))
    BY <2>a, <2>b
  <2>2. N!Steps(bridged)[7] = "ADDBR"
    BY <1>5, <2>1, StepsInOrder
  <2>3. QED
    BY <2>1, <2>2 DEF Done
<1>6. QED
  BY <1>2, <1>3, <1>4, <1>5, StepsInOrder

\* Every step of the DaynaPort keeps the bridge.
LEMMA BridgeStep ==
  ASSUME BridgeKept, N!Next
  PROVE  BridgeKept'
<1>1. ASSUME NEW bridged \in BOOLEAN, NEW n \in 0..Len(N!Steps(bridged)), N!Setup(bridged, n),
             attached = "NEW", stops_on_error' = stops_on_error,
             attached' = IF n < Len(N!Steps(bridged)) /\ stops_on_error THEN "REFUSED" ELSE "ATTACHED"
      PROVE  BridgeKept'
  <2> DEFINE whole == n = Len(N!Steps(bridged))
             D_(step) == Done(bridged, n, step)
  <2>1. /\ tap_fd' = IF whole THEN "OPEN" ELSE IF D_("OPEN") THEN "STALE" ELSE "NONE"
        /\ bridge_created' = D_("BRIDGE_UP")
        /\ network' = [bridge |-> IF D_("ADDBR") THEN "CREATED" ELSE network.bridge,
                       members |-> network.members
                                     \cup (IF D_("ADDIF_ETH") THEN {"eth0"} ELSE {})
                                     \cup (IF D_("ADDIF_TAP") THEN {"piscsi0"} ELSE {}),
                       up |-> network.up \/ D_("BRIDGE_UP"),
                       link |-> whole, address |-> whole /\ ~bridged]
        /\ untidy' = (D_("ADDBR") /\ ~D_("BRIDGE_UP"))
        /\ found' = found
    BY <1>1 DEF N!Setup, Done
  <2>2. /\ D_("ADDBR") => network.bridge = "NONE"
        /\ D_("BRIDGE_UP") => D_("ADDBR")
        /\ D_("ADDBR") => D_("OPEN")
    BY StepsDone
  <2>3. Len(N!Steps(bridged)) \in Nat
    BY StepsInOrder
  <2>4. n < Len(N!Steps(bridged)) <=> ~whole
    BY <2>3
  <2>5. D_("OPEN") \in BOOLEAN /\ D_("ADDBR") \in BOOLEAN /\ D_("BRIDGE_UP") \in BOOLEAN
    BY DEF Done
  <2> HIDE DEF whole, D_
  <2>6. /\ network'.bridge = IF D_("ADDBR") THEN "CREATED" ELSE network.bridge
        /\ network'.members = network.members \cup (IF D_("ADDIF_ETH") THEN {"eth0"} ELSE {})
                                             \cup (IF D_("ADDIF_TAP") THEN {"piscsi0"} ELSE {})
        /\ network'.up <=> network.up \/ D_("BRIDGE_UP")
        /\ network'.link = whole /\ (network'.address <=> whole /\ ~bridged)
    BY <2>1
  <2>7. N!TapTypeOK'
    <3>1. /\ network.bridge \in N!Bridges /\ network.members \in SUBSET {"eth0", "piscsi0"}
          /\ network.up \in BOOLEAN /\ found \in N!Bridges /\ whole \in BOOLEAN
      BY DEF BridgeKept, N!TapTypeOK, whole
    <3>2. tap_fd' \in {"NONE", "OPEN", "STALE"} /\ bridge_created' \in BOOLEAN /\ untidy' \in BOOLEAN
      BY <2>1, <2>5
    <3>3. (IF D_("ADDBR") THEN "CREATED" ELSE network.bridge) \in N!Bridges
      BY <3>1 DEF N!Bridges
    <3>4. network.members \cup (IF D_("ADDIF_ETH") THEN {"eth0"} ELSE {})
            \cup (IF D_("ADDIF_TAP") THEN {"piscsi0"} ELSE {}) \in SUBSET {"eth0", "piscsi0"}
      BY <3>1
    <3>5. (network.up \/ D_("BRIDGE_UP")) \in BOOLEAN /\ (whole /\ ~bridged) \in BOOLEAN
      BY <2>5, <3>1
    <3>6. QED
      BY <2>1, <3>1, <3>2, <3>3, <3>4, <3>5 DEF N!TapTypeOK
  <2>8. QED
    BY <1>1, <2>1, <2>2, <2>4, <2>6, <2>7 DEF BridgeKept
<1>2. CASE N!SetUp
  BY <1>1, <1>2 DEF N!SetUp, N!counts
<1>3. ASSUME NEW failed_ \in SUBSET {"SOCKET", "BRIDGE_DOWN", "DELBR"}, N!Teardown(failed_),
             attached = "ATTACHED", attached' = "DETACHED"
      PROVE  BridgeKept'
  <2>1. CASE tap_fd = "NONE"
    BY <1>3, <2>1 DEF N!Teardown, N!tapVars, BridgeKept, N!TapTypeOK
  <2>2. CASE tap_fd # "NONE"
    <3> DEFINE down == bridge_created /\ failed_ \cap {"SOCKET", "BRIDGE_DOWN"} = {}
               delbr == down /\ "DELBR" \notin failed_
    <3>1. /\ tap_fd' = "STALE" /\ UNCHANGED <<bridge_created, found>>
          /\ network' = [bridge |-> IF delbr THEN "NONE" ELSE network.bridge,
                         members |-> IF delbr THEN {} ELSE network.members \ {"piscsi0"},
                         up |-> network.up /\ ~down, link |-> FALSE, address |-> FALSE]
          /\ untidy' = (untidy \/ (bridge_created /\ ~delbr))
      BY <1>3, <2>2 DEF N!Teardown
    <3>2. down \in BOOLEAN /\ delbr \in BOOLEAN /\ (delbr => down) /\ (down => bridge_created)
      BY DEF BridgeKept, N!TapTypeOK
    <3> HIDE DEF down, delbr
    <3>3. /\ network'.bridge = IF delbr THEN "NONE" ELSE network.bridge
          /\ network'.members = IF delbr THEN {} ELSE network.members \ {"piscsi0"}
          /\ network'.up <=> network.up /\ ~down
          /\ ~network'.link /\ ~network'.address
      BY <3>1
    <3>4. N!TapTypeOK'
      <4>1. /\ network.bridge \in N!Bridges /\ network.members \in SUBSET {"eth0", "piscsi0"}
            /\ network.up \in BOOLEAN /\ found \in N!Bridges
        BY DEF BridgeKept, N!TapTypeOK
      <4>2. bridge_created' \in BOOLEAN /\ untidy' \in BOOLEAN
        BY <3>1, <3>2 DEF BridgeKept, N!TapTypeOK
      <4>3. /\ (IF delbr THEN "NONE" ELSE network.bridge) \in N!Bridges
            /\ (IF delbr THEN {} ELSE network.members \ {"piscsi0"}) \in SUBSET {"eth0", "piscsi0"}
            /\ (network.up /\ ~down) \in BOOLEAN
        BY <3>2, <4>1 DEF N!Bridges
      <4>4. QED
        BY <3>1, <4>1, <4>2, <4>3 DEF N!TapTypeOK
    <3>5. QED
      BY <1>3, <3>1, <3>2, <3>3, <3>4 DEF BridgeKept
  <2>3. QED
    BY <2>1, <2>2
<1>4. CASE N!CleanUp
  BY <1>3, <1>4 DEF N!CleanUp
<1>5. ASSUME UNCHANGED <<attached, tap_fd, bridge_created, network, found, untidy>>
      PROVE  BridgeKept'
  BY <1>5 DEF BridgeKept, N!TapTypeOK
<1>6. ASSUME NEW up \in BOOLEAN, N!EnableInterface(up)
      PROVE  BridgeKept'
  <2>1. UNCHANGED <<attached, tap_fd, bridge_created, found, untidy>>
    BY <1>6 DEF N!EnableInterface, N!Begin, N!counts
  <2>2. UNCHANGED network \/ (tap_fd = "OPEN" /\ network' = [network EXCEPT !.link = up])
    BY <1>6 DEF N!EnableInterface
  <2>3. QED
    BY <1>5, <2>1, <2>2 DEF BridgeKept, N!TapTypeOK
<1>7. CASE \/ N!Arrive \/ N!Deliver \/ N!SetAddress \/ N!WriteData \/ N!BreakOff \/ N!NoEffect
           \/ \E r, v \in BOOLEAN : N!GetMessage(r, v)
           \/ \E f \in {"RAW", "SIZED", "OTHER"}, fits \in BOOLEAN : N!SendMessage(f, fits)
  BY <1>5, <1>7
     DEF N!Arrive, N!Deliver, N!SetAddress, N!WriteData, N!BreakOff, N!NoEffect, N!GetMessage,
     N!SendMessage, N!Begin, N!counts, N!tapVars
<1>8. QED
  BY <1>2, <1>4, <1>6, <1>7 DEF N!Next

\* A part that does not run keeps its variables.
LEMMA OtherThanNetwork ==
  ASSUME [Next]_vars
  PROVE  \/ part = "NETWORK" /\ part' = part /\ N!Next
         \/ part # "NETWORK" /\ part' = part
         \/ part' = part /\ UNCHANGED net_vars
BY DEF Next, vars, Transfer, Host, Spool, Net, Generic, Disk, TapeCopy, Simh, Exec, Mode, Config

\* The invariant of the DaynaPort: it holds at the start, and every step keeps it.
LEMMA NetworkInitially == Init => NetworkInv
<1>1. ASSUME N!Init
      PROVE  PacketTypes /\ PacketOrder /\ MorePackets /\ FrameOrder /\ BridgeKept
  <2>1. \A A : <<>> \in Seq(A) /\ Len(<<>>) = 0
    OBVIOUS
  <2>2. PacketTypes /\ PacketOrder /\ MorePackets /\ FrameOrder
    BY <1>1, <2>1
       DEF N!Init, PacketTypes, PacketOrder, MorePackets, FrameOrder, Ascending, AllBelow
  <2>3. PICK b \in {"NONE", "MANUAL"} :
           network = [bridge |-> b, members |-> IF b = "MANUAL" THEN {"eth0"} ELSE {},
                      up |-> b = "MANUAL", link |-> FALSE, address |-> FALSE]
    BY <1>1 DEF N!Init, N!TapInit
  <2>4. BridgeKept
    BY <1>1, <2>3 DEF N!Init, N!TapInit, BridgeKept, N!TapTypeOK, N!Bridges
  <2>5. QED
    BY <2>2, <2>4
<1>2. QED
  BY <1>1 DEF Init, NetworkInv

LEMMA NetworkInvKept == NetworkInv /\ [Next]_vars => NetworkInv'
<1>1. ASSUME NetworkInv, part = "NETWORK", part' = part, UNCHANGED net_vars
      PROVE  NetworkInv'
  BY <1>1 DEF NetworkInv, net_vars, PacketTypes, PacketOrder, MorePackets, FrameOrder, BridgeKept,
     N!TapTypeOK
<1>2. QED
  BY <1>1, OtherThanNetwork, PacketStep, FrameStep, BridgeStep DEF NetworkInv

\* Packets are fetched in the order in which they came and sent in that of their commands, and the
\* bridge of the host is left as it was found.
THEOREM NetworkIsExact == Spec => []NetworkExact
<1>1. Init => NetworkInv
  BY NetworkInitially
<1>2. NetworkInv /\ [Next]_vars => NetworkInv'
  BY NetworkInvKept
<1>3. NetworkInv => NetworkExact
  <2>1. ASSUME PacketTypes, PacketOrder, MorePackets, FrameOrder
        PROVE  N!PacketsInOrder
    BY <2>1 DEF PacketOrder, MorePackets, FrameOrder, N!PacketsInOrder, Ascending, AllBelow
  <2>2. ASSUME BridgeKept
        PROVE  N!NetworkRestored
    BY <2>2 DEF BridgeKept, N!NetworkRestored
  <2>3. QED
    BY <2>1, <2>2 DEF NetworkInv, NetworkExact
<1>4. QED
  BY <1>1, <1>2, <1>3, PTL DEF Spec

\* b blocks of d bytes each.
Bytes(d, b) == b * d

(* The disk drive. *)

IsRow(f) == f = [u \in T!Unit |-> f[u]]

TransferTypes ==
  /\ blocks = T!BlocksOf(DefaultSize) /\ sectors = blocks
  /\ cdb.start \in Nat /\ cdb.count \in Nat
  /\ cdb.op \in T!Longs => cdb.count \in {0, 1}
  /\ IsRow(content) /\ IsRow(stable)
  /\ phase \in {"FREE", "DATA_IN", "DATA_OUT"}
  /\ phase = "DATA_IN" => cdb.op \in T!Reads \cup {"READ_LONG", "READ_CAPACITY"}
  /\ phase = "DATA_OUT" => cdb.op \in T!Writes \cup {"WRITE_LONG"}
  /\ phase # "FREE" => status = "GOOD"

\* The premise of TransferExact.
Sized == block_size = DefaultSize /\ sector_size = DefaultSize /\ ~faulty /\ T!Fits(cdb)

\* The blocks in a chunk, and the unit a block begins with.
ChunkCount == T!TransferCount(cdb.count)
UnitOf(b) == b * DefaultSize

\* k blocks of the command have been moved, and the next chunk is on its way.
ChunkAt(k) ==
  /\ cdb.count # 0 /\ k + ChunkCount <= cdb.count /\ cdb.start + cdb.count <= blocks
  /\ remaining_length = UnitOf(cdb.count - k) /\ chunk_size = UnitOf(ChunkCount)

\* n units of the medium as they were at the beginning of the command, from a block on.
UnitsBefore(b, n) == [i \in 1..n |-> before[UnitOf(b) + i - 1]]

ReadAt(k) ==
  /\ ChunkAt(k) /\ content = before
  /\ received = UnitsBefore(cdb.start, UnitOf(k))
  /\ buffer = UnitsBefore(cdb.start + k, UnitOf(ChunkCount))
  /\ cdb.op \in T!Reads => next_sector = cdb.start + k + ChunkCount

\* The medium with the first n units of the host's data.
UnitsSent(n) ==
  [u \in T!Unit |-> IF UnitOf(cdb.start) <= u /\ u < UnitOf(cdb.start) + n
                    THEN T!Sent(u - UnitOf(cdb.start) + 1) ELSE before[u]]

WriteAt(k) ==
  /\ ChunkAt(k) /\ content = UnitsSent(UnitOf(k))
  /\ received = <<>> /\ sent = UnitOf(k)
  /\ k > 0 /\ caching_mode = "WRITE_THROUGH" => stable = content
  /\ current_length = UnitOf(ChunkCount) /\ next_sector = cdb.start + k

Moving ==
  /\ T!TransferExact
  /\ phase = "DATA_IN" /\ cdb.op # "READ_CAPACITY" => \E k \in 0..cdb.count : ReadAt(k)
  /\ phase = "DATA_IN" /\ cdb.op = "READ_CAPACITY" =>
       content = before /\ remaining_length = 2 /\ chunk_size = 2
  /\ phase = "DATA_OUT" => \E k \in 0..cdb.count : WriteAt(k)

TransferInv == part = "TRANSFER" => TransferTypes /\ (Sized => Moving)

\* Products with the size of a block.
LEMMA BytesOfBlocks ==
  ASSUME NEW d \in Nat \ {0}, NEW a \in Nat, NEW b \in Nat
  PROVE  /\ Bytes(d, a) \in Nat /\ Bytes(d, 0) = 0 /\ Bytes(d, 1) = d
         /\ Bytes(d, a + b) = Bytes(d, a) + Bytes(d, b)
         /\ a <= b => Bytes(d, a) <= Bytes(d, b) /\ Bytes(d, b - a) = Bytes(d, b) - Bytes(d, a)
         /\ a < b => Bytes(d, a) + d <= Bytes(d, b)
<1>1. \A x, y \in Nat : x * y \in Nat
  OBVIOUS
<1>2. /\ a * d \in Nat /\ 0 * d = 0 /\ 1 * d = d /\ (a + b) * d = a * d + b * d
  OBVIOUS
<1>3. ASSUME a <= b
      PROVE  a * d <= b * d /\ (b - a) * d = b * d - a * d
  <2>1. (b - a) * d = b * d - a * d /\ b - a \in Nat
    BY <1>3
  <2>2. (b - a) * d \in Nat
    BY <1>1, <2>1
  <2>3. QED
    BY <2>1, <2>2
<1>4. ASSUME a < b
      PROVE  a * d + d <= b * d
  <2>1. (b - a - 1) * d = b * d - a * d - d /\ b - a - 1 \in Nat
    BY <1>4
  <2>2. (b - a - 1) * d \in Nat
    BY <1>1, <2>1
  <2>3. QED
    BY <2>1, <2>2
<1>5. QED
  BY <1>2, <1>3, <1>4 DEF Bytes

\* The block that a byte is in, and where in it.
LEMMA BlockOfByte ==
  ASSUME NEW d \in Nat \ {0}, NEW b \in Nat, NEW j \in Nat
  PROVE  /\ j \div d \in Nat /\ j % d \in 0..d - 1 /\ j = Bytes(d, j \div d) + (j % d)
         /\ (Bytes(d, b) + j) \div d = b + (j \div d) /\ (Bytes(d, b) + j) % d = j % d
         /\ Bytes(d, b) \div d = b
         /\ j < Bytes(d, b) <=> j \div d < b
<1>1. ASSUME NEW x \in Nat
      PROVE  /\ x \div d \in Int /\ x % d \in 0..d - 1 /\ x = (x \div d) * d + (x % d)
  OBVIOUS
<1>2. ASSUME NEW x \in Nat
      PROVE  x \div d \in Nat
  <2> DEFINE q == x \div d
  <2>1. q \in Int /\ q * d + d > x
    BY <1>1
  <2> HIDE DEF q
  <2>2. ASSUME q < 0
        PROVE  FALSE
    <3>1. -q - 1 \in Nat
      BY <2>1, <2>2
    <3>2. (-q - 1) * d \in Nat /\ (-q - 1) * d = -(q * d) - d
      BY <2>1, <3>1
    <3>3. QED
      BY <2>1, <3>2
  <2>3. QED
    BY <2>1, <2>2 DEF q
<1>3. ASSUME NEW x \in Nat, NEW q \in Nat, NEW r \in 0..d - 1, x = Bytes(d, q) + r
      PROVE  x \div d = q /\ x % d = r
  <2> DEFINE w == x \div d
             z == x % d
  <2>1. w \in Nat /\ z \in 0..d - 1 /\ x = Bytes(d, w) + z
    BY <1>1, <1>2 DEF Bytes
  <2> HIDE DEF w, z
  <2>2. Bytes(d, w) \in Nat /\ Bytes(d, q) \in Nat
        /\ (w < q => Bytes(d, w) + d <= Bytes(d, q)) /\ (q < w => Bytes(d, q) + d <= Bytes(d, w))
    BY <2>1, BytesOfBlocks
  <2>3. w = q
    BY <1>3, <2>1, <2>2
  <2>4. QED
    BY <1>3, <2>1, <2>2, <2>3 DEF w, z
<1> DEFINE q == j \div d
           r == j % d
<1>4. q \in Nat /\ r \in 0..d - 1 /\ j = Bytes(d, q) + r
  BY <1>1, <1>2 DEF Bytes
<1> HIDE DEF q, r
<1>5. /\ Bytes(d, b) \in Nat /\ Bytes(d, q) \in Nat /\ Bytes(d, b + q) = Bytes(d, b) + Bytes(d, q)
      /\ (q < b => Bytes(d, q) + d <= Bytes(d, b)) /\ (b <= q => Bytes(d, b) <= Bytes(d, q))
  <2>1. Bytes(d, b) \in Nat /\ Bytes(d, q) \in Nat
    BY <1>4, BytesOfBlocks
  <2>2. Bytes(d, b + q) = Bytes(d, b) + Bytes(d, q)
    BY <1>4, BytesOfBlocks
  <2>3. q < b => Bytes(d, q) + d <= Bytes(d, b)
    BY <1>4, BytesOfBlocks
  <2>4. b <= q => Bytes(d, b) <= Bytes(d, q)
    BY <1>4, BytesOfBlocks
  <2>5. QED
    BY <2>1, <2>2, <2>3, <2>4
<1>6. (Bytes(d, b) + j) \div d = b + q /\ (Bytes(d, b) + j) % d = r
  <2> DEFINE x == Bytes(d, b) + j
             y == b + q
  <2>1. x \in Nat /\ y \in Nat /\ x = Bytes(d, y) + r
    BY <1>4, <1>5
  <2> HIDE DEF x, y
  <2>2. x \div d = y /\ x % d = r
    BY <1>3, <1>4, <2>1
  <2>3. QED
    BY <2>2 DEF x, y
<1>7. Bytes(d, b) \div d = b
  <2>1. Bytes(d, b) = Bytes(d, b) + 0 /\ 0 \in 0..d - 1
    BY <1>5
  <2>2. QED
    BY <1>3, <1>5, <2>1
<1>8. j < Bytes(d, b) <=> q < b
  BY <1>4, <1>5
<1>9. QED
  BY <1>4, <1>6, <1>7, <1>8 DEF q, r

\* The units of the disk drive's blocks.
LEMMA UnitsOfBlocks ==
  ASSUME NEW a \in Nat, NEW b \in Nat
  PROVE  /\ UnitOf(a) \in Nat /\ UnitOf(0) = 0 /\ UnitOf(1) = DefaultSize
         /\ UnitOf(a + b) = UnitOf(a) + UnitOf(b)
         /\ a <= b => UnitOf(a) <= UnitOf(b) /\ UnitOf(b - a) = UnitOf(b) - UnitOf(a)
         /\ a < b => UnitOf(a) + DefaultSize <= UnitOf(b)
<1>1. \A x : UnitOf(x) = Bytes(DefaultSize, x)
  BY DEF UnitOf, Bytes
<1>2. DefaultSize \in Nat \ {0}
  BY DevicesAssumption
<1>3. QED
  BY <1>1, <1>2, BytesOfBlocks

\* The blocks of the image are those that are whole in it.
LEMMA WholeBlocks ==
  /\ T!BlocksOf(DefaultSize) \in 1..W32
  /\ \A n \in Nat : n <= T!BlocksOf(DefaultSize) <=> UnitOf(n) <= MediumSize
<1> DEFINE d == DefaultSize
           q == MediumSize \div d
<1>1. d \in Nat \ {0} /\ MediumSize \in Nat /\ d <= MediumSize /\ W32 \in Nat
  BY DevicesAssumption
<1>2. q <= W32
  BY DevicesAssumption
<1>3. q \in Int /\ q * d <= MediumSize /\ MediumSize < q * d + d
  <2> HIDE DEF d
  <2>1. QED
    BY <1>1
<1> HIDE DEF q
<1>4. q \in Nat /\ q # 0
  <2>1. ASSUME q <= 0
        PROVE  FALSE
    <3>1. -q \in Nat
      BY <1>3, <2>1
    <3>2. (-q) * d \in Nat /\ (-q) * d = -(q * d)
      BY <1>1, <1>3, <3>1
    <3>3. QED
      BY <1>1, <1>3, <3>2
  <2>2. QED
    BY <1>3, <2>1
<1>5. ASSUME NEW n \in Nat
      PROVE  n <= q <=> UnitOf(n) <= MediumSize
  <2>1. n <= q => UnitOf(n) <= UnitOf(q)
    BY <1>4, UnitsOfBlocks
  <2>2. q < n => UnitOf(q) + d <= UnitOf(n)
    BY <1>4, UnitsOfBlocks
  <2>3. UnitOf(n) \in Nat /\ UnitOf(q) \in Nat /\ UnitOf(q) = q * d
    BY <1>4, UnitsOfBlocks DEF UnitOf
  <2>4. QED
    BY <1>1, <1>3, <1>4, <2>1, <2>2, <2>3
<1>6. QED
  BY <1>2, <1>4, <1>5, <1>1 DEF q, T!BlocksOf

\* A number that fits its type is not changed by a conversion.
LEMMA FitsItsType ==
  ASSUME NEW n \in Nat
  PROVE  /\ n < W64 => n % W64 = n
         /\ n < W32 => T!ToUint(n) = n
         /\ n < W32 \div 2 => T!ToInt(n) = n
<1>1. W32 \in Nat \ {0} /\ W64 \in Nat \ {0}
  BY DevicesAssumption
<1>2. \A w \in Nat \ {0} : n < w => n % w = n
  OBVIOUS
<1>3. W32 \div 2 <= W32
  BY <1>1
<1>4. QED
  BY <1>1, <1>2, <1>3 DEF T!ToUint, T!ToInt

\* Two rows of values of a function that follow each other are one.
LEMMA RowsJoin ==
  ASSUME NEW f, NEW a \in Int, NEW k \in Nat, NEW l \in Nat
  PROVE  [i \in 1..k |-> f[a + i - 1]] \o [i \in 1..l |-> f[a + k + i - 1]]
           = [i \in 1..k + l |-> f[a + i - 1]]
<1> DEFINE V == {f[x] : x \in Int}
           r == [i \in 1..k |-> f[a + i - 1]]
           s == [i \in 1..l |-> f[a + k + i - 1]]
           w == [i \in 1..k + l |-> f[a + i - 1]]
<1>1. r \in Seq(V) /\ Len(r) = k /\ s \in Seq(V) /\ Len(s) = l /\ w \in Seq(V) /\ Len(w) = k + l
  OBVIOUS
<1>2. /\ r \o s \in Seq(V) /\ Len(r \o s) = Len(r) + Len(s)
      /\ \A i \in 1..Len(r) + Len(s) : (r \o s)[i] = IF i <= Len(r) THEN r[i] ELSE s[i - Len(r)]
  <2> HIDE DEF r, s, V
  <2>1. QED
    BY <1>1, ConcatProperties
<1>3. ASSUME NEW i \in 1..k + l
      PROVE  (r \o s)[i] = w[i]
  <2>1. CASE i <= k
    BY <1>1, <1>2, <2>1
  <2>2. CASE i > k
    <3>1. i - k \in 1..l /\ a + k + (i - k) - 1 = a + i - 1
      BY <2>2
    <3>2. s[i - k] = f[a + i - 1]
      BY <3>1
    <3>3. (r \o s)[i] = s[i - k]
      <4> HIDE DEF r, s
      <4>1. QED
        BY <1>1, <1>2, <2>2
    <3>4. QED
      BY <3>2, <3>3
  <2>3. QED
    BY <2>1, <2>2
<1>4. QED
  <2> HIDE DEF r, s, w, V
  <2>1. QED
    BY <1>1, <1>2, <1>3, SeqEqual

\* A chunk is a block or the whole transfer.
LEMMA ChunkIsPart ==
  ASSUME NEW n \in Nat \ {0}
  PROVE  T!TransferCount(n) \in 1..n /\ T!TransferCount(n) \in {1, n} /\ T!TransferCount(1) = 1
BY DEF T!TransferCount

\* The units of a command, in order.
LEMMA RowOfCommand ==
  ASSUME NEW c, c.count \in Nat, c.start \in Nat
  PROVE  /\ T!Row(c) \in Seq(Int) /\ Len(T!Row(c)) = UnitOf(c.count)
         /\ \A i \in 1..UnitOf(c.count) : T!Row(c)[i] = UnitOf(c.start) + i - 1
<1>1. UnitOf(c.count) \in Nat /\ UnitOf(c.start) \in Nat
  BY UnitsOfBlocks
<1>2. T!Row(c) = [i \in 1..UnitOf(c.count) |-> UnitOf(c.start) + i - 1]
  BY DEF T!Row, UnitOf
<1> HIDE DEF T!Row
<1>3. QED
  BY <1>1, <1>2

\* A command that moves nothing is exact unless it ends with GOOD although it should have.
LEMMA NothingMoved ==
  ASSUME cdb'.count \in Nat, cdb'.start \in Nat, content' = before', IsRow(content'),
         received' = <<>>, sent' = 0,
         status' = "GOOD" /\ phase' = "FREE" =>
           cdb'.count = 0 \/ cdb'.op \notin T!Reads \cup T!Writes \cup {"WRITE_LONG"},
         Sized' /\ status' = "LBA_OUT_OF_RANGE" =>
           (cdb'.start + (IF cdb'.op \in T!Longs THEN 1 ELSE cdb'.count)) * DefaultSize > MediumSize,
         Sized' /\ cdb'.op = "SYNCHRONIZE_CACHE" /\ drive'.ready => stable' = content'
  PROVE  T!TransferExact'
<1> DEFINE row == T!Row(cdb')
<1>1. /\ UnitOf(cdb'.count) \in Nat /\ Len(row) = UnitOf(cdb'.count)
      /\ cdb'.count = 0 => Len(row) = 0
  BY RowOfCommand, UnitsOfBlocks
<1>2. cdb'.op \in T!Reads \cup {"READ_LONG"} => T!ReadExact'
  <2>1. Len(<<>>) = 0 /\ 0 <= Len(row)
    BY <1>1
  <2> HIDE DEF row
  <2>2. SUFFICES ASSUME cdb'.op \in T!Reads \cup {"READ_LONG"}
                 PROVE  /\ Len(received') <= Len(row)
                        /\ \A i \in 1..Len(received') : received'[i] = before'[row[i]]
                        /\ phase' = "FREE" /\ status' = "GOOD" =>
                             Len(received') = Len(row) \/ (cdb'.op = "READ_LONG" /\ received' = <<>>)
    BY DEF T!ReadExact, row
  <2>3. QED
    BY <1>1, <2>1, <2>2
<1>3. cdb'.op \in T!Writes \cup {"WRITE_LONG"} => T!WriteExact'
  <2>1. SUFFICES ASSUME cdb'.op \in T!Writes \cup {"WRITE_LONG"}
                 PROVE  T!WriteExact'
    OBVIOUS
  <2>2. content' = [u \in T!Unit |-> IF \E i \in 1..0 : row[i] = u
                                     THEN T!Sent(u - row[1] + 1) ELSE before'[u]]
    BY DEF IsRow
  <2>3. 0 \in 0..Len(row) /\ 0 <= sent' /\ (phase' = "FREE" /\ status' = "GOOD" => 0 = Len(row))
    BY <1>1, <2>1
  <2> HIDE DEF row
  <2>4. \E n \in 0..Len(row) :
          /\ n <= sent' /\ (phase' = "FREE" /\ status' = "GOOD" => n = Len(row))
          /\ content' = [u \in T!Unit |-> IF \E i \in 1..n : row[i] = u
                                         THEN T!Sent(u - row[1] + 1) ELSE before'[u]]
          /\ caching_mode' = "WRITE_THROUGH" /\ status' = "GOOD" =>
               \A i \in 1..n : stable'[row[i]] = content'[row[i]]
    BY <2>2, <2>3
  <2>5. QED
    BY <2>4 DEF T!WriteExact, row
<1>4. QED
  BY <1>2, <1>3 DEF T!TransferExact, Sized

\* The next chunk that is read has the units of its blocks, or reading it fails.
LEMMA ReadsChunk ==
  ASSUME TransferTypes, block_size = DefaultSize, sector_size = DefaultSize,
         NEW b \in Nat, NEW n \in Nat \ {0}, b + n <= blocks, b + n < W64, T!ReadData(b, n)
  PROVE  \/ /\ phase' = "DATA_IN" /\ status' = "GOOD" /\ next_sector' = b + n
            /\ buffer' = [i \in 1..UnitOf(n) |-> content[UnitOf(b) + i - 1]]
         \/ /\ phase' = "FREE" /\ status' = "READ_ERROR" /\ UNCHANGED <<buffer, next_sector>>
<1>1. blocks \in Nat /\ blocks <= W32 /\ W32 \in Nat
  BY WholeBlocks, DevicesAssumption DEF TransferTypes
<1>2. T!ToUint(b) = b /\ ~(b > blocks - 1)
  BY <1>1, FitsItsType
<1>3. (b + n) % W64 = b + n
  BY FitsItsType
<1>4. DefaultSize * n = UnitOf(n) /\ DefaultSize * b = UnitOf(b)
  BY DevicesAssumption DEF UnitOf
<1>5. T!Read(b, n, DefaultSize * n) = [i \in 1..UnitOf(n) |-> content[UnitOf(b) + i - 1]]
  BY <1>4 DEF T!Read
<1>6. QED
  BY <1>2, <1>3, <1>5 DEF T!ReadData

\* The command that a step begins.
LEMMA BeginsTransfer ==
  ASSUME NEW op, NEW start_, NEW count, T!Begin(op, start_, count)
  PROVE  /\ phase = "FREE" /\ received' = <<>> /\ sent' = 0 /\ before' = content
         /\ cdb'.op = op /\ cdb'.start = start_ /\ cdb'.count = count
BY DEF T!Begin

\* READ, WRITE and VERIFY: they are rejected, have nothing to do, or begin with the first chunk.
LEMMA AccessStep ==
  ASSUME TransferTypes, NEW op \in T!Reads \cup T!Writes \cup T!Verifies,
         NEW start_ \in Nat, NEW count \in Nat, T!Access(op, start_, count)
  PROVE  TransferTypes' /\ (Sized' => Moving')
<1> DEFINE s == T!Checked(op, start_, count)
<1>1. /\ phase = "FREE" /\ received' = <<>> /\ sent' = 0 /\ before' = content
      /\ cdb'.op = op /\ cdb'.start = start_ /\ cdb'.count = count
  BY BeginsTransfer DEF T!Access
<1>2. UNCHANGED <<drive, caching_mode, block_size, blocks, sector_size, sectors, content>>
  BY DEF T!Access
<1>3. op \notin T!Longs /\ op \notin {"WRITE_LONG", "READ_LONG", "READ_CAPACITY", "SYNCHRONIZE_CACHE"}
      /\ (op \in T!Verifies => op \notin T!Reads \cup T!Writes) /\ (op \in T!Writes => op \notin T!Reads)
  BY DEF T!Reads, T!Writes, T!Verifies, T!Longs
<1>4. CASE s # "GOOD" \/ count = 0 \/ op \in T!Verifies
  <2>1. /\ phase' = "FREE" /\ status' = s
        /\ T!FlushCache \/ UNCHANGED <<stable, faulty>>
    BY <1>4 DEF T!Access, T!Ends
  <2>2. IsRow(stable')
    BY <2>1 DEF T!FlushCache, TransferTypes
  <2>3. TransferTypes'
    BY <1>1, <1>2, <1>3, <2>1, <2>2 DEF TransferTypes
  <2>4. ASSUME Sized', s = "LBA_OUT_OF_RANGE"
        PROVE  (start_ + count) * DefaultSize > MediumSize
    <3>1. blocks = T!BlocksOf(DefaultSize) /\ blocks # 0 /\ blocks \in Nat
      BY WholeBlocks DEF TransferTypes
    <3>2. ~((start_ + count) % W64 <= blocks)
      BY <2>4, <3>1 DEF T!Checked, T!InCapacity
    <3>3. start_ + count < W64
      BY <1>1, <2>4 DEF Sized, T!Fits
    <3>4. (start_ + count) % W64 = start_ + count
      BY <3>3, FitsItsType
    <3>5. ~(UnitOf(start_ + count) <= MediumSize) /\ UnitOf(start_ + count) \in Nat
      BY <3>1, <3>2, <3>4, WholeBlocks, UnitsOfBlocks
    <3>6. QED
      BY <3>5, DevicesAssumption DEF UnitOf
  <2>5. T!TransferExact'
    BY <1>1, <1>2, <1>3, <1>4, <2>1, <2>4, NothingMoved DEF TransferTypes
  <2>6. QED
    BY <2>1, <2>3, <2>5 DEF Moving
<1>5. CASE s = "GOOD" /\ count # 0 /\ op \notin T!Verifies
  <2> DEFINE n == T!TransferCount(count)
  <2>1. /\ T!SetTransferSize(count) /\ current_length' = block_size * n
        /\ IF op \in T!Reads THEN T!ReadData(start_, n)
           ELSE phase' = "DATA_OUT" /\ status' = "GOOD" /\ next_sector' = start_
        /\ UNCHANGED <<stable, faulty>>
    BY <1>5 DEF T!Access
  <2>2. n \in 1..count /\ ChunkCount' = n
    BY <1>1, <1>2, <1>5, ChunkIsPart DEF ChunkCount, T!TransferCount
  <2>3. phase' \in {"FREE", "DATA_IN", "DATA_OUT"} /\ (phase' = "DATA_IN" => op \in T!Reads)
        /\ (phase' = "DATA_OUT" => op \in T!Writes) /\ (phase' # "FREE" => status' = "GOOD")
    BY <1>5, <2>1 DEF T!ReadData
  <2>4. TransferTypes'
    BY <1>1, <1>2, <1>3, <2>1, <2>3 DEF TransferTypes
  <2>5. ASSUME Sized'
        PROVE  Moving'
    <3>1. /\ block_size = DefaultSize /\ sector_size = DefaultSize
          /\ start_ + count < W64 /\ UnitOf(count) < W32 \div 2
      BY <1>1, <1>2, <2>5 DEF Sized, T!Fits, UnitOf
    <3>2. start_ + count <= blocks
      <4>1. (start_ + count) % W64 <= blocks
        BY <1>5 DEF T!Checked, T!InCapacity
      <4>2. QED
        BY <3>1, <4>1, FitsItsType
    <3>3. /\ UnitOf(count) \in Nat /\ UnitOf(n) \in Nat /\ UnitOf(n) <= UnitOf(count)
          /\ UnitOf(count - 0) = UnitOf(count) /\ UnitOf(0) = 0
      BY <2>2, UnitsOfBlocks
    <3>4. T!ToInt(UnitOf(count)) = UnitOf(count) /\ T!ToInt(UnitOf(n)) = UnitOf(n)
      <4>1. W32 \div 2 \in Int
        BY DevicesAssumption
      <4>2. UnitOf(n) < W32 \div 2
        BY <3>1, <3>3, <4>1
      <4>3. QED
        BY <3>1, <3>3, <4>2, FitsItsType
    <3>5. count * block_size = UnitOf(count) /\ n * block_size = UnitOf(n) /\ block_size * n = UnitOf(n)
      BY <2>2, <3>1, DevicesAssumption DEF UnitOf
    <3>6. remaining_length' = UnitOf(count) /\ chunk_size' = UnitOf(n) /\ current_length' = UnitOf(n)
      BY <2>1, <3>3, <3>4, <3>5 DEF T!SetTransferSize, T!Least
    <3>7. ChunkAt(0)'
      BY <1>1, <1>2, <1>5, <2>2, <3>2, <3>3, <3>6 DEF ChunkAt
    <3>8. CASE op \in T!Reads
      <4>1. start_ + n <= blocks /\ start_ + n < W64
        BY <2>2, <3>1, <3>2, WholeBlocks, DevicesAssumption DEF TransferTypes
      <4>2. \/ /\ phase' = "DATA_IN" /\ status' = "GOOD" /\ next_sector' = start_ + n
               /\ buffer' = [i \in 1..UnitOf(n) |-> content[UnitOf(start_) + i - 1]]
            \/ phase' = "FREE" /\ status' = "READ_ERROR"
        BY <2>1, <2>2, <3>1, <3>8, <4>1, ReadsChunk
      <4>3. CASE phase' = "DATA_IN" /\ status' = "GOOD" /\ next_sector' = start_ + n
                 /\ buffer' = [i \in 1..UnitOf(n) |-> content[UnitOf(start_) + i - 1]]
        <5>1. received' = UnitsBefore(cdb.start, UnitOf(0))'
          BY <1>1, <3>3 DEF UnitsBefore
        <5>2. buffer' = UnitsBefore(cdb.start + 0, UnitOf(ChunkCount))'
          BY <1>1, <2>2, <4>3 DEF UnitsBefore
        <5>3. next_sector' = cdb'.start + 0 + ChunkCount'
          BY <1>1, <2>2, <4>3
        <5>4. ReadAt(0)'
          BY <1>1, <1>2, <3>7, <5>1, <5>2, <5>3 DEF ReadAt
        <5>5. 0 \in 0..cdb'.count
          BY <1>1
        <5>6. T!TransferExact'
          BY <1>1, <1>2, <1>3, <2>4, <4>3, NothingMoved DEF TransferTypes
        <5>7. QED
          BY <1>1, <1>3, <4>3, <5>4, <5>5, <5>6 DEF Moving
      <4>4. CASE phase' = "FREE" /\ status' = "READ_ERROR"
        <5>1. T!TransferExact'
          BY <1>1, <1>2, <1>3, <2>4, <4>4, NothingMoved DEF TransferTypes
        <5>2. QED
          BY <4>4, <5>1 DEF Moving
      <4>5. QED
        BY <4>2, <4>3, <4>4
    <3>9. CASE op \notin T!Reads
      <4>1. phase' = "DATA_OUT" /\ status' = "GOOD" /\ next_sector' = start_
        BY <2>1, <3>9
      <4>2. content' = UnitsSent(UnitOf(0))'
        <5>1. UnitOf(start_) \in Nat /\ UnitOf(0) = 0
          BY UnitsOfBlocks
        <5>2. \A u \in T!Unit : ~(UnitOf(start_) <= u /\ u < UnitOf(start_) + 0)
          BY <5>1 DEF T!Unit
        <5>3. UnitsSent(UnitOf(0))' = [u \in T!Unit |-> before'[u]]
          BY <1>1, <5>1, <5>2 DEF UnitsSent
        <5>4. QED
          BY <1>1, <1>2, <5>3 DEF IsRow, TransferTypes
      <4>3. WriteAt(0)'
        BY <1>1, <2>2, <3>3, <3>6, <3>7, <4>1, <4>2 DEF WriteAt
      <4>4. 0 \in 0..cdb'.count
        BY <1>1
      <4>5. T!TransferExact'
        BY <1>1, <1>2, <1>3, <2>4, <4>1, NothingMoved DEF TransferTypes
      <4>6. QED
        BY <4>1, <4>3, <4>4, <4>5 DEF Moving
    <3>10. QED
      BY <3>8, <3>9
  <2>6. QED
    BY <2>4, <2>5
<1>6. QED
  BY <1>4, <1>5

\* READ LONG and WRITE LONG.
LEMMA LongStep ==
  ASSUME TransferTypes, NEW op \in T!Longs, NEW c, c.sector \in Nat, T!Long(op, c)
  PROVE  TransferTypes' /\ (Sized' => Moving')
<1> DEFINE s == T!LongChecked(op, c)
           count == IF c.length = 0 THEN 0 ELSE 1
<1>1. /\ phase = "FREE" /\ received' = <<>> /\ sent' = 0 /\ before' = content
      /\ cdb'.op = op /\ cdb'.start = c.sector /\ cdb'.count = count
  BY BeginsTransfer DEF T!Long
<1>2. UNCHANGED <<drive, block_size, blocks>> /\ op \in {"READ_LONG", "WRITE_LONG"}
      /\ op \notin T!Reads \cup T!Writes \cup {"READ_CAPACITY", "SYNCHRONIZE_CACHE"}
      /\ count \in {0, 1} /\ count \in Nat
  BY DEF T!Long, T!Longs, T!Reads, T!Writes
<1>3. CASE s # "TRANSFER"
  <2>1. /\ phase' = "FREE" /\ status' = s
        /\ UNCHANGED <<caching_mode, sector_size, sectors, content, stable, faulty>>
    BY <1>3 DEF T!Long, T!Ends
  <2>2. TransferTypes'
    BY <1>1, <1>2, <2>1 DEF TransferTypes
  <2>3. ASSUME s = "LBA_OUT_OF_RANGE"
        PROVE  (c.sector + 1) * DefaultSize > MediumSize
    <3>1. c.sector >= blocks /\ blocks = T!BlocksOf(DefaultSize) /\ blocks \in Nat
      BY <2>3, WholeBlocks DEF T!LongChecked, TransferTypes
    <3>2. c.sector + 1 \in Nat /\ ~(c.sector + 1 <= blocks)
      BY <3>1
    <3> DEFINE n == c.sector + 1
    <3> HIDE DEF n
    <3>4. n \in Nat /\ ~(n <= T!BlocksOf(DefaultSize))
      BY <3>1, <3>2 DEF n
    <3>5. ~(UnitOf(n) <= MediumSize) /\ UnitOf(n) \in Nat
      BY <3>4, WholeBlocks, UnitsOfBlocks
    <3>6. UnitOf(n) = n * DefaultSize
      BY DEF UnitOf
    <3>7. QED
      BY <3>5, <3>6, DevicesAssumption DEF n
  <2>4. s = "GOOD" => count = 0
    BY <1>3 DEF T!LongChecked
  <2>5. T!TransferExact'
    BY <1>1, <1>2, <2>1, <2>3, <2>4, NothingMoved DEF TransferTypes
  <2>6. QED
    BY <2>1, <2>2, <2>5 DEF Moving
<1>4. CASE s = "TRANSFER"
  <2>1. /\ T!SwitchToLinuxCache
        /\ remaining_length' = block_size /\ chunk_size' = block_size
        /\ IF op = "READ_LONG" THEN T!ReadLong(c.sector)
           ELSE /\ phase' = "DATA_OUT" /\ status' = "GOOD"
                /\ next_sector' = c.sector /\ current_length' = block_size
    BY <1>4 DEF T!Long
  <2>2. drive.ready /\ c.sector < blocks /\ count = 1 /\ blocks \in Nat
    BY <1>4, WholeBlocks DEF T!LongChecked, TransferTypes
  <2>3. /\ IsRow(content') /\ IsRow(stable') /\ sectors' = blocks
        /\ ~faulty' => content' = content
    BY <2>1, <2>2 DEF T!SwitchToLinuxCache, T!FlushCache, TransferTypes
  <2>4. phase' \in {"FREE", "DATA_IN", "DATA_OUT"} /\ status' = "GOOD"
        /\ (phase' = "DATA_IN" => op = "READ_LONG") /\ (phase' = "DATA_OUT" => op = "WRITE_LONG")
        /\ (phase' = "FREE" => op = "READ_LONG")
    BY <1>2, <2>1 DEF T!ReadLong
  <2>5. TransferTypes'
    BY <1>1, <1>2, <2>3, <2>4 DEF TransferTypes
  <2>6. ASSUME Sized'
        PROVE  Moving'
    <3>1. block_size = DefaultSize /\ sector_size' = DefaultSize /\ content' = content
      BY <1>2, <2>3, <2>6 DEF Sized
    <3>2. ChunkCount' = 1
      BY <1>1, <2>2 DEF ChunkCount, T!TransferCount
    <3>3. UnitOf(0) = 0 /\ UnitOf(1) = DefaultSize /\ UnitOf(1 - 0) = DefaultSize
          /\ UnitOf(c.sector) \in Nat /\ DefaultSize * c.sector = UnitOf(c.sector)
      BY UnitsOfBlocks, DevicesAssumption DEF UnitOf
    <3>4. ChunkAt(0)'
      BY <1>1, <1>2, <2>1, <2>2, <3>1, <3>2, <3>3 DEF ChunkAt
    <3>5. 0 \in 0..cdb'.count
      BY <1>1, <2>2
    <3>6. T!TransferExact'
      BY <1>1, <1>2, <2>3, <2>4, <3>1, NothingMoved
    <3>7. CASE phase' = "FREE"
      BY <3>7, <3>6 DEF Moving
    <3>8. CASE phase' = "DATA_IN"
      <4>1. buffer' = [i \in 1..DefaultSize |-> content[UnitOf(c.sector) + i - 1]]
        BY <2>1, <2>4, <3>1, <3>3, <3>8 DEF T!ReadLong
      <4>2. received' = UnitsBefore(cdb.start, UnitOf(0))'
        BY <1>1, <3>3 DEF UnitsBefore
      <4>3. buffer' = UnitsBefore(cdb.start + 0, UnitOf(ChunkCount))'
        BY <1>1, <3>2, <3>3, <4>1 DEF UnitsBefore
      <4>4. ReadAt(0)'
        BY <1>1, <1>2, <3>1, <3>4, <4>2, <4>3 DEF ReadAt
      <4>5. QED
        BY <1>1, <1>2, <3>5, <3>8, <3>6, <4>4 DEF Moving
    <3>9. CASE phase' = "DATA_OUT"
      <4>1. next_sector' = c.sector /\ current_length' = DefaultSize
        BY <2>1, <2>4, <3>1, <3>9
      <4>2. content' = UnitsSent(UnitOf(0))'
        <5>1. \A u \in T!Unit : ~(UnitOf(c.sector) <= u /\ u < UnitOf(c.sector) + 0)
          BY <3>3 DEF T!Unit
        <5>2. UnitsSent(UnitOf(0))' = [u \in T!Unit |-> before'[u]]
          BY <1>1, <3>3, <5>1 DEF UnitsSent
        <5>3. QED
          BY <1>1, <2>3, <3>1, <5>2 DEF IsRow
      <4>3. WriteAt(0)'
        BY <1>1, <3>2, <3>3, <3>4, <4>1, <4>2 DEF WriteAt
      <4>4. QED
        BY <3>5, <3>9, <3>6, <4>3 DEF Moving
    <3>10. QED
      BY <2>4, <3>7, <3>8, <3>9
  <2>7. QED
    BY <2>5, <2>6
<1>5. QED
  BY <1>3, <1>4

\* The commands that move no blocks.
LEMMA NoBlocksStep ==
  ASSUME TransferTypes,
         \/ T!SynchronizeCache
         \/ T!ReadCapacity
         \/ \E size \in Sizes, paged \in BOOLEAN : T!ModeSelect(size, paged)
  PROVE  TransferTypes' /\ (Sized' => Moving')
<1> DEFINE op == cdb'.op
<1>1. /\ phase = "FREE" /\ received' = <<>> /\ sent' = 0 /\ before' = content
      /\ cdb'.start = 0 /\ cdb'.count = 0
      /\ op = IF T!SynchronizeCache THEN "SYNCHRONIZE_CACHE"
              ELSE IF T!ReadCapacity THEN "READ_CAPACITY" ELSE "MODE_SELECT"
  BY BeginsTransfer DEF T!SynchronizeCache, T!ReadCapacity, T!ModeSelect
<1>2. /\ op \in {"SYNCHRONIZE_CACHE", "READ_CAPACITY", "MODE_SELECT"}
      /\ op \notin T!Longs \cup T!Reads \cup T!Writes
  BY <1>1 DEF T!Longs, T!Reads, T!Writes
<1>3. UNCHANGED <<drive, content, blocks, sectors>>
  BY DEF T!SynchronizeCache, T!ReadCapacity, T!ModeSelect, T!ChangeBlockSize, T!medium
<1>4. IsRow(stable') /\ (op = "SYNCHRONIZE_CACHE" /\ drive'.ready /\ ~faulty' => stable' = content')
  <2>1. CASE T!SynchronizeCache
    BY <1>3, <2>1 DEF T!SynchronizeCache, T!FlushCache, TransferTypes
  <2>2. CASE ~T!SynchronizeCache
    <3>1. UNCHANGED stable
      BY <2>2 DEF T!ReadCapacity, T!ModeSelect, T!ChangeBlockSize, T!medium
    <3>2. QED
      BY <1>1, <2>2, <3>1 DEF TransferTypes
  <2>3. QED
    BY <2>1, <2>2
<1>5. \/ phase' = "FREE" /\ status' \in {"GOOD", "INVALID_FIELD", "NOT_READY"}
      \/ /\ phase' = "DATA_IN" /\ status' = "GOOD" /\ op = "READ_CAPACITY"
         /\ remaining_length' = 2 /\ chunk_size' = 2
  <2>1. CASE T!SynchronizeCache
    BY <2>1 DEF T!SynchronizeCache, T!Ends
  <2>2. CASE ~T!SynchronizeCache /\ T!ReadCapacity
    BY <1>1, <2>2 DEF T!ReadCapacity, T!Ends
  <2>3. CASE \E size \in Sizes, paged \in BOOLEAN : T!ModeSelect(size, paged)
    BY <2>3 DEF T!ModeSelect, T!Ends
  <2>4. QED
    BY <2>1, <2>2, <2>3
<1>6. TransferTypes'
  BY <1>1, <1>2, <1>3, <1>4, <1>5 DEF TransferTypes
<1>7. T!TransferExact'
  BY <1>1, <1>2, <1>3, <1>4, <1>5, NothingMoved DEF TransferTypes, Sized
<1>8. QED
  BY <1>1, <1>2, <1>3, <1>5, <1>6, <1>7 DEF Moving

\* A read that has come to its n-th unit, and to the last one if it ends with GOOD, is exact.
LEMMA ReadExactTo ==
  ASSUME cdb'.count \in Nat, cdb'.start \in Nat, cdb'.op \in T!Reads \cup {"READ_LONG"},
         NEW n \in Nat, n <= UnitOf(cdb'.count), content' = before',
         received' = UnitsBefore(cdb.start, n)',
         phase' = "FREE" /\ status' = "GOOD" => n = UnitOf(cdb'.count),
         status' # "LBA_OUT_OF_RANGE"
  PROVE  T!TransferExact'
<1> DEFINE row == T!Row(cdb')
<1>1. /\ UnitOf(cdb'.count) \in Nat /\ UnitOf(cdb'.start) \in Nat /\ Len(row) = UnitOf(cdb'.count)
      /\ \A i \in 1..UnitOf(cdb'.count) : row[i] = UnitOf(cdb'.start) + i - 1
  BY RowOfCommand, UnitsOfBlocks
<1>2. /\ received' = [i \in 1..n |-> before'[UnitOf(cdb'.start) + i - 1]]
      /\ Len(received') = n
  BY DEF UnitsBefore
<1>3. /\ Len(received') <= Len(row)
      /\ \A i \in 1..Len(received') : received'[i] = before'[row[i]]
      /\ phase' = "FREE" /\ status' = "GOOD" => Len(received') = Len(row)
  <2> HIDE DEF row
  <2>1. QED
    BY <1>1, <1>2
<1>4. T!ReadExact'
  BY <1>3 DEF T!ReadExact
<1>5. cdb'.op \notin T!Writes \cup {"WRITE_LONG"} /\ cdb'.op # "SYNCHRONIZE_CACHE"
  BY DEF T!Reads, T!Writes
<1>6. QED
  BY <1>4, <1>5 DEF T!TransferExact

\* A write that has come to its n-th unit, and to the last one if it ends with GOOD, is exact.
LEMMA WriteExactTo ==
  ASSUME cdb'.count \in Nat, cdb'.start \in Nat, cdb'.op \in T!Writes \cup {"WRITE_LONG"},
         NEW n \in Nat, n <= UnitOf(cdb'.count), n <= sent',
         received' = <<>>, content' = UnitsSent(n)',
         phase' = "FREE" /\ status' = "GOOD" => n = UnitOf(cdb'.count),
         n # 0 /\ caching_mode' = "WRITE_THROUGH" /\ status' = "GOOD" => stable' = content',
         status' # "LBA_OUT_OF_RANGE"
  PROVE  T!TransferExact'
<1> DEFINE row == T!Row(cdb')
           a == UnitOf(cdb'.start)
<1>1. /\ UnitOf(cdb'.count) \in Nat /\ a \in Nat /\ Len(row) = UnitOf(cdb'.count)
      /\ \A i \in 1..UnitOf(cdb'.count) : row[i] = a + i - 1
  BY RowOfCommand, UnitsOfBlocks
<1> HIDE DEF row
<1>2. content' = [u \in T!Unit |-> IF a <= u /\ u < a + n THEN T!Sent(u - a + 1) ELSE before'[u]]
  BY DEF UnitsSent
<1> HIDE DEF a
<1>3. ASSUME NEW u \in T!Unit
      PROVE  (\E i \in 1..n : row[i] = u) <=> a <= u /\ u < a + n
  <2>1. u \in Int
    BY DEF T!Unit
  <2>2. ASSUME a <= u, u < a + n
        PROVE  \E i \in 1..n : row[i] = u
    <3>1. u - a + 1 \in 1..n /\ u - a + 1 \in 1..UnitOf(cdb'.count)
      BY <1>1, <2>1, <2>2
    <3>2. row[u - a + 1] = a + (u - a + 1) - 1
      BY <1>1, <3>1
    <3>3. a + (u - a + 1) - 1 = u
      BY <1>1, <2>1
    <3>4. QED
      BY <3>1, <3>2, <3>3
  <2>3. ASSUME NEW i \in 1..n, row[i] = u
        PROVE  a <= u /\ u < a + n
    <3>1. row[i] = a + i - 1
      BY <1>1
    <3>2. QED
      BY <1>1, <2>3, <3>1
  <2>4. QED
    BY <2>2, <2>3
<1>4. ASSUME n # 0
      PROVE  row[1] = a
  BY <1>1, <1>4
<1>5. content' = [u \in T!Unit |-> IF \E i \in 1..n : row[i] = u
                                   THEN T!Sent(u - row[1] + 1) ELSE before'[u]]
  <2>1. CASE n = 0
    <3>1. \A u \in T!Unit : ~(\E i \in 1..n : row[i] = u)
      BY <2>1
    <3>2. \A u \in T!Unit : ~(a <= u /\ u < a + n)
      BY <1>3, <3>1
    <3>3. QED
      BY <1>2, <3>1, <3>2
  <2>2. CASE n # 0
    BY <1>2, <1>3, <1>4, <2>2
  <2>3. QED
    BY <2>1, <2>2
<1>6. n \in 0..Len(row) /\ (phase' = "FREE" /\ status' = "GOOD" => n = Len(row))
      /\ (caching_mode' = "WRITE_THROUGH" /\ status' = "GOOD" =>
            \A i \in 1..n : stable'[row[i]] = content'[row[i]])
  BY <1>1
<1>7. T!WriteExact'
  <2>1. \E n_ \in 0..Len(row) :
          /\ n_ <= sent' /\ (phase' = "FREE" /\ status' = "GOOD" => n_ = Len(row))
          /\ content' = [u \in T!Unit |-> IF \E i \in 1..n_ : row[i] = u
                                         THEN T!Sent(u - row[1] + 1) ELSE before'[u]]
          /\ caching_mode' = "WRITE_THROUGH" /\ status' = "GOOD" =>
               \A i \in 1..n_ : stable'[row[i]] = content'[row[i]]
    BY <1>5, <1>6
  <2>2. QED
    BY <2>1 DEF T!WriteExact, row
<1>8. cdb'.op \notin T!Reads \cup {"READ_LONG"} /\ cdb'.op # "SYNCHRONIZE_CACHE"
  BY DEF T!Reads, T!Writes
<1>9. QED
  BY <1>7, <1>8 DEF T!TransferExact

\* Update() after a chunk of the command, and whether there is another.
LEMMA ChunkMoved ==
  ASSUME TransferTypes, NEW k \in 0..cdb.count, ChunkAt(k)
  PROVE  LET u == T!Update(chunk_size) IN
         /\ ChunkCount \in Nat \ {0} /\ k + ChunkCount \in 0..cdb.count
         /\ T!Least(chunk_size, remaining_length) = chunk_size
         /\ UnitOf(k + ChunkCount) = UnitOf(k) + UnitOf(ChunkCount)
         /\ u.remaining = UnitOf(cdb.count - (k + ChunkCount))
         /\ u.remaining = 0 => UnitOf(k + ChunkCount) = UnitOf(cdb.count)
         /\ u.remaining # 0 =>
              /\ ChunkCount = 1 /\ k + 1 < cdb.count
              /\ u.chunk = UnitOf(1) /\ T!Least(u.remaining, u.chunk) = UnitOf(1)
<1> DEFINE count == cdb.count
           c == ChunkCount
           d == count - (k + c)
           u == T!Update(chunk_size)
<1>1. count \in Nat \ {0} /\ c \in {1, count} /\ k + c <= count
  BY DEF TransferTypes, ChunkAt, ChunkCount, T!TransferCount
<1>2. c \in Nat \ {0} /\ d \in Nat /\ k \in Nat /\ count - k \in Nat /\ k + c \in Nat
  BY <1>1
<1>3. remaining_length = UnitOf(count - k) /\ chunk_size = UnitOf(c)
  BY DEF ChunkAt
<1> HIDE DEF count, c
<1>4. /\ UnitOf(d) \in Nat /\ UnitOf(c) \in Nat /\ UnitOf(k) \in Nat /\ UnitOf(k + c) \in Nat
      /\ UnitOf(count) \in Nat /\ UnitOf(count - k) \in Nat
      /\ UnitOf(k + c) = UnitOf(k) + UnitOf(c)
  BY <1>1, <1>2, UnitsOfBlocks
<1>5. UnitOf(count - k) = UnitOf(count) - UnitOf(k) /\ UnitOf(d) = UnitOf(count) - UnitOf(k + c)
  <2>1. k <= count /\ k + c <= count
    BY <1>1
  <2>2. UnitOf(count - k) = UnitOf(count) - UnitOf(k)
    BY <1>1, <1>2, <2>1, UnitsOfBlocks
  <2> DEFINE n == k + c
  <2> HIDE DEF n
  <2>3. n \in Nat /\ n <= count
    BY <1>2, <2>1 DEF n
  <2>4. UnitOf(count - n) = UnitOf(count) - UnitOf(n)
    BY <1>1, <2>3, UnitsOfBlocks
  <2>5. QED
    BY <2>2, <2>4 DEF n
<1> HIDE DEF d
<1>6. remaining_length - chunk_size = UnitOf(d)
  BY <1>3, <1>4, <1>5
<1>7. u.remaining = UnitOf(d) /\ u.chunk = T!Least(UnitOf(d), chunk_size)
  BY <1>4, <1>6 DEF T!Update
<1>8. UnitOf(d) = 0 => UnitOf(k + c) = UnitOf(count)
  BY <1>4, <1>5
<1>9. ASSUME UnitOf(d) # 0
      PROVE  c = 1 /\ k + 1 < count /\ u.chunk = UnitOf(1) /\ T!Least(u.remaining, u.chunk) = UnitOf(1)
  <2>1. UnitOf(0) = 0 /\ UnitOf(1) = DefaultSize
    BY UnitsOfBlocks
  <2>2. d # 0
    BY <1>9, <2>1
  <2>3. c = 1 /\ k + 1 < count
    BY <1>1, <1>2, <2>2 DEF d
  <2>4. UnitOf(1) <= UnitOf(d)
    BY <1>2, <2>2, UnitsOfBlocks
  <2>5. T!Least(UnitOf(d), UnitOf(1)) = UnitOf(1)
    BY <1>4, <2>3, <2>4 DEF T!Least
  <2>6. QED
    BY <1>3, <1>7, <2>3, <2>5
<1>10. T!Least(chunk_size, remaining_length) = chunk_size
  BY <1>3, <1>4, <1>6 DEF T!Least
<1> HIDE DEF u
<1>11. QED
  <2>1. ChunkCount = c /\ cdb.count = count /\ UnitOf(d) = UnitOf(cdb.count - (k + ChunkCount))
    BY DEF c, count, d
  <2>2. k + c \in 0..count
    BY <1>1, <1>2
  <2>3. QED
    BY <1>2, <1>4, <1>7, <1>8, <1>9, <1>10, <2>1, <2>2 DEF u

\* A chunk reaches the host, and the next one is read.
LEMMA SendStep ==
  ASSUME TransferTypes, Sized => Moving, T!Send
  PROVE  TransferTypes' /\ (Sized' => Moving')
<1> DEFINE u == T!Update(chunk_size)
           c == ChunkCount
<1>1. /\ phase = "DATA_IN" /\ received' = received \o buffer
      /\ UNCHANGED <<drive, caching_mode, block_size, blocks, sector_size, sectors, content, stable,
                     faulty, cdb, sent, before>>
      /\ remaining_length' = u.remaining /\ chunk_size' = u.chunk
  BY DEF T!Send, T!medium
<1>2. \/ u.remaining = 0 /\ phase' = "FREE" /\ status' = "GOOD"
      \/ u.remaining # 0 /\ T!ReadData(next_sector, T!TransferCount(cdb.count))
  BY DEF T!Send
<1>3. phase' \in {"FREE", "DATA_IN"} /\ (phase' # "FREE" => status' = "GOOD")
  BY <1>2 DEF T!ReadData
<1>4. TransferTypes'
  BY <1>1, <1>3 DEF TransferTypes
<1>5. SUFFICES ASSUME Sized
               PROVE  Moving'
  BY <1>1, <1>4 DEF Sized
<1>6. CASE cdb.op = "READ_CAPACITY"
  <2>1. content = before /\ remaining_length = 2 /\ chunk_size = 2
    BY <1>1, <1>5, <1>6 DEF Moving
  <2>2. u.remaining = 0
    BY <2>1 DEF T!Update
  <2>3. phase' = "FREE" /\ status' = "GOOD"
    BY <1>2, <2>2
  <2>4. cdb'.op \notin T!Reads \cup T!Writes \cup {"READ_LONG", "WRITE_LONG", "SYNCHRONIZE_CACHE"}
    BY <1>1, <1>6 DEF T!Reads, T!Writes
  <2>5. T!TransferExact'
    BY <1>1, <2>1, <2>3, <2>4 DEF T!TransferExact
  <2>6. QED
    BY <2>3, <2>5 DEF Moving
<1>7. CASE cdb.op # "READ_CAPACITY"
  <2>1. PICK k \in 0..cdb.count : ReadAt(k)
    BY <1>1, <1>5, <1>7 DEF Moving
  <2>2. cdb.op \in T!Reads \cup {"READ_LONG"} /\ cdb.start \in Nat /\ cdb.count \in Nat /\ k \in Nat
        /\ (cdb.op \in T!Longs => cdb.count \in {0, 1}) /\ ChunkAt(k) /\ content = before
    BY <1>1, <1>7, <2>1 DEF TransferTypes, ReadAt
  <2>3. /\ c \in Nat /\ k + c \in 0..cdb.count
        /\ UnitOf(k + c) = UnitOf(k) + UnitOf(c)
        /\ u.remaining = UnitOf(cdb.count - (k + c))
        /\ u.remaining = 0 => UnitOf(k + c) = UnitOf(cdb.count)
        /\ u.remaining # 0 => c = 1 /\ k + 1 < cdb.count /\ u.chunk = UnitOf(1)
    BY <2>2, ChunkMoved
  <2> HIDE DEF c, u
  <2>4. received' = UnitsBefore(cdb.start, UnitOf(k + c))
    <3>1. UnitOf(cdb.start) \in Nat /\ UnitOf(k) \in Nat /\ UnitOf(c) \in Nat
          /\ UnitOf(cdb.start + k) = UnitOf(cdb.start) + UnitOf(k)
      BY <2>2, <2>3, UnitsOfBlocks
    <3>2. received = [i \in 1..UnitOf(k) |-> before[UnitOf(cdb.start) + i - 1]]
          /\ buffer = [i \in 1..UnitOf(c) |-> before[UnitOf(cdb.start) + UnitOf(k) + i - 1]]
      BY <2>1, <3>1 DEF ReadAt, UnitsBefore, c
    <3>3. received \o buffer = [i \in 1..UnitOf(k) + UnitOf(c) |-> before[UnitOf(cdb.start) + i - 1]]
      <4> DEFINE a == UnitOf(cdb.start)
                 x == UnitOf(k)
                 y == UnitOf(c)
      <4> HIDE DEF a, x, y
      <4>1. a \in Int /\ x \in Nat /\ y \in Nat
        BY <3>1 DEF a, x, y
      <4>2. /\ received = [i \in 1..x |-> before[a + i - 1]]
            /\ buffer = [i \in 1..y |-> before[a + x + i - 1]]
        BY <3>2 DEF a, x, y
      <4>3. received \o buffer = [i \in 1..x + y |-> before[a + i - 1]]
        BY <4>1, <4>2, RowsJoin
      <4>4. QED
        BY <4>3 DEF a, x, y
    <3>4. QED
      BY <1>1, <2>3, <3>3 DEF UnitsBefore
  <2>5. UnitOf(k + c) \in Nat /\ UnitOf(k + c) <= UnitOf(cdb.count)
    <3> DEFINE n == k + c
    <3>1. n \in Nat /\ n <= cdb.count
      BY <2>2, <2>3
    <3> HIDE DEF n
    <3>2. UnitOf(n) \in Nat /\ UnitOf(n) <= UnitOf(cdb.count)
      BY <2>2, <3>1, UnitsOfBlocks
    <3>3. QED
      BY <3>2 DEF n
  <2>6. CASE u.remaining = 0
    <3>1. phase' = "FREE" /\ status' = "GOOD"
      BY <1>2, <2>6 DEF u
    <3>2. T!TransferExact'
      BY <1>1, <2>2, <2>3, <2>5, <2>4, <2>6, <3>1, ReadExactTo DEF UnitsBefore
    <3>3. QED
      BY <3>1, <3>2 DEF Moving
  <2>7. CASE u.remaining # 0
    <3>1. c = 1 /\ k + 1 < cdb.count /\ u.chunk = UnitOf(1)
      BY <2>3, <2>7
    <3>2. cdb.op \in T!Reads /\ cdb.op \notin {"READ_CAPACITY", "READ_LONG"}
      BY <2>2, <3>1 DEF T!Longs, T!Reads
    <3>3. next_sector = cdb.start + (k + 1)
      BY <2>1, <2>2, <3>1, <3>2 DEF ReadAt, c
    <3>4. /\ cdb.start + (k + 1) \in Nat /\ cdb.start + (k + 1) + 1 <= blocks
          /\ cdb.start + (k + 1) + 1 < W64
      <4>1. cdb.start + cdb.count <= blocks /\ cdb.start + cdb.count < W64
        BY <1>5, <2>2 DEF ChunkAt, Sized, T!Fits
      <4>2. blocks \in Nat /\ W64 \in Nat
        BY WholeBlocks, DevicesAssumption DEF TransferTypes
      <4>3. QED
        BY <2>2, <3>1, <4>1, <4>2
    <3>5. T!ReadData(cdb.start + (k + 1), 1)
      BY <1>2, <2>7, <3>1, <3>3 DEF u, c, ChunkCount
    <3>6. \/ /\ phase' = "DATA_IN" /\ status' = "GOOD" /\ next_sector' = cdb.start + (k + 1) + 1
             /\ buffer' = [i \in 1..UnitOf(1) |-> content[UnitOf(cdb.start + (k + 1)) + i - 1]]
          \/ phase' = "FREE" /\ status' = "READ_ERROR"
      BY <1>5, <3>4, <3>5, ReadsChunk DEF Sized
    <3>7. T!TransferExact'
      BY <1>1, <2>2, <2>3, <2>5, <2>4, <3>6, ReadExactTo DEF UnitsBefore
    <3>8. CASE phase' = "FREE"
      BY <3>7, <3>8 DEF Moving
    <3>9. CASE phase' # "FREE"
      <4>1. ChunkCount' = 1 /\ k + 1 \in 0..cdb'.count
        BY <1>1, <2>2, <3>1 DEF c, ChunkCount, T!TransferCount
      <4>2. ChunkAt(k + 1)'
        BY <1>1, <2>2, <2>3, <3>1, <4>1 DEF ChunkAt
      <4>3. ReadAt(k + 1)'
        BY <1>1, <2>2, <2>4, <3>1, <3>6, <3>9, <4>1, <4>2 DEF ReadAt, UnitsBefore
      <4>4. QED
        BY <1>1, <3>2, <3>6, <3>7, <3>9, <4>1, <4>3 DEF Moving
    <3>10. QED
      BY <3>8, <3>9
  <2>8. QED
    BY <2>6, <2>7
<1>8. QED
  BY <1>6, <1>7

\* The units of the next chunk are written after those that were.
LEMMA UnitsFollow ==
  ASSUME NEW m \in Nat, NEW l \in Nat, UnitOf(cdb.start) \in Nat, content = UnitsSent(m)
  PROVE  LET a == UnitOf(cdb.start) + m IN
         [u \in T!Unit |-> IF u \in {v \in T!Unit : a <= v /\ v < a + l}
                           THEN T!Sent(m + 1 + u - a) ELSE content[u]] = UnitsSent(m + l)
<1> DEFINE b == UnitOf(cdb.start)
<1> HIDE DEF b
<1>1. b \in Nat /\ UnitOf(cdb.start) = b
  BY DEF b
<1>2. ASSUME NEW u \in T!Unit
      PROVE  (IF u \in {v \in T!Unit : b + m <= v /\ v < b + m + l}
              THEN T!Sent(m + 1 + u - (b + m)) ELSE content[u])
               = (IF b <= u /\ u < b + (m + l) THEN T!Sent(u - b + 1) ELSE before[u])
  <2>1. u \in Int
    BY DEF T!Unit
  <2>2. content[u] = IF b <= u /\ u < b + m THEN T!Sent(u - b + 1) ELSE before[u]
    BY <1>1 DEF UnitsSent
  <2>3. m + 1 + u - (b + m) = u - b + 1
    BY <1>1, <2>1
  <2>4. CASE b + m <= u /\ u < b + m + l
    BY <1>1, <2>1, <2>3, <2>4
  <2>5. CASE ~(b + m <= u /\ u < b + m + l)
    BY <1>1, <2>1, <2>2, <2>5
  <2>6. QED
    BY <2>4, <2>5
<1>3. QED
  BY <1>1, <1>2 DEF UnitsSent

\* A chunk comes from the host and is written.
LEMMA ReceiveStep ==
  ASSUME TransferTypes, Sized => Moving, T!Receive
  PROVE  TransferTypes' /\ (Sized' => Moving')
<1> DEFINE c == IF cdb.op = "WRITE_LONG" THEN 1 ELSE T!TransferCount(cdb.count)
           u == T!Update(T!Least(chunk_size, remaining_length))
           next == T!ToUint(next_sector)
<1>1. /\ phase = "DATA_OUT" /\ sent' = sent + current_length /\ T!WriteSectors(next, c, sent)
      /\ UNCHANGED <<drive, caching_mode, block_size, blocks, sector_size, sectors, faulty,
                     cdb, received, before>>
      /\ cdb.op \in T!Writes \cup {"WRITE_LONG"}
  BY DEF T!Receive, TransferTypes
<1>2. /\ status' = "WRITE_FAULT" => phase' = "FREE"
      /\ status' # "WRITE_FAULT" =>
           /\ next_sector' = (next_sector + c) % W64
           /\ remaining_length' = u.remaining /\ chunk_size' = u.chunk /\ current_length' = u.chunk
           /\ phase' = IF u.remaining = 0 THEN "FREE" ELSE "DATA_OUT"
  BY DEF T!Receive
<1>3. status' \in {"GOOD", "WRITE_FAULT"} /\ IsRow(content') /\ IsRow(stable')
  BY <1>1 DEF T!WriteSectors, T!Written, TransferTypes, IsRow
<1>4. TransferTypes'
  BY <1>1, <1>2, <1>3 DEF TransferTypes
<1>5. SUFFICES ASSUME Sized
               PROVE  Moving'
  BY <1>1, <1>4 DEF Sized
<1>6. PICK k \in 0..cdb.count : WriteAt(k)
  BY <1>1, <1>5 DEF Moving
<1>7. /\ ChunkAt(k) /\ cdb.start \in Nat /\ cdb.count \in Nat \ {0} /\ k \in Nat
      /\ content = UnitsSent(UnitOf(k)) /\ sent = UnitOf(k) /\ next_sector = cdb.start + k
      /\ c = ChunkCount /\ current_length = UnitOf(ChunkCount) /\ received = <<>>
      /\ sector_size = DefaultSize
  BY <1>1, <1>5, <1>6
     DEF WriteAt, ChunkAt, TransferTypes, ChunkCount, T!TransferCount, T!Longs, Sized
<1>8. /\ c \in Nat \ {0} /\ k + c \in 0..cdb.count
      /\ UnitOf(k + c) = UnitOf(k) + UnitOf(c)
      /\ u.remaining = 0 => UnitOf(k + c) = UnitOf(cdb.count)
      /\ u.remaining = UnitOf(cdb.count - (k + c))
      /\ u.remaining # 0 => c = 1 /\ k + 1 < cdb.count /\ u.chunk = UnitOf(1)
  BY <1>7, ChunkMoved
<1> HIDE DEF c, u, next
<1>9. next = cdb.start + k /\ (next_sector + c) % W64 = cdb.start + (k + c)
  <2>1. cdb.start + cdb.count <= blocks /\ blocks \in Nat /\ blocks <= W32 /\ W32 \in Nat
    BY <1>7, WholeBlocks, DevicesAssumption, SMTT(30) DEF ChunkAt, TransferTypes
  <2>2. cdb.start + k \in Nat /\ cdb.start + k < W32
    BY <1>7, <1>8, <2>1
  <2>3. cdb.start + cdb.count < W64 /\ W64 \in Nat
    BY <1>5, DevicesAssumption DEF Sized, T!Fits
  <2>4. cdb.start + (k + c) \in Nat /\ cdb.start + (k + c) < W64
    BY <1>7, <1>8, <2>3
  <2>5. next_sector + c = cdb.start + (k + c)
    BY <1>7, <1>8
  <2>6. T!ToUint(cdb.start + k) = cdb.start + k
    BY <2>2, FitsItsType
  <2>7. (cdb.start + (k + c)) % W64 = cdb.start + (k + c)
    BY <2>4, FitsItsType
  <2>8. QED
    BY <1>7, <2>5, <2>6, <2>7 DEF next
<1> DEFINE a == UnitOf(cdb.start)
           m == UnitOf(k)
           us == {v \in T!Unit : a + m <= v /\ v < a + m + UnitOf(c)}
<1>10. /\ a \in Nat /\ m \in Nat /\ UnitOf(c) \in Nat \ {0} /\ UnitOf(k + c) \in Nat
       /\ UnitOf(cdb.start + k) = a + m
       /\ UnitOf(k + c) <= UnitOf(cdb.count)
  <2>1. /\ UnitOf(0) = 0 /\ UnitOf(1) = DefaultSize /\ UnitOf(c) \in Nat /\ a \in Nat /\ m \in Nat
        /\ UnitOf(cdb.start + k) = a + m
    BY <1>7, <1>8, UnitsOfBlocks
  <2>2. UnitOf(1) <= UnitOf(c)
    BY <1>8, UnitsOfBlocks
  <2>3. DefaultSize \in Nat \ {0}
    BY DevicesAssumption
  <2> DEFINE n == k + c
  <2>4. n \in Nat /\ n <= cdb.count
    BY <1>7, <1>8
  <2> HIDE DEF n
  <2>5. UnitOf(n) \in Nat /\ UnitOf(n) <= UnitOf(cdb.count)
    BY <1>7, <2>4, UnitsOfBlocks
  <2>6. QED
    BY <2>1, <2>2, <2>3, <2>5 DEF n
<1>11. DefaultSize * (cdb.start + k) = a + m /\ DefaultSize * c = UnitOf(c)
  <2>1. DefaultSize \in Nat /\ cdb.start + k \in Nat /\ c \in Nat
    <3>1. DefaultSize \in Nat
      BY DevicesAssumption
    <3>2. c \in Nat
      BY <1>8
    <3>3. cdb.start \in Nat
      BY <1>7
    <3>4. QED
      BY <3>1, <3>2, <3>3
  <2>2. DefaultSize * (cdb.start + k) = UnitOf(cdb.start + k) /\ DefaultSize * c = UnitOf(c)
    BY <2>1 DEF UnitOf
  <2>3. QED
    BY <1>10, <2>2
<1>12. T!Covered(next, c) = us
  BY <1>7, <1>9, <1>11 DEF T!Covered
<1>13. sent' = UnitOf(k + c) /\ received' = <<>>
  BY <1>1, <1>7, <1>8 DEF c
<1>14. CASE status' = "WRITE_FAULT"
  <2>1. PICK n \in {0, 1} :
           content' = T!Written(next, {v \in T!Covered(next, c) : v < sector_size * next + n}, sent)
    BY <1>1, <1>14 DEF T!WriteSectors
  <2>2. sector_size * next = a + m
    BY <1>7, <1>9, <1>11
  <2>3. {v \in T!Covered(next, c) : v < sector_size * next + n}
          = {v \in T!Unit : a + m <= v /\ v < a + m + n}
    <3>1. n <= UnitOf(c) /\ n \in Nat
      BY <1>10
    <3>2. \A v \in T!Unit : v \in Int
      BY DEF T!Unit
    <3> HIDE DEF a, m
    <3>3. \A v \in T!Unit : v < a + m + n => v < a + m + UnitOf(c)
      BY <1>10, <3>1, <3>2
    <3>4. QED
      BY <1>12, <2>2, <3>3
  <2>4. content' = UnitsSent(m + n)
    <3>1. content' = [v \in T!Unit |-> IF v \in {w \in T!Unit : a + m <= w /\ w < a + m + n}
                                       THEN T!Sent(m + 1 + v - (a + m)) ELSE content[v]]
      BY <1>7, <2>1, <2>2, <2>3 DEF T!Written
    <3>2. n \in Nat
      OBVIOUS
    <3>3. QED
      BY <1>7, <1>10, <3>1, <3>2, UnitsFollow
  <2>5. m + n \in Nat /\ m + n <= sent' /\ m + n <= UnitOf(cdb.count)
    <3>1. n \in Nat /\ n <= UnitOf(c) /\ m \in Nat /\ UnitOf(c) \in Nat
      BY <1>10
    <3>2. UnitOf(k + c) = m + UnitOf(c) /\ UnitOf(k + c) <= UnitOf(cdb.count) /\ UnitOf(cdb.count) \in Nat
      BY <1>7, <1>8, <1>10, UnitsOfBlocks
    <3> HIDE DEF m
    <3>3. m + n <= m + UnitOf(c) /\ m + n \in Nat
      BY <3>1
    <3>4. QED
      BY <1>13, <3>1, <3>2, <3>3
  <2>6. T!TransferExact'
    BY <1>1, <1>7, <1>13, <1>14, <2>4, <2>5, WriteExactTo DEF UnitsSent
  <2>7. QED
    BY <1>2, <1>14, <2>6 DEF Moving
<1>15. CASE status' # "WRITE_FAULT"
  <2>1. /\ content' = T!Written(next, us, sent)
        /\ caching_mode = "WRITE_THROUGH" => stable' = content'
    BY <1>1, <1>12, <1>15 DEF T!WriteSectors
  <2>2. content' = UnitsSent(UnitOf(k + c))
    <3>1. sector_size * next = a + m
      BY <1>7, <1>9, <1>11
    <3>2. content' = [v \in T!Unit |-> IF v \in us THEN T!Sent(m + 1 + v - (a + m)) ELSE content[v]]
      BY <1>7, <2>1, <3>1 DEF T!Written
    <3>3. content' = UnitsSent(m + UnitOf(c))
      BY <1>7, <1>10, <3>2, UnitsFollow
    <3>4. QED
      BY <1>8, <3>3
  <2>3. status' = "GOOD"
    BY <1>3, <1>15
  <2>4. phase' = "FREE" => UnitOf(k + c) = UnitOf(cdb.count)
    BY <1>2, <1>8, <1>15
  <2>5. T!TransferExact'
    <3> DEFINE n == UnitOf(k + c)
    <3>1. n \in Nat /\ n <= UnitOf(cdb'.count) /\ n <= sent' /\ content' = UnitsSent(n)
          /\ (phase' = "FREE" => n = UnitOf(cdb'.count))
      BY <1>1, <1>10, <1>13, <2>2, <2>4
    <3> HIDE DEF n
    <3>2. content' = [v \in T!Unit |-> IF UnitOf(cdb'.start) <= v /\ v < UnitOf(cdb'.start) + n
                                       THEN T!Sent(v - UnitOf(cdb'.start) + 1) ELSE before'[v]]
      BY <1>1, <3>1 DEF UnitsSent
    <3>3. cdb'.count \in Nat /\ cdb'.start \in Nat /\ cdb'.op \in T!Writes \cup {"WRITE_LONG"}
      BY <1>1, <1>7
    <3>4. caching_mode' = "WRITE_THROUGH" => stable' = content'
      BY <1>1, <2>1
    <3>5. QED
      BY <1>13, <2>3, <3>1, <3>2, <3>3, <3>4, WriteExactTo DEF UnitsSent
  <2>6. CASE phase' = "FREE"
    BY <2>5, <2>6 DEF Moving
  <2>7. CASE phase' # "FREE"
    <3>1. u.remaining # 0 /\ phase' = "DATA_OUT"
      BY <1>2, <1>15, <2>7
    <3>2. c = 1 /\ k + 1 < cdb.count /\ u.chunk = UnitOf(1)
          /\ u.remaining = UnitOf(cdb.count - (k + 1))
      BY <1>8, <3>1
    <3>3. ChunkCount' = 1 /\ k + 1 \in 0..cdb'.count
      BY <1>1, <1>7, <1>8, <3>2 DEF ChunkCount, T!TransferCount
    <3>4. ChunkAt(k + 1)'
      BY <1>1, <1>2, <1>7, <1>15, <3>2, <3>3 DEF ChunkAt
    <3>5. content' = UnitsSent(UnitOf(k + 1))'
      BY <1>1, <2>2, <3>2 DEF UnitsSent
    <3>6. WriteAt(k + 1)'
      BY <1>1, <1>2, <1>9, <1>13, <1>15, <2>1, <3>2, <3>3, <3>4, <3>5 DEF WriteAt
    <3>7. QED
      BY <2>5, <3>1, <3>3, <3>6 DEF Moving
  <2>8. QED
    BY <2>6, <2>7
<1>16. QED
  BY <1>14, <1>15

\* A transfer that is broken off has the status of no command.
LEMMA BreakOffStep ==
  ASSUME TransferTypes, Sized => Moving, T!BreakOff
  PROVE  TransferTypes' /\ (Sized' => Moving')
<1>1. /\ phase' = "FREE" /\ status' = "NONE"
      /\ UNCHANGED <<drive, caching_mode, block_size, blocks, sector_size, sectors, content, stable,
                     faulty, cdb, received, sent, before>>
  BY DEF T!BreakOff, T!medium, T!history
<1>2. TransferTypes'
  BY <1>1 DEF TransferTypes
<1>3. ASSUME Sized
      PROVE  T!TransferExact'
  <2>1. T!TransferExact
    BY <1>3 DEF Moving
  <2>2. T!ReadExact => T!ReadExact'
    BY <1>1 DEF T!ReadExact
  <2>3. T!WriteExact => T!WriteExact'
    BY <1>1 DEF T!WriteExact
  <2>4. QED
    BY <1>1, <1>3, <2>1, <2>2, <2>3 DEF T!TransferExact, Sized
<1>4. QED
  BY <1>1, <1>2, <1>3 DEF Moving, Sized

\* The numbers in a CDB are natural numbers.
LEMMA NumbersOfCdb ==
  /\ \A c \in Cdb6 \cup Cdb10 \cup Cdb16 : c.start \in Nat /\ c.count \in Nat
  /\ \A c \in LongCdb : c.sector \in Nat
  /\ Count6 \in Nat
BY DevicesAssumption DEF Cdb6, Cdb10, Cdb16, LongCdb

\* Every step of the drive keeps the invariant.
LEMMA TransferStep ==
  ASSUME TransferTypes, Sized => Moving, T!Next
  PROVE  TransferTypes' /\ (Sized' => Moving')
<1>1. CASE T!ReadWrite
  <2>1. PICK op \in T!Reads \cup T!Writes \cup T!Verifies, start_ \in Nat, count \in Nat :
           T!Access(op, start_, count)
    <3>1. \A o : o \in {"READ_6", "WRITE_6", "READ_10", "WRITE_10", "VERIFY_10", "READ_16", "WRITE_16",
                        "VERIFY_16"} => o \in T!Reads \cup T!Writes \cup T!Verifies
      BY DEF T!Reads, T!Writes, T!Verifies
    <3>2. ASSUME NEW c \in Cdb6, NEW o \in {"READ_6", "WRITE_6"},
                 T!Access(o, c.start, IF c.count = 0 THEN Count6 ELSE c.count)
          PROVE  \E op \in T!Reads \cup T!Writes \cup T!Verifies, start_ \in Nat, count \in Nat :
                   T!Access(op, start_, count)
      <4>1. (IF c.count = 0 THEN Count6 ELSE c.count) \in Nat /\ c.start \in Nat
        BY NumbersOfCdb
      <4>2. QED
        BY <3>1, <3>2, <4>1
    <3>3. ASSUME NEW c \in Cdb10 \cup Cdb16,
                 NEW o \in {"READ_10", "WRITE_10", "VERIFY_10", "READ_16", "WRITE_16", "VERIFY_16"},
                 T!Access(o, c.start, c.count)
          PROVE  \E op \in T!Reads \cup T!Writes \cup T!Verifies, start_ \in Nat, count \in Nat :
                   T!Access(op, start_, count)
      BY <3>1, <3>3, NumbersOfCdb
    <3>4. QED
      BY <1>1, <3>2, <3>3 DEF T!ReadWrite
  <2>2. QED
    BY <2>1, AccessStep
<1>2. CASE \E op \in T!Longs, c \in LongCdb : T!Long(op, c)
  BY <1>2, NumbersOfCdb, LongStep
<1>3. CASE \/ T!SynchronizeCache \/ T!ReadCapacity
           \/ \E size \in Sizes, paged \in BOOLEAN : T!ModeSelect(size, paged)
  BY <1>3, NoBlocksStep
<1>4. CASE T!Send \/ T!Receive \/ T!BreakOff
  BY <1>4, SendStep, ReceiveStep, BreakOffStep
<1>5. QED
  BY <1>1, <1>2, <1>3, <1>4 DEF T!Next

\* A part that does not run keeps its variables.
LEMMA OtherThanTransfer ==
  ASSUME [Next]_vars
  PROVE  \/ part = "TRANSFER" /\ part' = part /\ T!Next
         \/ part # "TRANSFER" /\ part' = part
         \/ part' = part /\ UNCHANGED transfer_vars
BY DEF Next, vars, Transfer, Host, Spool, Net, Generic, Disk, TapeCopy, Simh, Exec, Mode, Config

\* The invariant of the disk drive: it holds at the start, and every step keeps it.
LEMMA TransferInitially == Init => TransferInv
<1>1. ASSUME T!Init
      PROVE  TransferTypes /\ (Sized => Moving)
  <2>1. /\ blocks = T!BlocksOf(DefaultSize) /\ sectors = T!BlocksOf(DefaultSize)
        /\ content = [u \in T!Unit |-> u] /\ stable = content /\ before = content
        /\ cdb.op = "NONE" /\ cdb.start = 0 /\ cdb.count = 0
        /\ phase = "FREE" /\ status = "NONE"
    BY <1>1 DEF T!Init
  <2>2. TransferTypes
    BY <2>1 DEF TransferTypes, IsRow, T!Longs
  <2>3. T!TransferExact
    BY <2>1 DEF T!TransferExact, T!Reads, T!Writes
  <2>4. QED
    BY <2>1, <2>2, <2>3 DEF Moving
<1>2. QED
  BY <1>1 DEF Init, TransferInv

LEMMA TransferInvKept == TransferInv /\ [Next]_vars => TransferInv'
<1>1. ASSUME TransferInv, part = "TRANSFER", part' = part, UNCHANGED transfer_vars
      PROVE  TransferInv'
  <2>1. TransferTypes' /\ (Sized' <=> Sized)
    BY <1>1 DEF TransferInv, TransferTypes, transfer_vars, Sized, IsRow
  <2>2. ASSUME Moving
        PROVE  Moving'
    <3>1. T!TransferExact'
      BY <1>1, <2>2 DEF Moving, transfer_vars, T!TransferExact, T!ReadExact, T!WriteExact
    <3>2. /\ \A k : ReadAt(k) => ReadAt(k)'
          /\ \A k : WriteAt(k) => WriteAt(k)'
      BY <1>1
         DEF transfer_vars, ReadAt, WriteAt, ChunkAt, ChunkCount, T!TransferCount, UnitsBefore,
             UnitsSent
    <3>3. QED
      BY <1>1, <2>2, <3>1, <3>2 DEF Moving, transfer_vars
  <2>3. QED
    BY <1>1, <2>1, <2>2 DEF TransferInv
<1>2. QED
  BY <1>1, OtherThanTransfer, TransferStep DEF TransferInv

\* A drive transfers exactly the blocks that a command is about, in every caching mode, by chunks of
\* a block or in one, wherever the transfer ends (disk.cpp:199-295, 384-432, 508-581).
THEOREM TransferIsExact == Spec => []TransferExact
<1>1. Init => TransferInv
  BY TransferInitially
<1>2. TransferInv /\ [Next]_vars => TransferInv'
  BY TransferInvKept
<1>3. TransferInv => TransferExact
  <2>1. ASSUME TransferTypes, Sized => Moving
        PROVE  T!TransferExact
    BY <2>1 DEF Moving, Sized, T!TransferExact
  <2>2. QED
    BY <2>1 DEF TransferInv, TransferExact
<1>4. QED
  BY <1>1, <1>2, <1>3, PTL DEF Spec

(* The SCSI generic device. *)

\* A medium as a row of bytes.
ByBytes(c, d) == [u \in Int |-> c[u \div d][1 + (u % d)]]

GenericTypes ==
  /\ real.size \in Nat \ {0} /\ real = [size |-> real.size, content |-> real.content]
  /\ real.content = [b \in 0..RealBlocks - 1 |-> real.content[b]]
  /\ asked = [op |-> asked.op, six |-> asked.six, start |-> asked.start, count |-> asked.count,
               list |-> asked.list]
  /\ asked.start \in Nat /\ asked.count \in Nat /\ asked.list \in Lists /\ number \in Nat
  /\ local_cdb = [op |-> local_cdb.op, start |-> local_cdb.start, count |-> local_cdb.count]
  /\ gen_phase \in {"FREE", "DATA_IN", "DATA_OUT"}
  /\ gen_phase # "FREE" => gen_status = "GOOD" /\ number # 0
  /\ gen_phase = "DATA_IN" => asked.op = "READ"
  /\ gen_phase = "DATA_OUT" => asked.op \in {"WRITE", "FORMAT_UNIT"}
  /\ asked.op # "WRITE" => real = was

\* Sense data that are kept are those of the command before, and they are kept if it failed.
SenseKept ==
  /\ asked.op \notin {"REQUEST_SENSE", "NONE"} => failed = deferred_sense
  /\ deferred_sense # 0 => failed = deferred_sense
  /\ asked.op = "REQUEST_SENSE" /\ sense # 0 => sense = failed

\* A header that is kept is that of the FORMAT UNIT whose list is awaited.
HeaderKept ==
  ~broken =>
    /\ format_header = 0
         \/ /\ gen_phase = "DATA_OUT" /\ asked.op = "FORMAT_UNIT" /\ asked.list # -1
            /\ format_header = number /\ byte_count = asked.list + HeaderLength
    /\ asked.op = "FORMAT_UNIT" /\ gen_phase = "FREE" /\ gen_status = "GOOD" /\ asked.list # -1 =>
         formatted = [header |-> number, list |-> asked.list]

\* The premise of GenericExact for the blocks.
Whole ==
  /\ generic_block_size = real.size /\ MAX_TRANSFER_LENGTH % real.size = 0
  /\ ~(asked.six /\ asked.count = 0)

\* Of count blocks that are left, l are in the next piece.
PieceOf(l, count) ==
  /\ l \in 1..count /\ chunk = Bytes(real.size, l) /\ chunk <= MAX_TRANSFER_LENGTH
  /\ current = chunk /\ remaining = Bytes(real.size, count)

\* n bytes of the medium from a block on, as they were at the beginning of the command.
BytesBefore(b, n) ==
  [i \in 1..n |-> ByBytes(was.content, real.size)[Bytes(real.size, b) + i - 1]]

\* k blocks have reached the host, and l are in the buffer.
BlocksRead(k) == got = BytesBefore(asked.start, Bytes(real.size, k))

PieceRead(k, l) ==
  /\ k + l <= asked.count /\ PieceOf(l, asked.count - k)
  /\ BlocksRead(k) /\ data = BytesBefore(asked.start + k, Bytes(real.size, l))
  /\ remaining_count = Bytes(real.size, asked.count - (k + l))
  /\ local_cdb.start = asked.start + (k + l)

\* The device has the first k blocks of the host.
BlocksWritten(k) ==
  \A b \in 0..RealBlocks - 1 : \A i \in 1..real.size :
    real.content[b][i] = IF asked.start <= b /\ b < asked.start + k
                         THEN [by |-> number, n |-> Bytes(real.size, b - asked.start) + i]
                         ELSE was.content[b][i]

PieceWritten(k, l) ==
  /\ k + l <= asked.count /\ PieceOf(l, asked.count - k)
  /\ BlocksWritten(k)
  /\ put = Bytes(real.size, k) /\ remaining_count = remaining
  /\ local_cdb.start = asked.start + k

\* What GenericExact says of the blocks of a command.
BlocksExact ==
  LET good == gen_phase = "FREE" /\ gen_status = "GOOD" IN
    /\ asked.op = "READ" =>
         \E k \in 0..asked.count : BlocksRead(k) /\ (good => k = asked.count)
    /\ asked.op = "WRITE" =>
         \E k \in 0..asked.count :
           BlocksWritten(k) /\ Bytes(real.size, k) <= put /\ (good => k = asked.count)

BlocksMoving ==
  /\ gen_phase = "FREE" => BlocksExact
  /\ gen_phase = "DATA_IN" => \E k, l \in 0..asked.count : PieceRead(k, l)
  /\ gen_phase = "DATA_OUT" /\ asked.op = "WRITE" => \E k, l \in 0..asked.count : PieceWritten(k, l)

GenericInv ==
  part = "GENERIC" => GenericTypes /\ SenseKept /\ HeaderKept /\ (Whole => BlocksMoving)

\* The command that a step begins.
LEMMA BeginsGeneric ==
  ASSUME NEW op, NEW six, NEW start_, NEW count, NEW list, G!Begin(op, six, start_, count, list)
  PROVE  /\ gen_phase = "FREE" /\ number' = number + 1 /\ got' = <<>> /\ put' = 0 /\ was' = real
         /\ asked' = [op |-> op, six |-> six, start |-> start_, count |-> count, list |-> list]
         /\ sense' = IF op = "REQUEST_SENSE" THEN deferred_sense ELSE 0
         /\ UNCHANGED <<formatted, broken>>
BY DEF G!Begin

\* The CDB of a piece.
LEMMA CdbOfPiece ==
  ASSUME NEW c, c = [op |-> c.op, start |-> c.start, count |-> c.count], NEW n
  PROVE  LET p == G!SetBlockCount(c, n) IN
         /\ p.op = c.op /\ p.start = c.start /\ p.count = n \div generic_block_size
         /\ p = [op |-> p.op, start |-> p.start, count |-> p.count]
         /\ LET q == [p EXCEPT !.start = @ + p.count] IN
              q.start = p.start + p.count /\ q = [op |-> q.op, start |-> q.start, count |-> q.count]
<1> DEFINE p == G!SetBlockCount(c, n)
<1>1. p = [op |-> c.op, start |-> c.start, count |-> n \div generic_block_size]
  BY DEF G!SetBlockCount
<1> HIDE DEF p
<1>2. QED
  BY <1>1 DEF p

\* What a piece that is read changes, whatever the block size.
LEMMA ReadPieceKeeps ==
  ASSUME NEW c, c = [op |-> c.op, start |-> c.start, count |-> c.count], NEW n, NEW m,
         G!ReadPiece(c, n, m)
  PROVE  /\ UNCHANGED <<real, generic_block_size>>
         /\ local_cdb' = [op |-> local_cdb'.op, start |-> local_cdb'.start, count |-> local_cdb'.count]
         /\ failed' = deferred_sense'
         /\ \/ gen_status' = "GOOD"
            \/ gen_phase' = "FREE" /\ gen_status' \in {"CHECK_CONDITION", "ABORTED_COMMAND"}
<1> DEFINE p == G!SetBlockCount(c, G!Piece(n, m))
           q == [p EXCEPT !.start = @ + p.count]
<1>1. /\ p = [op |-> p.op, start |-> p.start, count |-> p.count]
      /\ q = [op |-> q.op, start |-> q.start, count |-> q.count]
  BY CdbOfPiece
<1>2. \/ local_cdb' = q /\ G!Works /\ UNCHANGED <<real, generic_block_size>>
      \/ local_cdb' = p /\ G!Fails
  BY DEF G!ReadPiece
<1> HIDE DEF p, q
<1>3. QED
  BY <1>1, <1>2 DEF G!Works, G!Fails

\* Every step keeps the types, the sense data and the header.
LEMMA GenericKeeps ==
  ASSUME GenericTypes, SenseKept, HeaderKept, G!Next
  PROVE  GenericTypes' /\ SenseKept' /\ HeaderKept'
<1>1. ASSUME NEW op \in G!Reads, NEW start_ \in GenericStarts, NEW count \in GenericCounts,
             G!ReadBlocks(op, start_, count)
      PROVE  GenericTypes' /\ SenseKept' /\ HeaderKept'
  <2>1. /\ gen_phase = "FREE" /\ number' = number + 1 /\ was' = real
        /\ asked' = [op |-> "READ", six |-> (op = "READ_6"), start |-> start_, count |-> count, list |-> -1]
        /\ sense' = 0 /\ UNCHANGED <<formatted, broken, format_header>>
    BY <1>1, BeginsGeneric DEF G!ReadBlocks
  <2>2. PICK n, m : G!ReadPiece([op |-> G!Long(op), start |-> start_, count |-> count], n, m)
    BY <1>1 DEF G!ReadBlocks
  <2>3. /\ UNCHANGED <<real, generic_block_size>>
        /\ local_cdb' = [op |-> local_cdb'.op, start |-> local_cdb'.start, count |-> local_cdb'.count]
        /\ failed' = deferred_sense'
        /\ \/ gen_status' = "GOOD"
           \/ gen_phase' = "FREE" /\ gen_status' \in {"CHECK_CONDITION", "ABORTED_COMMAND"}
    BY <2>2, ReadPieceKeeps
  <2>4. gen_phase' \in {"FREE", "DATA_IN"} /\ (gen_phase' # "FREE" => gen_status' = "GOOD")
    BY <1>1, <2>3 DEF G!ReadBlocks
  <2>5. start_ \in Nat /\ count \in Nat /\ -1 \in Lists
    BY DevicesAssumption DEF Lists
  <2>6. GenericTypes'
    BY <2>1, <2>3, <2>4, <2>5 DEF GenericTypes
  <2>7. SenseKept'
    BY <2>1, <2>3 DEF SenseKept
  <2>8. HeaderKept'
    BY <2>1 DEF HeaderKept
  <2>9. QED
    BY <2>6, <2>7, <2>8
<1>2. ASSUME NEW op \in G!Writes, NEW start_ \in GenericStarts, NEW count \in GenericCounts,
             G!WriteBlocks(op, start_, count)
      PROVE  GenericTypes' /\ SenseKept' /\ HeaderKept'
  <2>1. /\ gen_phase = "FREE" /\ number' = number + 1 /\ was' = real
        /\ asked' = [op |-> "WRITE", six |-> (op = "WRITE_6"), start |-> start_, count |-> count, list |-> -1]
        /\ sense' = 0 /\ UNCHANGED <<formatted, broken, format_header, real>>
        /\ local_cdb' = [op |-> G!Long(op), start |-> start_, count |-> count]
        /\ failed' = 0 /\ deferred_sense' = 0 /\ gen_status' = "GOOD"
        /\ gen_phase' \in {"FREE", "DATA_OUT"}
    BY <1>2, BeginsGeneric DEF G!WriteBlocks, G!Works
  <2>2. start_ \in Nat /\ count \in Nat /\ -1 \in Lists
    BY DevicesAssumption DEF Lists
  <2>3. GenericTypes'
    BY <2>1, <2>2 DEF GenericTypes
  <2>4. SenseKept'
    BY <2>1 DEF SenseKept
  <2>5. HeaderKept'
    BY <2>1 DEF HeaderKept
  <2>6. QED
    BY <2>3, <2>4, <2>5
<1>3. ASSUME NEW list \in Lists, G!FormatUnit(list)
      PROVE  GenericTypes' /\ SenseKept' /\ HeaderKept'
  <2>1. /\ gen_phase = "FREE" /\ number' = number + 1 /\ was' = real
        /\ asked' = [op |-> "FORMAT_UNIT", six |-> TRUE, start |-> 0, count |-> 0, list |-> list]
        /\ sense' = 0 /\ UNCHANGED <<formatted, broken, format_header, real>>
        /\ local_cdb' = [op |-> "FORMAT_UNIT", start |-> 0, count |-> 0]
        /\ failed' = 0 /\ deferred_sense' = 0 /\ gen_status' = "GOOD" /\ gen_phase' = "DATA_OUT"
    <3>1. G!Begin("FORMAT_UNIT", TRUE, 0, 0, list)
      BY <1>3 DEF G!FormatUnit
    <3>2. /\ gen_phase = "FREE" /\ number' = number + 1 /\ was' = real
          /\ asked' = [op |-> "FORMAT_UNIT", six |-> TRUE, start |-> 0, count |-> 0, list |-> list]
          /\ sense' = 0 /\ UNCHANGED <<formatted, broken>>
      BY <3>1 DEF G!Begin
    <3>3. /\ UNCHANGED <<format_header, real>> /\ gen_phase' = "DATA_OUT"
          /\ local_cdb' = [op |-> "FORMAT_UNIT", start |-> 0, count |-> 0]
      BY <1>3 DEF G!FormatUnit
    <3>4. failed' = 0 /\ deferred_sense' = 0 /\ gen_status' = "GOOD"
      BY <1>3 DEF G!FormatUnit, G!Works
    <3>5. QED
      BY <3>2, <3>3, <3>4
  <2>2. GenericTypes'
    BY <2>1 DEF GenericTypes
  <2>3. SenseKept'
    BY <2>1 DEF SenseKept
  <2>4. HeaderKept'
    BY <2>1 DEF HeaderKept
  <2>5. QED
    BY <2>2, <2>3, <2>4
<1>4. ASSUME NEW op \in {"READ_CAPACITY", "REQUEST_SENSE", "TEST_UNIT_READY"},
             G!Begin(op, FALSE, 0, 0, -1),
             UNCHANGED <<format_header, local_cdb, real>>, gen_phase' = "FREE",
             \/ failed' = deferred_sense' /\ (op = "REQUEST_SENSE" => deferred_sense = 0)
             \/ /\ op = "REQUEST_SENSE" /\ deferred_sense # 0 /\ deferred_sense' = 0
                /\ UNCHANGED failed
      PROVE  GenericTypes' /\ SenseKept' /\ HeaderKept'
  <2>1. /\ gen_phase = "FREE" /\ number' = number + 1 /\ was' = real
        /\ asked' = [op |-> op, six |-> FALSE, start |-> 0, count |-> 0, list |-> -1]
        /\ sense' = IF op = "REQUEST_SENSE" THEN deferred_sense ELSE 0
        /\ UNCHANGED <<formatted, broken, format_header, local_cdb>>
    BY <1>4 DEF G!Begin
  <2>2. GenericTypes'
    BY <1>4, <2>1 DEF GenericTypes, Lists
  <2>3. SenseKept'
    BY <1>4, <2>1 DEF SenseKept
  <2>4. HeaderKept'
    BY <1>4, <2>1 DEF HeaderKept
  <2>5. QED
    BY <2>2, <2>3, <2>4
<1>5. CASE G!ReadCapacity
  <2>1. /\ G!Begin("READ_CAPACITY", FALSE, 0, 0, -1) /\ UNCHANGED <<format_header, local_cdb, real>>
        /\ gen_phase' = "FREE" /\ failed' = deferred_sense'
    BY <1>5 DEF G!ReadCapacity, G!Works, G!Fails, G!pieces
  <2>2. QED
    BY <1>4, <2>1
<1>6. CASE G!RequestSense
  <2>1. /\ G!Begin("REQUEST_SENSE", FALSE, 0, 0, -1) /\ UNCHANGED <<format_header, local_cdb, real>>
        /\ gen_phase' = "FREE"
        /\ \/ failed' = deferred_sense' /\ deferred_sense = 0
           \/ deferred_sense # 0 /\ deferred_sense' = 0 /\ UNCHANGED failed
    BY <1>6 DEF G!RequestSense, G!Works, G!Fails, G!pieces
  <2>2. QED
    BY <1>4, <2>1
<1>7. CASE G!TestUnitReady
  <2>1. /\ G!Begin("TEST_UNIT_READY", FALSE, 0, 0, -1) /\ UNCHANGED <<format_header, local_cdb, real>>
        /\ gen_phase' = "FREE" /\ failed' = deferred_sense'
    BY <1>7 DEF G!TestUnitReady, G!Works, G!Fails, G!pieces
  <2>2. QED
    BY <1>4, <2>1
<1>8. CASE G!Send
  <2>1. /\ gen_phase = "DATA_IN" /\ UNCHANGED <<asked, was, sense, formatted, broken, number>>
    BY <1>8 DEF G!Send, G!notes
  <2>2. \/ gen_phase' = "FREE" /\ UNCHANGED <<G!pieces, real, gen_status, deferred_sense, failed>>
        \/ /\ \E n, m : G!ReadPiece(local_cdb, n, m)
           /\ gen_status' = "GOOD" => gen_phase' = "DATA_IN"
           /\ UNCHANGED <<byte_count, format_header>>
    BY <1>8 DEF G!Send
  <2>3. /\ UNCHANGED <<real, byte_count, format_header>>
        /\ local_cdb' = [op |-> local_cdb'.op, start |-> local_cdb'.start, count |-> local_cdb'.count]
        /\ failed' = deferred_sense' \/ UNCHANGED <<failed, deferred_sense>>
        /\ \/ gen_phase' = "DATA_IN" /\ gen_status' = "GOOD"
           \/ gen_phase' = "FREE"
    <3>1. CASE gen_phase' = "FREE" /\ UNCHANGED <<G!pieces, real, gen_status, deferred_sense, failed>>
      BY <3>1 DEF G!pieces, GenericTypes
    <3>2. ASSUME NEW n, NEW m, G!ReadPiece(local_cdb, n, m),
                 gen_status' = "GOOD" => gen_phase' = "DATA_IN", UNCHANGED <<byte_count, format_header>>
          PROVE  /\ UNCHANGED <<real, byte_count, format_header>>
                 /\ local_cdb' = [op |-> local_cdb'.op, start |-> local_cdb'.start, count |-> local_cdb'.count]
                 /\ failed' = deferred_sense'
                 /\ \/ gen_phase' = "DATA_IN" /\ gen_status' = "GOOD"
                    \/ gen_phase' = "FREE"
      BY <3>2, ReadPieceKeeps DEF GenericTypes
    <3>3. QED
      BY <2>2, <3>1, <3>2
  <2>4. GenericTypes'
    BY <2>1, <2>3 DEF GenericTypes
  <2>5. SenseKept'
    BY <2>1, <2>3 DEF SenseKept, GenericTypes
  <2>6. HeaderKept'
    BY <2>1, <2>3 DEF HeaderKept, GenericTypes
  <2>7. QED
    BY <2>4, <2>5, <2>6
<1>9. CASE G!ReceiveBlocks
  <2>1. /\ gen_phase = "DATA_OUT" /\ asked.op = "WRITE" /\ UNCHANGED <<byte_count, format_header>>
        /\ UNCHANGED <<asked, was, sense, formatted, broken, number>>
    BY <1>9 DEF G!ReceiveBlocks, G!notes
  <2>2. PICK n : LET c == G!SetBlockCount(local_cdb, n) IN
          \/ /\ G!Works /\ real' = [real EXCEPT !.content = G!Stored(c, put)]
             /\ local_cdb' = [c EXCEPT !.start = @ + c.count]
             /\ gen_phase' \in {"FREE", "DATA_OUT"}
          \/ G!Fails /\ local_cdb' = c
    BY <1>9 DEF G!ReceiveBlocks, G!Continue
  <2>3. local_cdb' = [op |-> local_cdb'.op, start |-> local_cdb'.start, count |-> local_cdb'.count]
    <3> DEFINE c == G!SetBlockCount(local_cdb, n)
               q == [c EXCEPT !.start = @ + c.count]
    <3>1. /\ c = [op |-> c.op, start |-> c.start, count |-> c.count]
          /\ q = [op |-> q.op, start |-> q.start, count |-> q.count]
      BY CdbOfPiece DEF GenericTypes
    <3>2. local_cdb' \in {c, q}
      BY <2>2
    <3> HIDE DEF c, q
    <3>3. QED
      BY <3>1, <3>2
  <2>4. /\ failed' = deferred_sense'
        /\ \/ gen_phase' = "FREE"
           \/ gen_phase' = "DATA_OUT" /\ gen_status' = "GOOD"
    BY <2>2 DEF G!Works, G!Fails
  <2>5. /\ real'.size = real.size /\ real' = [size |-> real'.size, content |-> real'.content]
        /\ real'.content = [b \in 0..RealBlocks - 1 |-> real'.content[b]]
    <3>1. PICK f : /\ DOMAIN f = DOMAIN real.content /\ f = [b \in DOMAIN real.content |-> f[b]]
                   /\ real' = [real EXCEPT !.content = f]
      <4>1. CASE UNCHANGED real
        <5>1. /\ DOMAIN real.content = DOMAIN real.content
              /\ real.content = [b \in DOMAIN real.content |-> real.content[b]]
              /\ real' = [real EXCEPT !.content = real.content]
          BY <4>1 DEF GenericTypes
        <5>2. QED
          BY <5>1
      <4>2. CASE ~UNCHANGED real
        <5>1. PICK c : real' = [real EXCEPT !.content = G!Stored(c, put)]
          BY <2>2, <4>2 DEF G!Fails
        <5>2. /\ DOMAIN G!Stored(c, put) = DOMAIN real.content
              /\ G!Stored(c, put) = [b \in DOMAIN real.content |-> G!Stored(c, put)[b]]
          BY DEF G!Stored
        <5> DEFINE f == G!Stored(c, put)
        <5> HIDE DEF f
        <5>3. /\ DOMAIN f = DOMAIN real.content /\ f = [b \in DOMAIN real.content |-> f[b]]
              /\ real' = [real EXCEPT !.content = f]
          BY <5>1, <5>2 DEF f
        <5>4. QED
          BY <5>3
      <4>3. QED
        BY <4>1, <4>2
    <3>2. DOMAIN real.content = 0..RealBlocks - 1
      BY DEF GenericTypes
    <3>3. real' = [size |-> real.size, content |-> f]
      BY <3>1 DEF GenericTypes
    <3>4. QED
      BY <3>1, <3>2, <3>3
  <2>6. GenericTypes'
    BY <2>1, <2>3, <2>4, <2>5 DEF GenericTypes
  <2>7. SenseKept'
    BY <2>1, <2>4 DEF SenseKept
  <2>8. HeaderKept'
    BY <2>1, <2>4 DEF HeaderKept
  <2>9. QED
    BY <2>6, <2>7, <2>8
<1>10. CASE G!ReceiveFormat
  <2>1. /\ gen_phase = "DATA_OUT" /\ asked.op = "FORMAT_UNIT"
        /\ UNCHANGED <<asked, was, sense, broken, number, local_cdb, real>>
    BY <1>10 DEF G!ReceiveFormat, G!Fails
  <2>2. CASE asked.list # -1 /\ format_header = 0
    <3>1. /\ format_header' = number /\ byte_count' = asked.list + HeaderLength
          /\ UNCHANGED <<deferred_sense, failed, gen_status, formatted>>
          /\ gen_phase' = IF byte_count' = 0 THEN "FREE" ELSE "DATA_OUT"
      BY <1>10, <2>2 DEF G!ReceiveFormat, G!Continue
    <3>2. gen_phase' = "DATA_OUT"
      <4>1. asked.list \in {0, 1} /\ HeaderLength \in Nat \ {0}
        BY <2>2, DevicesAssumption DEF GenericTypes, Lists
      <4>2. QED
        BY <3>1, <4>1
    <3>3. GenericTypes'
      BY <2>1, <3>1, <3>2 DEF GenericTypes
    <3>4. SenseKept'
      BY <2>1, <3>1 DEF SenseKept
    <3>5. HeaderKept'
      BY <2>1, <2>2, <3>1, <3>2 DEF HeaderKept
    <3>6. QED
      BY <3>3, <3>4, <3>5
  <2>3. CASE ~(asked.list # -1 /\ format_header = 0)
    <3>1. /\ format_header' = 0 /\ UNCHANGED byte_count /\ gen_phase' = "FREE"
          /\ failed' = deferred_sense'
          /\ \/ formatted' = [header |-> format_header, list |-> byte_count - HeaderLength]
             \/ gen_status' # "GOOD"
      BY <1>10, <2>3 DEF G!ReceiveFormat, G!Continue, G!Works, G!Fails
    <3>2. GenericTypes'
      BY <2>1, <3>1 DEF GenericTypes
    <3>3. SenseKept'
      BY <2>1, <3>1 DEF SenseKept
    <3>4. HeaderKept'
      <4>1. ASSUME ~broken, gen_status' = "GOOD", asked.list # -1
            PROVE  formatted' = [header |-> number, list |-> asked.list]
        <5>1. format_header = number /\ byte_count = asked.list + HeaderLength
          BY <2>3, <4>1 DEF HeaderKept
        <5>2. byte_count - HeaderLength = asked.list
          <6>1. asked.list \in Int /\ HeaderLength \in Int
            <7>1. HeaderLength \in Int
              BY DevicesAssumption
            <7>2. asked.list \in Lists
              BY DEF GenericTypes
            <7>3. \A l \in Lists : l \in Int
              BY DEF Lists
            <7>4. QED
              BY <7>1, <7>2, <7>3
          <6>2. QED
            BY <5>1, <6>1
        <5>3. QED
          BY <3>1, <4>1, <5>1, <5>2
      <4>2. QED
        BY <2>1, <3>1, <4>1 DEF HeaderKept
    <3>5. QED
      BY <3>2, <3>3, <3>4
  <2>4. QED
    BY <2>2, <2>3
<1>11. CASE G!BreakOff
  <2>1. /\ gen_phase # "FREE" /\ gen_phase' = "FREE" /\ gen_status' = "NONE"
        /\ broken' = (broken \/ asked.op = "FORMAT_UNIT")
        /\ UNCHANGED <<real, asked, was, sense, number, local_cdb, deferred_sense, failed, format_header>>
    BY <1>11 DEF G!BreakOff, G!pieces
  <2>2. GenericTypes'
    BY <2>1 DEF GenericTypes
  <2>3. SenseKept'
    BY <2>1 DEF SenseKept
  <2>4. HeaderKept'
    BY <2>1 DEF HeaderKept, GenericTypes
  <2>5. QED
    BY <2>2, <2>3, <2>4
<1>12. CASE G!Exchange
  <2>1. PICK d \in RealSizes :
          /\ real' = [size |-> d, content |-> [b \in DOMAIN real.content |-> [i \in 1..d |-> G!Unwritten(b, i)]]]
          /\ was' = real' /\ asked' = [asked EXCEPT !.op = "NONE"] /\ gen_phase = "FREE"
          /\ UNCHANGED <<deferred_sense, local_cdb, format_header, gen_phase, gen_status, failed, sense,
                         formatted, broken, number>>
    BY <1>12 DEF G!Exchange, G!pieces
  <2>2. DOMAIN real.content = 0..RealBlocks - 1 /\ d \in Nat \ {0}
    BY DevicesAssumption DEF GenericTypes
  <2>3. /\ real'.size = d /\ real' = [size |-> real'.size, content |-> real'.content]
        /\ real'.content = [b \in 0..RealBlocks - 1 |-> real'.content[b]]
    BY <2>1, <2>2
  <2>4. asked' = [op |-> "NONE", six |-> asked.six, start |-> asked.start, count |-> asked.count,
                  list |-> asked.list]
    BY <2>1 DEF GenericTypes
  <2>5. GenericTypes'
    BY <2>1, <2>2, <2>3, <2>4 DEF GenericTypes
  <2>6. SenseKept'
    BY <2>1, <2>4 DEF SenseKept
  <2>7. HeaderKept'
    BY <2>1, <2>4 DEF HeaderKept
  <2>8. QED
    BY <2>5, <2>6, <2>7
<1>13. QED
  BY <1>1, <1>2, <1>3, <1>5, <1>6, <1>7, <1>8, <1>9, <1>10, <1>11, <1>12 DEF G!Next

\* The lesser of two numbers of whole blocks, and what the driver takes at once.
LEMMA LeastBlocks ==
  ASSUME NEW d \in Nat \ {0}, NEW a \in Nat, NEW b \in Nat
  PROVE  /\ G!Least(a, b) \in 0..a /\ G!Least(a, b) \in 0..b
         /\ G!Least(Bytes(d, a), Bytes(d, b)) = Bytes(d, G!Least(a, b))
<1>1. /\ Bytes(d, a) \in Nat /\ Bytes(d, b) \in Nat /\ (a <= b => Bytes(d, a) <= Bytes(d, b))
      /\ (b < a => Bytes(d, b) + d <= Bytes(d, a))
  <2>1. Bytes(d, a) \in Nat /\ Bytes(d, b) \in Nat /\ (a <= b => Bytes(d, a) <= Bytes(d, b))
    BY BytesOfBlocks
  <2>2. b < a => Bytes(d, b) + d <= Bytes(d, a)
    BY BytesOfBlocks
  <2>3. QED
    BY <2>1, <2>2
<1>2. CASE a < b
  BY <1>1, <1>2 DEF G!Least
<1>3. CASE ~(a < b)
  BY <1>1, <1>3 DEF G!Least
<1>4. QED
  BY <1>2, <1>3

LEMMA DriverBlocks ==
  ASSUME NEW d \in Nat \ {0}, MAX_TRANSFER_LENGTH % d = 0
  PROVE  \E m \in Nat \ {0} : MAX_TRANSFER_LENGTH = Bytes(d, m)
<1>1. MAX_TRANSFER_LENGTH \in Nat \ {0}
  BY DevicesAssumption
<1> DEFINE m == MAX_TRANSFER_LENGTH \div d
<1>2. m \in Nat /\ MAX_TRANSFER_LENGTH = Bytes(d, m) + 0
  BY <1>1, BlockOfByte
<1> HIDE DEF m
<1>3. Bytes(d, m) \in Nat /\ Bytes(d, 0) = 0
  BY <1>2, BytesOfBlocks
<1>4. QED
  BY <1>1, <1>2, <1>3

\* A piece of l blocks is read whole, or it fails.
LEMMA ReadPieceOf ==
  ASSUME GenericTypes, generic_block_size = real.size,
         NEW c, c = [op |-> c.op, start |-> c.start, count |-> c.count], c.start \in Nat,
         NEW m \in Nat, NEW l \in 0..m, NEW size,
         G!Piece(Bytes(real.size, m), size) = Bytes(real.size, l),
         G!ReadPiece(c, Bytes(real.size, m), size)
  PROVE  \/ /\ gen_status' = "GOOD" /\ Len(data') = Bytes(real.size, l)
            /\ data' = [i \in 1..Bytes(real.size, l) |->
                          ByBytes(real.content, real.size)[Bytes(real.size, c.start) + i - 1]]
            /\ remaining_count' = Bytes(real.size, m - l) /\ local_cdb'.start = c.start + l
         \/ gen_phase' = "FREE" /\ gen_status' # "GOOD"
<1> DEFINE d == real.size
           n == Bytes(d, l)
           p == G!SetBlockCount(c, n)
           q == [p EXCEPT !.start = @ + p.count]
<1>1. d \in Nat \ {0} /\ l \in Nat /\ m - l \in Nat
  BY DEF GenericTypes
<1>2. n \in Nat /\ n \div d = l /\ Bytes(d, m - l) = Bytes(d, m) - n
  <2>1. n \in Nat /\ Bytes(d, m - l) = Bytes(d, m) - n
    BY <1>1, BytesOfBlocks
  <2>2. n \div d = l
    BY <1>1, BlockOfByte
  <2>3. QED
    BY <2>1, <2>2
<1>3. p.start = c.start /\ p.count = l /\ q.start = c.start + l
  <2> HIDE DEF n
  <2>1. p.start = c.start /\ p.count = n \div generic_block_size /\ q.start = p.start + p.count
    BY CdbOfPiece
  <2>2. n \div generic_block_size = l
    BY <1>2
  <2> HIDE DEF p, q
  <2>3. QED
    BY <2>1, <2>2
<1>4. G!Blocks(p, n) = [i \in 1..n |-> ByBytes(real.content, d)[Bytes(d, c.start) + i - 1]]
  <2>1. p.count * d = n
    BY <1>3 DEF Bytes
  <2>2. G!Least(n, n) = n
    BY DEF G!Least
  <2>3. ASSUME NEW i \in 1..n
        PROVE  real.content[p.start + (i - 1) \div d][1 + ((i - 1) % d)]
                 = ByBytes(real.content, d)[Bytes(d, c.start) + i - 1]
    <3> DEFINE j == i - 1
               b == Bytes(d, c.start)
    <3>1. j \in Nat /\ b \in Nat
      <4>1. b \in Nat
        BY <1>1, BytesOfBlocks
      <4>2. QED
        BY <1>2, <4>1
    <3>2. b + i - 1 = b + j /\ b + j \in Int
      BY <1>2, <3>1
    <3> HIDE DEF j
    <3>3. (b + j) \div d = c.start + (j \div d) /\ (b + j) % d = j % d
      BY <1>1, <3>1, BlockOfByte
    <3> HIDE DEF b
    <3>4. ByBytes(real.content, d)[b + j] = real.content[(b + j) \div d][1 + ((b + j) % d)]
      BY <3>2 DEF ByBytes
    <3>5. ByBytes(real.content, d)[b + j] = real.content[p.start + (j \div d)][1 + (j % d)]
      BY <1>3, <3>3, <3>4
    <3>6. QED
      BY <3>2, <3>5 DEF b, j
  <2> HIDE DEF n, p, d
  <2>4. G!Blocks(p, n) = [i \in 1..n |-> real.content[p.start + (i - 1) \div d][1 + ((i - 1) % d)]]
    BY <2>1, <2>2 DEF G!Blocks, d
  <2>5. QED
    BY <2>3, <2>4
<1>5. \/ /\ G!Works /\ data' = G!Blocks(p, n) /\ remaining_count' = Bytes(d, m) - Len(data')
         /\ local_cdb' = q
      \/ G!Fails
  BY DEF G!ReadPiece
<1>6. data' = G!Blocks(p, n) => Len(data') = n
  BY <1>2, <1>4
<1> HIDE DEF n, p, q, d
<1>7. QED
  BY <1>2, <1>3, <1>4, <1>5, <1>6 DEF G!Works, G!Fails, d, n

\* READ ends, or begins with the first piece.
LEMMA ReadBegins ==
  ASSUME GenericTypes, NEW op \in G!Reads, NEW start_ \in Nat, NEW count \in Nat,
         G!ReadBlocks(op, start_, count), Whole'
  PROVE  BlocksMoving'
<1> DEFINE d == real.size
           c == [op |-> G!Long(op), start |-> start_, count |-> count]
           n == Bytes(d, count)
<1>1. /\ number' = number + 1 /\ got' = <<>> /\ put' = 0 /\ was' = real
      /\ asked'.op = "READ" /\ asked'.start = start_ /\ asked'.count = count
  BY BeginsGeneric DEF G!ReadBlocks
<1>2. UNCHANGED <<real, generic_block_size>>
  <2>1. PICK x, y : G!ReadPiece(c, x, y)
    BY DEF G!ReadBlocks
  <2>2. c = [op |-> c.op, start |-> c.start, count |-> c.count]
    OBVIOUS
  <2>3. QED
    BY <2>1, <2>2, ReadPieceKeeps
<1>3. generic_block_size = d /\ MAX_TRANSFER_LENGTH % d = 0 /\ d \in Nat \ {0}
  BY <1>2 DEF Whole, GenericTypes
<1>4. PICK m \in Nat \ {0} : MAX_TRANSFER_LENGTH = Bytes(d, m)
  BY <1>3, DriverBlocks
<1> DEFINE l == G!Least(count, m)
<1>5. l \in 0..count /\ l \in 0..m /\ G!Least(n, MAX_TRANSFER_LENGTH) = Bytes(d, l)
  <2> HIDE DEF d
  <2>1. /\ l \in 0..count /\ l \in 0..m
        /\ G!Least(Bytes(d, count), Bytes(d, m)) = Bytes(d, l)
    <3>1. d \in Nat \ {0}
      BY <1>3
    <3>2. QED
      BY <3>1, LeastBlocks
  <2>2. QED
    BY <1>4, <2>1
<1>6. l = 0 => count = 0
  BY <1>4 DEF G!Least
<1>7. count * generic_block_size = n
  BY <1>3 DEF Bytes
<1> HIDE DEF d, n
<1>8. /\ G!ReadPiece(c, n, G!Least(n, MAX_TRANSFER_LENGTH))
      /\ remaining' = n /\ chunk' = G!Least(n, MAX_TRANSFER_LENGTH)
      /\ gen_status' = "GOOD" =>
           current' = Len(data') /\ gen_phase' = IF data' = <<>> THEN "FREE" ELSE "DATA_IN"
  BY <1>7 DEF G!ReadBlocks, G!SetTransferSize
<1> HIDE DEF l
<1>9. n \in Nat /\ MAX_TRANSFER_LENGTH \in Nat /\ Bytes(d, l) \in Nat /\ Bytes(d, l) <= MAX_TRANSFER_LENGTH
  <2>1. l \in Nat
    BY <1>5
  <2>2. n \in Nat /\ Bytes(d, l) \in Nat
    BY <1>3, <2>1, BytesOfBlocks DEF n
  <2>3. MAX_TRANSFER_LENGTH \in Nat
    BY DevicesAssumption
  <2>4. G!Least(n, MAX_TRANSFER_LENGTH) <= MAX_TRANSFER_LENGTH
    BY <2>2, <2>3 DEF G!Least
  <2>5. QED
    BY <1>5, <2>2, <2>3, <2>4
<1>10. G!Piece(n, G!Least(n, MAX_TRANSFER_LENGTH)) = Bytes(d, l)
  BY <1>5, <1>9 DEF G!Piece, G!Least
<1>11. \/ /\ gen_status' = "GOOD" /\ Len(data') = Bytes(d, l)
          /\ data' = [i \in 1..Bytes(d, l) |-> ByBytes(real.content, d)[Bytes(d, start_) + i - 1]]
          /\ remaining_count' = Bytes(d, count - l) /\ local_cdb'.start = start_ + l
       \/ gen_phase' = "FREE" /\ gen_status' # "GOOD"
  <2>1. c = [op |-> c.op, start |-> c.start, count |-> c.count] /\ c.start = start_
    OBVIOUS
  <2> HIDE DEF c
  <2>2. QED
    BY <1>3, <1>5, <1>8, <1>10, <2>1, ReadPieceOf DEF d, n
<1>12. real'.size = d
  BY <1>2 DEF d
<1>13. BlocksRead(0)' /\ 0 \in 0..asked'.count
  <2>1. Bytes(d, 0) = 0
    BY <1>3, BytesOfBlocks
  <2>2. QED
    BY <1>1, <1>12, <2>1 DEF BlocksRead, BytesBefore
<1>14. CASE gen_phase' = "FREE"
  <2>1. gen_status' = "GOOD" => count = 0
    <3>1. ASSUME gen_status' = "GOOD"
          PROVE  l = 0
      <4>1. Len(data') = Bytes(d, l) /\ data' = <<>>
        BY <1>8, <1>11, <1>14, <3>1
      <4>2. Bytes(d, l) = 0
        BY <4>1
      <4>3. l = 0 \/ Bytes(d, 0) + d <= Bytes(d, l)
        BY <1>3, <1>5, BytesOfBlocks
      <4>4. QED
        BY <1>3, <4>2, <4>3, BytesOfBlocks
    <3>2. QED
      BY <1>6, <3>1
  <2>2. BlocksExact'
    BY <1>1, <1>13, <2>1 DEF BlocksExact
  <2>3. QED
    BY <1>14, <2>2 DEF BlocksMoving
<1>15. CASE gen_phase' # "FREE"
  <2>1. /\ gen_phase' = "DATA_IN" /\ current' = Bytes(d, l) /\ data' # <<>>
        /\ data' = [i \in 1..Bytes(d, l) |-> ByBytes(real.content, d)[Bytes(d, start_) + i - 1]]
        /\ remaining_count' = Bytes(d, count - l) /\ local_cdb'.start = start_ + l
    BY <1>8, <1>11, <1>15
  <2>2. l \in 1..count
    <3>1. l # 0
      <4>1. ASSUME l = 0
            PROVE  data' = <<>>
        <5>1. Bytes(d, 0) = 0
          BY <1>3, BytesOfBlocks
        <5>2. Bytes(d, l) = 0
          BY <4>1, <5>1
        <5>3. QED
          BY <2>1, <5>2
      <4>2. QED
        BY <2>1, <4>1
    <3>2. QED
      BY <1>5, <3>1
  <2>3. count - 0 = count /\ 0 + l = l /\ start_ + 0 = start_
    BY <2>2
  <2>4. PieceOf(l, asked.count - 0)'
    BY <1>1, <1>5, <1>8, <1>9, <1>12, <2>1, <2>2, <2>3 DEF PieceOf, n
  <2>5. data' = BytesBefore(asked.start + 0, Bytes(real.size, l))'
    BY <1>1, <1>12, <2>1, <2>3 DEF BytesBefore
  <2>6. PieceRead(0, l)'
    BY <1>1, <1>12, <1>13, <2>1, <2>2, <2>3, <2>4, <2>5 DEF PieceRead
  <2>7. l \in 0..asked'.count
    BY <1>1, <2>2
  <2>8. QED
    BY <1>13, <2>1, <2>6, <2>7 DEF BlocksMoving
<1>16. QED
  BY <1>14, <1>15

\* WRITE ends, or waits for the first piece.
LEMMA WriteBegins ==
  ASSUME GenericTypes, NEW op \in G!Writes, NEW start_ \in Nat, NEW count \in Nat,
         G!WriteBlocks(op, start_, count), Whole'
  PROVE  BlocksMoving'
<1> DEFINE d == real.size
           n == Bytes(d, count)
<1>1. /\ number' = number + 1 /\ put' = 0 /\ was' = real
      /\ asked'.op = "WRITE" /\ asked'.start = start_ /\ asked'.count = count
      /\ UNCHANGED <<real, generic_block_size>> /\ local_cdb'.start = start_
  BY BeginsGeneric DEF G!WriteBlocks
<1>2. generic_block_size = d /\ MAX_TRANSFER_LENGTH % d = 0 /\ d \in Nat \ {0} /\ real'.size = d
  BY <1>1 DEF Whole, GenericTypes
<1>3. count * generic_block_size = n
  BY <1>2 DEF Bytes
<1> HIDE DEF n
<1>4. /\ remaining' = n /\ remaining_count' = n /\ chunk' = G!Least(n, MAX_TRANSFER_LENGTH)
      /\ current' = chunk' /\ gen_phase' = IF n = 0 THEN "FREE" ELSE "DATA_OUT"
  BY <1>3 DEF G!WriteBlocks, G!SetTransferSize
<1> HIDE DEF d
<1>5. PICK m \in Nat \ {0} : MAX_TRANSFER_LENGTH = Bytes(d, m)
  BY <1>2, DriverBlocks
<1> DEFINE l == G!Least(count, m)
<1>6. l \in 0..count /\ chunk' = Bytes(d, l)
  <2>1. /\ l \in 0..count /\ l \in 0..m
        /\ G!Least(Bytes(d, count), Bytes(d, m)) = Bytes(d, l)
    <3>1. d \in Nat \ {0}
      BY <1>2
    <3>2. QED
      BY <3>1, LeastBlocks
  <2>2. QED
    BY <1>4, <1>5, <2>1 DEF n
<1>7. l = 0 => count = 0
  BY <1>5 DEF G!Least
<1> HIDE DEF l
<1>8. n \in Nat /\ MAX_TRANSFER_LENGTH \in Nat /\ Bytes(d, 0) = 0
  BY <1>2, BytesOfBlocks, DevicesAssumption DEF n
<1>9. chunk' <= MAX_TRANSFER_LENGTH
  BY <1>4, <1>8 DEF G!Least
<1>10. BlocksWritten(0)' /\ 0 \in 0..asked'.count
  <2>1. \A b \in 0..RealBlocks - 1 : ~(start_ <= b /\ b < start_ + 0)
    OBVIOUS
  <2>2. QED
    BY <1>1, <2>1 DEF BlocksWritten
<1>11. CASE n = 0
  <2>1. count = 0
    <3>1. Bytes(d, 0) + d <= Bytes(d, count) \/ count = 0
      BY <1>2, BytesOfBlocks
    <3>2. QED
      BY <1>2, <1>8, <1>11, <3>1 DEF n
  <2>2. BlocksExact'
    BY <1>1, <1>2, <1>8, <1>10, <2>1 DEF BlocksExact
  <2>3. QED
    BY <1>4, <1>11, <2>2 DEF BlocksMoving
<1>12. CASE n # 0
  <2>1. l \in 1..count
    BY <1>6, <1>7, <1>8, <1>12 DEF n
  <2>2. count - 0 = count /\ start_ + 0 = start_
    OBVIOUS
  <2>3. PieceOf(l, asked.count - 0)'
    BY <1>1, <1>2, <1>4, <1>6, <1>9, <2>1, <2>2 DEF PieceOf, n
  <2>4. PieceWritten(0, l)'
    BY <1>1, <1>2, <1>4, <1>8, <1>10, <2>1, <2>2, <2>3 DEF PieceWritten
  <2>5. QED
    BY <1>1, <1>4, <1>10, <1>12, <2>1, <2>4 DEF BlocksMoving
<1>13. QED
  BY <1>11, <1>12

\* The lengths after a piece, and the next one.
LEMMA PieceMoved ==
  ASSUME GenericTypes, NEW k \in 0..asked.count, NEW l \in 0..asked.count,
         k + l <= asked.count, PieceOf(l, asked.count - k)
  PROVE  LET d == real.size
             r == asked.count - (k + l)
             rest_ == remaining - chunk
             next == G!Least(rest_, chunk)
         IN  /\ k + l \in 0..asked.count /\ r \in Nat /\ r = asked.count - k - l
             /\ Bytes(d, k) \in Nat /\ Bytes(d, l) \in Nat /\ Bytes(d, k + l) = Bytes(d, k) + Bytes(d, l)
             /\ rest_ = Bytes(d, r) /\ Bytes(d, r) \in Nat
             /\ next = Bytes(d, G!Least(r, l)) /\ G!Least(r, l) \in 0..r
             /\ next <= MAX_TRANSFER_LENGTH
             /\ rest_ = 0 => k + l = asked.count
             /\ rest_ # 0 => G!Least(r, l) \in 1..r
             /\ G!Piece(rest_, next) = next
             /\ G!Piece(remaining, G!Least(chunk, remaining)) = chunk
<1> DEFINE d == real.size
           count == asked.count
           r == count - (k + l)
           rest_ == remaining - chunk
           next == G!Least(rest_, chunk)
           j == G!Least(r, l)
<1>1. /\ d \in Nat \ {0} /\ count \in Nat /\ k \in Nat /\ l \in Nat \ {0} /\ r \in Nat
      /\ k + l \in 0..count /\ count - k \in Nat /\ l <= count - k /\ r = (count - k) - l
      /\ chunk = Bytes(d, l) /\ remaining = Bytes(d, count - k) /\ chunk <= MAX_TRANSFER_LENGTH
      /\ MAX_TRANSFER_LENGTH \in Nat
  <2>1. d \in Nat \ {0} /\ count \in Nat /\ MAX_TRANSFER_LENGTH \in Nat
    BY DevicesAssumption DEF GenericTypes
  <2>2. /\ l \in 1..count - k /\ k \in 0..count /\ k + l <= count
        /\ chunk = Bytes(d, l) /\ remaining = Bytes(d, count - k) /\ chunk <= MAX_TRANSFER_LENGTH
    BY DEF PieceOf
  <2> HIDE DEF count, d
  <2>3. QED
    BY <2>1, <2>2
<1> DEFINE e == count - k
<1> HIDE DEF d, count, e
<1>2. e \in Nat /\ l <= e /\ remaining = Bytes(d, e) /\ r = e - l
  BY <1>1 DEF e
<1>3. /\ Bytes(d, k) \in Nat /\ Bytes(d, l) \in Nat /\ Bytes(d, k + l) = Bytes(d, k) + Bytes(d, l)
      /\ Bytes(d, e) \in Nat /\ Bytes(d, l) <= Bytes(d, e) /\ Bytes(d, e - l) = Bytes(d, e) - Bytes(d, l)
  <2>1. Bytes(d, k) \in Nat /\ Bytes(d, l) \in Nat /\ Bytes(d, k + l) = Bytes(d, k) + Bytes(d, l)
    BY <1>1, BytesOfBlocks
  <2>2. Bytes(d, e) \in Nat /\ Bytes(d, l) <= Bytes(d, e)
    BY <1>1, <1>2, BytesOfBlocks
  <2>3. Bytes(d, e - l) = Bytes(d, e) - Bytes(d, l)
    BY <1>1, <1>2, BytesOfBlocks
  <2>4. QED
    BY <2>1, <2>2, <2>3
<1>4. rest_ = Bytes(d, r) /\ Bytes(d, r) \in Nat
  <2>1. rest_ = Bytes(d, r)
    BY <1>1, <1>2, <1>3
  <2> HIDE DEF r
  <2>2. Bytes(d, r) \in Nat
    BY <1>1, BytesOfBlocks
  <2>3. QED
    BY <2>1, <2>2
<1> HIDE DEF r
<1>5. j \in 0..r /\ next = Bytes(d, j)
  <2>1. G!Least(r, l) \in 0..r /\ G!Least(Bytes(d, r), Bytes(d, l)) = Bytes(d, G!Least(r, l))
    BY <1>1, LeastBlocks
  <2>2. QED
    BY <1>1, <1>4, <2>1
<1>6. r # 0 => j \in 1..r
  BY <1>1, <1>5 DEF G!Least
<1> HIDE DEF j, rest_
<1>7. rest_ = 0 => r = 0
  <2>1. r = 0 \/ Bytes(d, 0) + d <= Bytes(d, r)
    BY <1>1, BytesOfBlocks
  <2>2. Bytes(d, 0) = 0
    BY <1>1, BytesOfBlocks
  <2>3. QED
    BY <1>1, <1>4, <2>1, <2>2
<1>8. rest_ = 0 => k + l = count
  <2>1. r = count - (k + l)
    BY DEF r
  <2>2. QED
    BY <1>1, <1>7, <2>1
<1>9. r = 0 => rest_ = 0
  BY <1>1, <1>4, BytesOfBlocks
<1>10. /\ next <= MAX_TRANSFER_LENGTH /\ G!Piece(rest_, next) = next
       /\ G!Piece(remaining, G!Least(chunk, remaining)) = chunk
  BY <1>1, <1>2, <1>3, <1>4 DEF G!Piece, G!Least
<1> HIDE DEF next
<1>11. QED
  <2>1. r = asked.count - (k + l) /\ r = asked.count - k - l
    BY <1>2 DEF r, e, count
  <2>2. rest_ = remaining - chunk
    BY DEF rest_
  <2>3. next = G!Least(remaining - chunk, chunk) /\ j = G!Least(r, l)
    BY DEF next, rest_, j
  <2>4. d = real.size /\ count = asked.count
    BY DEF d, count
  <2>5. rest_ # 0 => j \in 1..r
    BY <1>6, <1>9
  <2>6. QED
    BY <1>1, <1>3, <1>4, <1>5, <1>8, <1>10, <2>1, <2>2, <2>3, <2>4, <2>5

\* A piece reaches the host, and the next one is read.
LEMMA SendPiece ==
  ASSUME GenericTypes, Whole, BlocksMoving, G!Send
  PROVE  BlocksMoving'
<1> DEFINE d == real.size
           rest_ == remaining - chunk
           next == G!Least(rest_, chunk)
<1>1. /\ gen_phase = "DATA_IN" /\ UNCHANGED <<asked, was, number>>
      /\ got' = got \o [i \in 1..current |-> IF i <= Len(data) THEN data[i] ELSE G!STALE]
      /\ remaining' = rest_ /\ chunk' = next
      /\ \/ rest_ = 0 /\ gen_phase' = "FREE" /\ UNCHANGED real
         \/ /\ rest_ # 0 /\ G!ReadPiece(local_cdb, remaining_count, next)
            /\ current' = next /\ (gen_status' = "GOOD" => gen_phase' = "DATA_IN")
  BY DEF G!Send, G!notes
<1>2. asked.op = "READ" /\ real = was /\ d \in Nat \ {0} /\ asked.start \in Nat /\ asked.count \in Nat
      /\ local_cdb = [op |-> local_cdb.op, start |-> local_cdb.start, count |-> local_cdb.count]
      /\ generic_block_size = d
  BY <1>1 DEF GenericTypes, Whole
<1>3. UNCHANGED real
  BY <1>1, <1>2, ReadPieceKeeps
<1>4. PICK k \in 0..asked.count, l \in 0..asked.count : PieceRead(k, l)
  BY <1>1 DEF BlocksMoving
<1>5. /\ k + l <= asked.count /\ PieceOf(l, asked.count - k)
      /\ BlocksRead(k) /\ data = BytesBefore(asked.start + k, Bytes(d, l))
      /\ remaining_count = Bytes(d, asked.count - (k + l))
      /\ local_cdb.start = asked.start + (k + l) /\ current = Bytes(d, l) /\ k \in Nat /\ l \in Nat
  BY <1>2, <1>4 DEF PieceRead, PieceOf
<1> DEFINE r == asked.count - (k + l)
           j == G!Least(r, l)
<1>6. /\ k + l \in 0..asked.count /\ r \in Nat
      /\ Bytes(d, k) \in Nat /\ Bytes(d, l) \in Nat /\ Bytes(d, k + l) = Bytes(d, k) + Bytes(d, l)
      /\ rest_ = Bytes(d, r) /\ next = Bytes(d, j) /\ j \in 0..r /\ next <= MAX_TRANSFER_LENGTH
      /\ rest_ = 0 => k + l = asked.count
      /\ rest_ # 0 => j \in 1..r
      /\ G!Piece(rest_, next) = next
  BY <1>5, PieceMoved
<1> HIDE DEF d, next, rest_
<1>7. [i \in 1..current |-> IF i <= Len(data) THEN data[i] ELSE G!STALE] = data
  <2> DEFINE n == Bytes(d, l)
  <2> HIDE DEF n
  <2>1. n \in Nat /\ current = n /\ data = BytesBefore(asked.start + k, n)
    BY <1>5, <1>6 DEF n
  <2>2. Len(data) = n /\ data = [i \in 1..n |-> data[i]]
    BY <2>1 DEF BytesBefore
  <2> DEFINE w == [i \in 1..n |-> IF i <= Len(data) THEN data[i] ELSE G!STALE]
  <2>3. \A i \in 1..n : w[i] = data[i]
    BY <2>1, <2>2
  <2>4. w = [i \in 1..n |-> data[i]]
    BY <2>3
  <2>5. QED
    BY <2>1, <2>2, <2>4
<1>8. BlocksRead(k + l)'
  <2> DEFINE a == Bytes(d, asked.start)
             x == Bytes(d, k)
             y == Bytes(d, l)
             f == ByBytes(was.content, d)
  <2>1. a \in Nat /\ Bytes(d, asked.start + k) = a + x
    BY <1>2, <1>5, BytesOfBlocks
  <2>2. got = [i \in 1..x |-> f[a + i - 1]]
    BY <1>2, <1>5 DEF BlocksRead, BytesBefore, d
  <2>3. data = [i \in 1..y |-> f[a + x + i - 1]]
    BY <1>2, <1>5, <2>1 DEF BytesBefore, d
  <2> HIDE DEF a, x, y, f
  <2>4. x \in Nat /\ y \in Nat /\ a \in Int
    BY <1>6, <2>1 DEF x, y
  <2>5. got \o data = [i \in 1..x + y |-> f[a + i - 1]]
    BY <2>2, <2>3, <2>4, RowsJoin
  <2>6. got' = [i \in 1..Bytes(d, k + l) |-> f[a + i - 1]]
    BY <1>1, <1>6, <1>7, <2>5 DEF x, y
  <2>7. real'.size = d /\ was' = was /\ asked' = asked
    BY <1>1, <1>3 DEF d
  <2>8. QED
    BY <2>6, <2>7 DEF BlocksRead, BytesBefore, a, f
<1>9. CASE gen_phase' = "FREE"
  <2>1. gen_status' = "GOOD" => k + l = asked.count
    BY <1>1, <1>6, <1>9
  <2>2. BlocksExact'
    BY <1>1, <1>2, <1>6, <1>8, <2>1 DEF BlocksExact
  <2>3. QED
    BY <1>9, <2>2 DEF BlocksMoving
<1>10. CASE gen_phase' # "FREE"
  <2>1. rest_ # 0 /\ G!ReadPiece(local_cdb, rest_, next) /\ current' = next
    BY <1>1, <1>5, <1>6, <1>10
  <2> HIDE DEF r, j
  <2>2. j \in 0..r /\ r \in Nat /\ j \in 1..r
    BY <1>6, <2>1
  <2>3. PICK w : w = j /\ w \in 1..r /\ w \in 0..r
    BY <2>2
  <2> DEFINE b == asked.start + (k + l)
  <2>4. b \in Nat /\ local_cdb.start = b
    BY <1>2, <1>5
  <2>5. G!Piece(Bytes(d, r), next) = Bytes(d, w) /\ G!ReadPiece(local_cdb, Bytes(d, r), next)
    BY <1>6, <2>1, <2>3
  <2> HIDE DEF b
  <2>6. \/ /\ gen_status' = "GOOD" /\ Len(data') = Bytes(d, w)
           /\ data' = [i \in 1..Bytes(d, w) |-> ByBytes(real.content, d)[Bytes(d, local_cdb.start) + i - 1]]
           /\ remaining_count' = Bytes(d, r - w) /\ local_cdb'.start = local_cdb.start + w
        \/ gen_phase' = "FREE" /\ gen_status' # "GOOD"
    BY <1>2, <2>2, <2>3, <2>4, <2>5, ReadPieceOf DEF d
  <2>7. /\ gen_phase' = "DATA_IN"
        /\ data' = [i \in 1..Bytes(d, w) |-> ByBytes(was.content, d)[Bytes(d, b) + i - 1]]
        /\ remaining_count' = Bytes(d, r - w) /\ local_cdb'.start = b + w
    BY <1>1, <1>2, <1>10, <2>1, <2>4, <2>6
  <2>8. (k + l) + w <= asked.count /\ asked.count - (k + l) = r /\ asked.count - ((k + l) + w) = r - w
        /\ b + w = asked.start + ((k + l) + w) /\ w \in 0..asked.count
    BY <1>2, <1>5, <1>6, <2>3 DEF r, b
  <2>9. real'.size = d /\ was' = was /\ asked' = asked
    BY <1>1, <1>3 DEF d
  <2>10. PieceOf(w, asked.count - (k + l))'
    BY <1>1, <1>6, <2>1, <2>3, <2>8, <2>9 DEF PieceOf
  <2>11. data' = BytesBefore(asked.start + (k + l), Bytes(real.size, w))'
    BY <2>7, <2>9 DEF BytesBefore, b
  <2>12. PieceRead(k + l, w)'
    BY <1>8, <2>7, <2>8, <2>9, <2>10, <2>11 DEF PieceRead
  <2>13. \E x, y \in 0..asked'.count : PieceRead(x, y)'
    BY <1>6, <2>8, <2>9, <2>12
  <2>14. QED
    BY <2>7, <2>13 DEF BlocksMoving
<1>11. QED
  BY <1>9, <1>10

\* A piece comes from the host and is written.
LEMMA ReceivePiece ==
  ASSUME GenericTypes, Whole, BlocksMoving, G!ReceiveBlocks
  PROVE  BlocksMoving'
<1> DEFINE d == real.size
           length == G!Piece(remaining_count, G!Least(chunk, remaining))
           c == G!SetBlockCount(local_cdb, length)
           q == [c EXCEPT !.start = @ + c.count]
           taken == c.count * d
           rest_ == remaining - chunk
           next == G!Least(rest_, chunk)
<1>1. /\ gen_phase = "DATA_OUT" /\ asked.op = "WRITE" /\ UNCHANGED <<asked, was, number>>
      /\ put' = put + current
      /\ \/ /\ gen_status' = "GOOD" /\ real' = [real EXCEPT !.content = G!Stored(c, put)]
            /\ remaining_count' = remaining_count - taken /\ local_cdb' = q
            /\ G!Continue(remaining - taken, chunk)
         \/ gen_phase' = "FREE" /\ gen_status' # "GOOD" /\ UNCHANGED real
  BY DEF G!ReceiveBlocks, G!notes, G!Works, G!Fails
<1>2. /\ d \in Nat \ {0} /\ asked.start \in Nat /\ asked.count \in Nat /\ generic_block_size = d
      /\ local_cdb = [op |-> local_cdb.op, start |-> local_cdb.start, count |-> local_cdb.count]
      /\ real = [size |-> d, content |-> real.content] /\ DOMAIN real.content = 0..RealBlocks - 1
  BY DEF GenericTypes, Whole
<1>3. PICK k \in 0..asked.count, l \in 0..asked.count : PieceWritten(k, l)
  BY <1>1 DEF BlocksMoving
<1>4. /\ k + l <= asked.count /\ PieceOf(l, asked.count - k) /\ BlocksWritten(k)
      /\ put = Bytes(d, k) /\ remaining_count = remaining /\ local_cdb.start = asked.start + k
      /\ current = Bytes(d, l) /\ chunk = Bytes(d, l) /\ k \in Nat /\ l \in Nat
  BY <1>2, <1>3 DEF PieceWritten, PieceOf
<1> DEFINE r == asked.count - (k + l)
           j == G!Least(r, l)
<1>5. /\ k + l \in 0..asked.count /\ r \in Nat
      /\ Bytes(d, k) \in Nat /\ Bytes(d, l) \in Nat /\ Bytes(d, k + l) = Bytes(d, k) + Bytes(d, l)
      /\ rest_ = Bytes(d, r) /\ Bytes(d, r) \in Nat
      /\ next = Bytes(d, j) /\ j \in 0..r /\ next <= MAX_TRANSFER_LENGTH
      /\ rest_ = 0 => k + l = asked.count
      /\ rest_ # 0 => j \in 1..r
      /\ G!Piece(remaining, G!Least(chunk, remaining)) = chunk
  BY <1>4, PieceMoved
<1>6. length = Bytes(d, l)
  BY <1>4, <1>5
<1>7. c.start = asked.start + k /\ c.count = l /\ q.start = (asked.start + k) + l
  <2> HIDE DEF length
  <2>1. c.start = local_cdb.start /\ c.count = length \div generic_block_size /\ q.start = c.start + c.count
    BY <1>2, CdbOfPiece
  <2> HIDE DEF d
  <2>2. Bytes(d, l) \div d = l
    BY <1>2, <1>4, BlockOfByte
  <2> HIDE DEF c, q
  <2>3. QED
    BY <1>2, <1>4, <1>6, <2>1, <2>2
<1> HIDE DEF length, c, q, d, rest_, next, j
<1>8. taken = Bytes(d, l) /\ remaining - taken = rest_
  <2>1. taken = Bytes(d, l)
    BY <1>7 DEF Bytes
  <2>2. QED
    BY <1>4, <2>1 DEF rest_
<1> HIDE DEF taken
<1>9. put' = Bytes(d, k + l)
  BY <1>1, <1>4, <1>5
<1>10. CASE gen_status' # "GOOD"
  <2>1. gen_phase' = "FREE" /\ UNCHANGED real
    BY <1>1, <1>10
  <2>2. BlocksWritten(k)' /\ Bytes(real'.size, k) <= put'
    <3>1. BlocksWritten(k)'
      BY <1>1, <1>4, <2>1 DEF BlocksWritten
    <3>2. Bytes(d, k) <= put'
      BY <1>5, <1>9
    <3>3. real'.size = d
      BY <2>1 DEF d
    <3>4. QED
      BY <3>1, <3>2, <3>3
  <2>3. BlocksExact'
    BY <1>1, <1>10, <2>2 DEF BlocksExact
  <2>4. QED
    BY <2>1, <2>3 DEF BlocksMoving
<1>11. CASE gen_status' = "GOOD"
  <2>1. /\ real' = [real EXCEPT !.content = G!Stored(c, put)] /\ remaining_count' = remaining - taken
        /\ local_cdb' = q /\ G!Continue(rest_, chunk)
    BY <1>1, <1>4, <1>8, <1>11
  <2>2. /\ remaining' = rest_ /\ remaining_count' = rest_ /\ chunk' = next /\ current' = next
        /\ gen_phase' = IF rest_ = 0 THEN "FREE" ELSE "DATA_OUT"
    BY <1>8, <2>1 DEF G!Continue, next
  <2>3. real' = [size |-> d, content |-> G!Stored(c, put)]
    BY <1>2, <2>1
  <2>4. real'.size = d /\ real'.content = G!Stored(c, put)
    BY <2>3
  <2>5. BlocksWritten(k + l)'
    <3>1. ASSUME NEW b \in 0..RealBlocks - 1, NEW i \in 1..d
          PROVE  G!Stored(c, put)[b][i] = IF asked.start <= b /\ b < asked.start + (k + l)
                                          THEN [by |-> number, n |-> Bytes(d, b - asked.start) + i]
                                          ELSE was.content[b][i]
      <4>1. real.content[b][i] = IF asked.start <= b /\ b < asked.start + k
                                 THEN [by |-> number, n |-> Bytes(d, b - asked.start) + i]
                                 ELSE was.content[b][i]
        BY <1>4, <3>1 DEF BlocksWritten, d
      <4>2. b \in DOMAIN real.content /\ b \in Int
        BY <1>2
      <4>3. CASE asked.start + k <= b /\ b < (asked.start + k) + l
        <5>1. G!Stored(c, put)[b][i] = [by |-> number, n |-> put + (b - (asked.start + k)) * d + i]
          BY <1>7, <4>2, <4>3 DEF G!Stored, d
        <5> DEFINE x == b - (asked.start + k)
        <5>2. x \in Nat /\ b - asked.start = k + x /\ asked.start <= b /\ b < asked.start + (k + l)
          BY <1>2, <1>4, <4>2, <4>3, SMTT(30)
        <5>3. (b - (asked.start + k)) * d = Bytes(d, x)
          BY DEF Bytes
        <5> HIDE DEF x
        <5>4. Bytes(d, k + x) = Bytes(d, k) + Bytes(d, x)
          BY <1>2, <1>4, <5>2, BytesOfBlocks
        <5>5. put + (b - (asked.start + k)) * d + i = Bytes(d, b - asked.start) + i
          BY <1>4, <5>2, <5>3, <5>4
        <5>6. QED
          BY <5>1, <5>2, <5>5
      <4>4. CASE ~(asked.start + k <= b /\ b < (asked.start + k) + l)
        <5>1. G!Stored(c, put)[b] = real.content[b]
          BY <1>7, <4>2, <4>4 DEF G!Stored, d
        <5>2. (asked.start <= b /\ b < asked.start + (k + l)) <=> (asked.start <= b /\ b < asked.start + k)
          BY <1>2, <1>4, <4>2, <4>4
        <5>3. QED
          BY <4>1, <5>1, <5>2
      <4>5. QED
        BY <4>3, <4>4
    <3>2. QED
      BY <1>1, <2>4, <3>1 DEF BlocksWritten
  <2>6. CASE rest_ = 0
    <3>1. BlocksExact'
      <4>1. Bytes(real'.size, k + l) <= put'
        BY <1>5, <1>9, <2>4
      <4>2. QED
        BY <1>1, <1>5, <2>5, <2>6, <4>1 DEF BlocksExact
    <3>2. QED
      BY <2>2, <2>6, <3>1 DEF BlocksMoving
  <2>7. CASE rest_ # 0
    <3>1. PICK w : w = j /\ w \in 1..r
      BY <1>5, <2>7
    <3>2. /\ (k + l) + w <= asked.count /\ asked.count - (k + l) = r /\ w \in 0..asked.count
          /\ (asked.start + k) + l = asked.start + (k + l)
      <4>1. asked.start \in Nat /\ asked.count \in Nat /\ k \in Nat /\ l \in Nat /\ w \in 1..r
            /\ r = asked.count - (k + l) /\ k + l <= asked.count
        BY <1>2, <1>4, <3>1
      <4> HIDE DEF r
      <4>2. QED
        BY <4>1
    <3> HIDE DEF r
    <3>3. UNCHANGED <<asked, was, number>> /\ real'.size = d
      BY <1>1, <2>4
    <3>4. PieceOf(w, asked.count - (k + l))'
      BY <1>5, <2>2, <3>1, <3>2, <3>3 DEF PieceOf
    <3>5. PieceWritten(k + l, w)'
      BY <1>7, <1>9, <2>1, <2>2, <2>5, <3>2, <3>3, <3>4 DEF PieceWritten
    <3>6. \E x, y \in 0..asked'.count : PieceWritten(x, y)'
      BY <1>5, <3>2, <3>3, <3>5
    <3>7. QED
      BY <2>2, <2>7, <3>6 DEF BlocksMoving
  <2>8. QED
    BY <2>6, <2>7
<1>12. QED
  BY <1>10, <1>11

\* Every step keeps the blocks.
LEMMA BlocksKept ==
  ASSUME GenericTypes, Whole => BlocksMoving, G!Next, GenericTypes', Whole'
  PROVE  BlocksMoving'
<1>1. ASSUME NEW op \in G!Reads, NEW start_ \in GenericStarts, NEW count \in GenericCounts,
             G!ReadBlocks(op, start_, count)
      PROVE  BlocksMoving'
  <2>1. start_ \in Nat /\ count \in Nat
    BY DevicesAssumption
  <2>2. QED
    BY <1>1, <2>1, ReadBegins
<1>2. ASSUME NEW op \in G!Writes, NEW start_ \in GenericStarts, NEW count \in GenericCounts,
             G!WriteBlocks(op, start_, count)
      PROVE  BlocksMoving'
  <2>1. start_ \in Nat /\ count \in Nat
    BY DevicesAssumption
  <2>2. QED
    BY <1>2, <2>1, WriteBegins
<1>3. ASSUME asked'.op \notin {"READ", "WRITE"}
      PROVE  BlocksMoving'
  BY <1>3 DEF BlocksMoving, BlocksExact, GenericTypes
<1>4. ASSUME NEW list \in Lists, G!FormatUnit(list)
      PROVE  BlocksMoving'
  BY <1>3, <1>4 DEF G!FormatUnit, G!Begin
<1>5. CASE G!ReadCapacity \/ G!RequestSense \/ G!TestUnitReady
  BY <1>3, <1>5 DEF G!ReadCapacity, G!RequestSense, G!TestUnitReady, G!Begin
<1>6. ASSUME UNCHANGED <<asked, real, generic_block_size>>, BlocksMoving => BlocksMoving'
      PROVE  BlocksMoving'
  BY <1>6 DEF Whole
<1>7. CASE G!Send
  <2>1. Whole
    <3>1. UNCHANGED <<asked, generic_block_size>> /\ real'.size = real.size
      <4>1. \/ UNCHANGED <<real, generic_block_size>>
            \/ \E n, m : G!ReadPiece(local_cdb, n, m)
        BY <1>7 DEF G!Send
      <4>2. UNCHANGED <<real, generic_block_size>>
        BY <4>1, ReadPieceKeeps DEF GenericTypes
      <4>3. QED
        BY <1>7, <4>2 DEF G!Send, G!notes
    <3>2. QED
      BY <3>1 DEF Whole
  <2>2. QED
    BY <1>7, <2>1, SendPiece
<1>8. CASE G!ReceiveBlocks
  <2>1. Whole
    <3>1. UNCHANGED <<asked, generic_block_size>>
      BY <1>8 DEF G!ReceiveBlocks, G!notes, G!Fails
    <3>2. real'.size = real.size
      <4>1. \/ \E f : real' = [real EXCEPT !.content = f]
            \/ UNCHANGED real
        BY <1>8 DEF G!ReceiveBlocks, G!Fails
      <4>2. real = [size |-> real.size, content |-> real.content]
        BY DEF GenericTypes
      <4>3. QED
        BY <4>1, <4>2
    <3>3. QED
      BY <3>1, <3>2 DEF Whole
  <2>2. QED
    BY <1>8, <2>1, ReceivePiece
<1>9. CASE G!ReceiveFormat
  <2>1. asked' = asked /\ asked.op = "FORMAT_UNIT"
    BY <1>9 DEF G!ReceiveFormat
  <2>2. QED
    BY <1>3, <2>1
<1>10. CASE G!BreakOff
  <2>1. /\ gen_phase # "FREE" /\ gen_phase' = "FREE" /\ gen_status' = "NONE"
        /\ UNCHANGED <<real, generic_block_size, got, put, asked, was, number>>
    BY <1>10 DEF G!BreakOff
  <2>2. BlocksMoving
    BY <2>1 DEF Whole
  <2>3. BlocksExact'
    <3>1. ASSUME NEW k \in 0..asked.count, NEW l \in 0..asked.count, PieceRead(k, l),
                 gen_phase = "DATA_IN"
          PROVE  BlocksExact'
      <4>1. BlocksRead(k)'
        BY <2>1, <3>1 DEF PieceRead, BlocksRead, BytesBefore
      <4>2. QED
        BY <2>1, <3>1, <4>1 DEF BlocksExact, GenericTypes
    <3>2. ASSUME NEW k \in 0..asked.count, NEW l \in 0..asked.count, PieceWritten(k, l),
                 asked.op = "WRITE"
          PROVE  BlocksExact'
      <4>1. BlocksWritten(k)' /\ put' = Bytes(real'.size, k)
        BY <2>1, <3>2 DEF PieceWritten, BlocksWritten
      <4>2. real'.size \in Nat \ {0} /\ k \in Nat
        BY DEF GenericTypes
      <4>3. Bytes(real'.size, k) \in Nat
        BY <4>2, BytesOfBlocks
      <4>4. Bytes(real'.size, k) <= put'
        BY <4>1, <4>3
      <4>5. QED
        BY <2>1, <3>2, <4>1, <4>4 DEF BlocksExact
    <3>3. CASE asked.op \notin {"READ", "WRITE"}
      BY <2>1, <3>3 DEF BlocksExact
    <3>4. QED
      BY <2>1, <2>2, <3>1, <3>2, <3>3 DEF BlocksMoving, GenericTypes
  <2>4. QED
    BY <2>1, <2>3 DEF BlocksMoving
<1>11. CASE G!Exchange
  <2>1. asked' = [asked EXCEPT !.op = "NONE"]
    BY <1>11 DEF G!Exchange
  <2>2. QED
    BY <1>3, <2>1 DEF GenericTypes
<1>12. QED
  BY <1>1, <1>2, <1>4, <1>5, <1>7, <1>8, <1>9, <1>10, <1>11 DEF G!Next

\* What the invariant says of blocks, said of bytes.
LEMMA BytesExact ==
  ASSUME GenericTypes, Whole, BlocksMoving
  PROVE  LET row == [i \in 1..asked.count * real.size |-> asked.start * real.size + i - 1]
             Unit(c, u) == c[u \div real.size][1 + (u % real.size)]
             good == gen_phase = "FREE" /\ gen_status = "GOOD"
         IN  /\ asked.op = "READ" =>
                  /\ Len(got) <= Len(row) /\ (good => Len(got) = Len(row))
                  /\ \A i \in 1..Len(got) : got[i] = Unit(was.content, row[i])
             /\ asked.op = "WRITE" =>
                  \E n \in 0..G!Least(put, Len(row)) :
                    /\ good => n = Len(row)
                    /\ \A u \in 0..RealBlocks * real.size - 1 :
                         Unit(real.content, u) = IF \E i \in 1..n : row[i] = u
                                                 THEN [by |-> number, n |-> u - row[1] + 1]
                                                 ELSE Unit(was.content, u)
<1> DEFINE d == real.size
           a == Bytes(d, asked.start)
           z == Bytes(d, asked.count)
           row == [i \in 1..asked.count * d |-> asked.start * d + i - 1]
           good == gen_phase = "FREE" /\ gen_status = "GOOD"
           Unit(c, u) == c[u \div d][1 + (u % d)]
<1>1. d \in Nat \ {0} /\ asked.count \in Nat /\ asked.start \in Nat
  BY DEF GenericTypes
<1> HIDE DEF d
<1>2. a \in Nat /\ z \in Nat
  BY <1>1, BytesOfBlocks
<1>3. row = [i \in 1..z |-> a + i - 1]
  BY DEF Bytes
<1> HIDE DEF a, z, row
<1>4. Len(row) = z /\ \A i \in 1..z : row[i] = a + i - 1
  BY <1>2, <1>3
<1>5. ASSUME NEW k \in 0..asked.count
      PROVE  /\ Bytes(d, k) \in Nat /\ Bytes(d, k) <= Bytes(d, asked.count)
             /\ Bytes(d, asked.start + k) = Bytes(d, asked.start) + Bytes(d, k)
  <2>1. k \in Nat /\ k <= asked.count
    BY <1>1
  <2>2. Bytes(d, k) \in Nat
    BY <1>1, <2>1, BytesOfBlocks
  <2>3. Bytes(d, k) <= Bytes(d, asked.count)
    BY <1>1, <2>1, BytesOfBlocks
  <2>4. d \in Nat \ {0} /\ k \in Nat
    BY <1>1, <2>1
  <2>5. \A e \in Nat : Bytes(d, e + k) = Bytes(d, e) + Bytes(d, k)
    BY <2>4, BytesOfBlocks
  <2>6. asked.start \in Nat
    BY <1>1
  <2>7. QED
    BY <2>2, <2>3, <2>5, <2>6
<1>6. BlocksExact
  <2>1. ASSUME gen_phase = "DATA_IN"
        PROVE  BlocksExact
    <3>1. PICK k \in 0..asked.count, l \in 0..asked.count : PieceRead(k, l)
      BY <2>1 DEF BlocksMoving
    <3>2. QED
      BY <2>1, <3>1 DEF BlocksExact, PieceRead, GenericTypes
  <2>2. ASSUME gen_phase = "DATA_OUT", asked.op = "WRITE"
        PROVE  BlocksExact
    <3>1. PICK k \in 0..asked.count, l \in 0..asked.count : PieceWritten(k, l)
      BY <2>2 DEF BlocksMoving
    <3>2. Bytes(d, k) \in Nat
      BY <1>1, BytesOfBlocks
    <3>3. put = Bytes(real.size, k) /\ Bytes(real.size, k) <= put
      BY <3>1, <3>2 DEF PieceWritten, d
    <3>4. QED
      BY <2>2, <3>1, <3>3 DEF BlocksExact, PieceWritten
  <2>3. CASE gen_phase = "DATA_OUT" /\ asked.op # "WRITE"
    BY <2>3 DEF BlocksExact, GenericTypes
  <2>4. QED
    BY <2>1, <2>2, <2>3 DEF BlocksMoving, GenericTypes
<1>7. ASSUME asked.op = "READ"
      PROVE  /\ Len(got) <= Len(row) /\ (good => Len(got) = Len(row))
             /\ \A i \in 1..Len(got) : got[i] = Unit(was.content, row[i])
  <2>1. PICK k \in 0..asked.count : BlocksRead(k) /\ (good => k = asked.count)
    BY <1>6, <1>7 DEF BlocksExact
  <2> DEFINE n == Bytes(d, k)
  <2>2. n \in Nat /\ n <= z /\ (k = asked.count => n = z)
    BY <1>5 DEF z
  <2>3. got = [i \in 1..n |-> ByBytes(was.content, d)[a + i - 1]]
    BY <2>1 DEF BlocksRead, BytesBefore, d, a
  <2> HIDE DEF n
  <2>4. Len(got) = n
    BY <2>2, <2>3
  <2>5. ASSUME NEW i \in 1..n
        PROVE  got[i] = Unit(was.content, row[i])
    <3>1. row[i] = a + i - 1 /\ a + i - 1 \in Int
      BY <1>2, <1>4, <2>2
    <3>2. got[i] = ByBytes(was.content, d)[row[i]]
      BY <2>3, <3>1
    <3>3. QED
      BY <3>1, <3>2 DEF ByBytes
  <2>6. QED
    BY <1>4, <2>1, <2>2, <2>4, <2>5
<1>8. ASSUME asked.op = "WRITE"
      PROVE  \E n \in 0..G!Least(put, Len(row)) :
               /\ good => n = Len(row)
               /\ \A u \in 0..RealBlocks * d - 1 :
                    Unit(real.content, u) = IF \E i \in 1..n : row[i] = u
                                            THEN [by |-> number, n |-> u - row[1] + 1]
                                            ELSE Unit(was.content, u)
  <2>1. PICK k \in 0..asked.count :
          BlocksWritten(k) /\ Bytes(real.size, k) <= put /\ (good => k = asked.count)
    BY <1>6, <1>8 DEF BlocksExact
  <2> DEFINE n == Bytes(d, k)
  <2>2. n \in Nat /\ n <= z /\ (k = asked.count => n = z) /\ n <= put
        /\ Bytes(d, asked.start + k) = a + n
    <3>1. n \in Nat /\ n <= z /\ (k = asked.count => n = z)
      BY <1>5 DEF z
    <3>2. Bytes(d, asked.start + k) = a + n
      BY <1>5 DEF a
    <3>3. n <= put
      BY <2>1 DEF d
    <3>4. QED
      BY <3>1, <3>2, <3>3
  <2>3. n \in 0..G!Least(put, Len(row))
    <3> HIDE DEF n
    <3>1. QED
      BY <1>4, <2>2 DEF G!Least
  <2>4. ASSUME NEW u \in 0..RealBlocks * d - 1
        PROVE  Unit(real.content, u) = IF \E i \in 1..n : row[i] = u
                                       THEN [by |-> number, n |-> u - row[1] + 1]
                                       ELSE Unit(was.content, u)
    <3> DEFINE b == u \div d
               x == u % d
    <3>1. u \in Nat /\ u < Bytes(d, RealBlocks) /\ RealBlocks \in Nat
      <4>1. RealBlocks * d \in Nat /\ RealBlocks \in Nat
        BY <1>1, DevicesAssumption
      <4>2. Bytes(d, RealBlocks) = RealBlocks * d
        BY DEF Bytes
      <4>3. QED
        BY <4>1, <4>2
    <3>2. b \in Nat /\ x \in 0..d - 1 /\ u = Bytes(d, b) + x
      BY <1>1, <3>1, BlockOfByte
    <3>3. b < RealBlocks
      BY <1>1, <3>1, BlockOfByte
    <3>4. u < a <=> b < asked.start
      BY <1>1, <3>1, BlockOfByte DEF a
    <3>5. u < Bytes(d, asked.start + k) <=> b < asked.start + k
      <4> DEFINE y == asked.start + k
      <4>1. y \in Nat
        BY <1>1
      <4> HIDE DEF y
      <4>2. u < Bytes(d, y) <=> b < y
        BY <1>1, <3>1, <4>1, BlockOfByte
      <4>3. QED
        BY <4>2 DEF y
    <3> HIDE DEF b, x
    <3>6. Unit(real.content, u) = real.content[b][1 + x] /\ Unit(was.content, u) = was.content[b][1 + x]
      BY DEF b, x
    <3> HIDE DEF n, Unit
    <3>7. b \in 0..RealBlocks - 1 /\ 1 + x \in 1..d
      BY <1>1, <3>1, <3>2, <3>3
    <3>8. real.content[b][1 + x] = IF asked.start <= b /\ b < asked.start + k
                                   THEN [by |-> number, n |-> Bytes(d, b - asked.start) + (1 + x)]
                                   ELSE was.content[b][1 + x]
      BY <2>1, <3>7 DEF BlocksWritten, d
    <3>9. (\E i \in 1..n : row[i] = u) <=> asked.start <= b /\ b < asked.start + k
      <4>1. (\E i \in 1..n : row[i] = u) <=> a <= u /\ u < a + n
        <5>1. ASSUME a <= u, u < a + n
              PROVE  \E i \in 1..n : row[i] = u
          <6>1. u - a + 1 \in 1..n /\ u - a + 1 \in 1..z
            BY <1>2, <2>2, <3>1, <5>1
          <6>2. row[u - a + 1] = a + (u - a + 1) - 1 /\ a + (u - a + 1) - 1 = u
            BY <1>2, <1>4, <3>1, <6>1
          <6>3. QED
            BY <6>1, <6>2
        <5>2. ASSUME NEW i \in 1..n, row[i] = u
              PROVE  a <= u /\ u < a + n
          <6>1. row[i] = a + i - 1
            BY <1>4, <2>2
          <6>2. QED
            BY <1>2, <2>2, <5>2, <6>1
        <5>3. QED
          BY <5>1, <5>2
      <4>2. QED
        BY <1>1, <1>2, <2>2, <3>1, <3>2, <3>4, <3>5, <4>1
    <3>10. ASSUME asked.start <= b, b < asked.start + k
           PROVE  Bytes(d, b - asked.start) + (1 + x) = u - row[1] + 1
      <4>1. Bytes(d, b - asked.start) = Bytes(d, b) - a
        <5>1. asked.start \in Nat /\ b \in Nat /\ asked.start <= b /\ d \in Nat \ {0}
          BY <1>1, <3>2, <3>10
        <5>2. Bytes(d, b - asked.start) = Bytes(d, b) - Bytes(d, asked.start)
          BY <5>1, BytesOfBlocks, ZenonT(30)
        <5>3. QED
          BY <5>2 DEF a
      <4>2. row[1] = a
        <5>1. ~(u < a) /\ u < a + n
          BY <1>1, <2>2, <3>2, <3>4, <3>5, <3>10
        <5>2. 1 \in 1..z
          BY <1>2, <2>2, <3>1, <5>1
        <5>3. QED
          BY <1>2, <1>4, <5>2
      <4>3. Bytes(d, b) \in Nat
        BY <1>1, <3>2, BytesOfBlocks
      <4>4. QED
        BY <1>2, <3>2, <4>1, <4>2, <4>3
    <3>11. CASE asked.start <= b /\ b < asked.start + k
      BY <3>6, <3>8, <3>9, <3>10, <3>11
    <3>12. CASE ~(asked.start <= b /\ b < asked.start + k)
      BY <3>6, <3>8, <3>9, <3>12
    <3>13. QED
      BY <3>11, <3>12
  <2>5. good => n = Len(row)
    BY <1>4, <2>1, <2>2
  <2> HIDE DEF n, Unit
  <2>6. QED
    BY <2>3, <2>4, <2>5
<1>9. QED
  BY <1>7, <1>8 DEF d, row

\* A part that does not run keeps its variables.
LEMMA OtherThanGeneric ==
  ASSUME [Next]_vars
  PROVE  \/ part = "GENERIC" /\ part' = part /\ G!Next
         \/ part # "GENERIC" /\ part' = part
         \/ part' = part /\ UNCHANGED generic_vars
BY DEF Next, vars, Transfer, Host, Spool, Net, Generic, Disk, TapeCopy, Simh, Exec, Mode, Config

\* The invariant of the SCSI generic device: it holds at the start, and every step keeps it.
LEMMA GenericInitially == Init => GenericInv
<1>1. ASSUME G!Init
      PROVE  GenericTypes /\ SenseKept /\ HeaderKept /\ BlocksMoving
  <2>1. PICK d \in RealSizes :
          real = [size |-> d, content |-> [b \in 0..RealBlocks - 1 |-> [i \in 1..d |-> G!Unwritten(b, i)]]]
    BY <1>1 DEF G!Init
  <2>2. /\ real.size \in Nat \ {0} /\ real = [size |-> real.size, content |-> real.content]
        /\ real.content = [b \in 0..RealBlocks - 1 |-> real.content[b]]
    BY <2>1, DevicesAssumption
  <2>3. /\ asked = [op |-> "NONE", six |-> FALSE, start |-> 0, count |-> 0, list |-> -1]
        /\ local_cdb = [op |-> "NONE", start |-> 0, count |-> 0] /\ was = real
        /\ gen_phase = "FREE" /\ number = 0 /\ deferred_sense = 0 /\ failed = 0 /\ sense = 0
        /\ format_header = 0
    BY <1>1 DEF G!Init
  <2>4. GenericTypes
    BY <2>2, <2>3 DEF GenericTypes, Lists
  <2>5. SenseKept /\ HeaderKept /\ BlocksMoving
    BY <2>3 DEF SenseKept, HeaderKept, BlocksMoving, BlocksExact
  <2>6. QED
    BY <2>4, <2>5
<1>2. QED
  BY <1>1 DEF Init, GenericInv

LEMMA GenericInvKept == GenericInv /\ [Next]_vars => GenericInv'
<1>1. ASSUME GenericInv, part = "GENERIC", part' = part, UNCHANGED generic_vars
      PROVE  GenericInv'
  <2>1. GenericTypes' /\ SenseKept' /\ HeaderKept' /\ (Whole' <=> Whole)
    BY <1>1 DEF GenericInv, GenericTypes, SenseKept, HeaderKept, Whole, generic_vars
  <2>2. ASSUME BlocksMoving
        PROVE  BlocksMoving'
    <3>1. /\ \A k : (BlocksRead(k) => BlocksRead(k)') /\ (BlocksWritten(k) => BlocksWritten(k)')
          /\ \A k, l : (PieceRead(k, l) => PieceRead(k, l)') /\ (PieceWritten(k, l) => PieceWritten(k, l)')
      BY <1>1
         DEF generic_vars, PieceRead, PieceWritten, PieceOf, BlocksRead, BlocksWritten,
             BytesBefore
    <3>2. BlocksExact => BlocksExact'
      BY <1>1, <3>1 DEF BlocksExact, generic_vars
    <3>3. QED
      BY <1>1, <2>2, <3>1, <3>2 DEF BlocksMoving, generic_vars
  <2>3. QED
    BY <1>1, <2>1, <2>2 DEF GenericInv
<1>2. ASSUME GenericInv, part = "GENERIC", part' = part, G!Next
      PROVE  GenericInv'
  <2>1. GenericTypes' /\ SenseKept' /\ HeaderKept'
    BY <1>2, GenericKeeps DEF GenericInv
  <2>2. Whole' => BlocksMoving'
    BY <1>2, <2>1, BlocksKept DEF GenericInv
  <2>3. QED
    BY <2>1, <2>2 DEF GenericInv
<1>3. QED
  BY <1>1, <1>2, OtherThanGeneric DEF GenericInv

\* A SCSI generic device reads and writes exactly the blocks a host names, however a transfer is cut
\* into pieces and wherever it fails, sends FORMAT UNIT with the header and the list of the host, and
\* returns the sense data of the command before (scsi_generic.cpp:61-281).
THEOREM GenericIsExact == Spec => []GenericExact
<1>1. Init => GenericInv
  BY GenericInitially
<1>2. GenericInv /\ [Next]_vars => GenericInv'
  BY GenericInvKept
<1>3. GenericInv => GenericExact
  <2>1. ASSUME GenericTypes, SenseKept, HeaderKept, Whole => BlocksMoving
        PROVE  G!GenericExact
    <3>1. asked.op # "WRITE" => real = was
      BY <2>1 DEF GenericTypes
    <3>2. asked.op = "FORMAT_UNIT" /\ gen_phase = "FREE" /\ gen_status = "GOOD" /\ asked.list # -1
            /\ ~broken => formatted = [header |-> number, list |-> asked.list]
      BY <2>1 DEF HeaderKept
    <3>3. /\ asked.op = "REQUEST_SENSE" /\ sense # 0 => sense = failed
          /\ asked.op \notin {"REQUEST_SENSE", "NONE"} /\ failed # 0 => deferred_sense = failed
      BY <2>1 DEF SenseKept
    <3>4. CASE Whole
      BY <2>1, <3>1, <3>2, <3>3, <3>4, BytesExact DEF G!GenericExact
    <3>5. CASE ~Whole
      BY <3>1, <3>2, <3>3, <3>5 DEF G!GenericExact, Whole
    <3>6. QED
      BY <3>4, <3>5
  <2>2. QED
    BY <2>1 DEF GenericInv, GenericExact
<1>4. QED
  BY <1>1, <1>2, <1>3, PTL DEF Spec

(* The types of all parts of MCDevices. *)

\* The bounds of the runs are numbers.
LEMMA MaxNumbers ==
  /\ MaxOperations \in Nat /\ MaxPrints \in Nat /\ MaxPackets \in Nat /\ MaxMessages \in Nat
  /\ MaxGeneric \in Nat /\ MaxCommands \in Nat
BY DevicesAssumption, WidthsAssumption

\* A command of a host has a number.
HostMembers == H!TypeOK /\ request.n \in 0..MaxOperations

\* Every step of host services keeps the types of its variables.
LEMMA HostMembersStep ==
  ASSUME HostTypes, HostMembers, H!Next
  PROVE  HostMembers'
<1> DEFINE R == [Initiators \cup {H!UNKNOWN_INITIATOR_ID} -> 0..MaxOperations]
           L == [H!Hosts -> 0..MaxOperations]
<1>1. /\ execution_results \in R /\ latest \in L
      /\ input_format \in H!Formats /\ scheduled \in {"NONE", "STOP_S2P", "STOP_PI", "RESTART_PI"}
      /\ host_phase \in {"FREE", "DATA_IN", "DATA_OUT", "STOPPED"}
      /\ host_status \in {"GOOD", "INVALID_FIELD", "DATA_CURRENTLY_UNAVAILABLE",
                          "INTERNAL_TARGET_FAILURE", "NONE"}
      /\ fetched \in 0..MaxOperations /\ operations \in 0..MaxOperations
      /\ request.n \in 0..MaxOperations /\ request.host \in H!Hosts /\ MaxOperations \in Nat
  BY MaxNumbers DEF HostMembers, H!TypeOK, HostTypes
<1>2. ASSUME /\ execution_results' \in R /\ latest' \in L
             /\ input_format' \in H!Formats
             /\ scheduled' \in {"NONE", "STOP_S2P", "STOP_PI", "RESTART_PI"}
             /\ host_phase' \in {"FREE", "DATA_IN", "DATA_OUT", "STOPPED"}
             /\ host_status' \in {"GOOD", "INVALID_FIELD", "DATA_CURRENTLY_UNAVAILABLE",
                                  "INTERNAL_TARGET_FAILURE", "NONE"}
             /\ fetched' \in 0..MaxOperations /\ operations' \in 0..MaxOperations
             /\ request'.n \in 0..MaxOperations
      PROVE  HostMembers'
  BY <1>2 DEF HostMembers, H!TypeOK
<1>3. 0 \in 0..MaxOperations
  BY <1>1
<1>4. ASSUME NEW n \in 0..MaxOperations, NEW h \in H!Hosts
      PROVE  /\ [execution_results EXCEPT ![H!Id(h)] = n] \in R /\ [latest EXCEPT ![h] = n] \in L
             /\ execution_results[H!Id(h)] \in 0..MaxOperations
  <2>1. H!Id(h) \in Initiators \cup {H!UNKNOWN_INITIATOR_ID}
    BY OwnIds
  <2>2. QED
    BY <1>1, <2>1
<1> HIDE DEF R, L
\* The command that begins.
<1>5. ASSUME NEW op, NEW h, NEW f, NEW n \in 0..MaxOperations, H!Asks(op, h, f, n)
      PROVE  request'.n \in 0..MaxOperations
  BY <1>5 DEF H!Asks
<1>6. ASSUME H!Begin
      PROVE  operations' \in 0..MaxOperations /\ fetched' \in 0..MaxOperations
  BY <1>1, <1>6 DEF H!Begin, H!None
<1>7. ASSUME NEW h \in H!Hosts, NEW s \in BOOLEAN, NEW l \in BOOLEAN, H!StartStopUnit(h, s, l)
      PROVE  HostMembers'
  <2>1. operations' \in 0..MaxOperations /\ fetched' \in 0..MaxOperations
    BY <1>6, <1>7 DEF H!StartStopUnit, H!Asks
  <2>2. request'.n \in 0..MaxOperations
    BY <1>5, <1>7, <2>1 DEF H!StartStopUnit
  <2>3. QED
    BY <1>1, <1>2, <1>7, <2>1, <2>2 DEF H!StartStopUnit, H!Reject
<1>8. ASSUME NEW h \in H!Hosts, NEW fs, NEW e \in BOOLEAN, H!ExecuteOperation(h, fs, e)
      PROVE  HostMembers'
  <2>1. operations' \in 0..MaxOperations /\ fetched' \in 0..MaxOperations
    BY <1>6, <1>8 DEF H!ExecuteOperation, H!Asks
  <2>2. request'.n \in 0..MaxOperations
    BY <1>5, <1>8, <2>1 DEF H!ExecuteOperation
  <2>3. /\ execution_results' = [execution_results EXCEPT ![H!Id(h)] = 0]
        /\ latest' = [latest EXCEPT ![h] = 0]
        /\ input_format' \in H!Formats /\ scheduled' = scheduled
        /\ host_phase' \in {"FREE", "DATA_OUT"} /\ host_status' \in {"INVALID_FIELD", "GOOD"}
    BY <1>1, <1>8 DEF H!ExecuteOperation, H!Reject, H!None
  <2>4. execution_results' \in R /\ latest' \in L
    BY <1>3, <1>4, <2>3
  <2>5. QED
    BY <1>1, <1>2, <2>1, <2>2, <2>3, <2>4
<1>9. ASSUME NEW h \in H!Hosts, NEW fs, H!ReceiveOperationResults(h, fs)
      PROVE  HostMembers'
  <2>1. operations' \in 0..MaxOperations /\ fetched' \in 0..MaxOperations
    BY <1>6, <1>9 DEF H!ReceiveOperationResults, H!Asks
  <2>2. execution_results[H!Id(h)] \in 0..MaxOperations
    BY <1>3, <1>4
  <2>3. request'.n \in 0..MaxOperations
    BY <1>5, <1>9, <2>2 DEF H!ReceiveOperationResults
  <2>4. /\ execution_results' \in {execution_results, [execution_results EXCEPT ![H!Id(h)] = 0]}
        /\ latest' = latest /\ input_format' = input_format /\ scheduled' = scheduled
        /\ host_phase' \in {"FREE", "DATA_IN"}
        /\ host_status' \in {"INVALID_FIELD", "DATA_CURRENTLY_UNAVAILABLE", "GOOD"}
    BY <1>9 DEF H!ReceiveOperationResults, H!Reject, H!None
  <2>5. execution_results' \in R
    BY <1>1, <1>3, <1>4, <2>4
  <2>6. QED
    BY <1>1, <1>2, <2>1, <2>3, <2>4, <2>5
<1>10. ASSUME NEW f, NEW d \in BOOLEAN, H!WriteData(f, d)
       PROVE  HostMembers'
  <2>1. /\ \/ /\ execution_results' = [execution_results EXCEPT ![H!Id(request.host)] = request.n]
              /\ latest' = [latest EXCEPT ![request.host] = request.n]
           \/ UNCHANGED <<execution_results, latest>>
        /\ host_phase' = "FREE" /\ host_status' \in {"GOOD", "INTERNAL_TARGET_FAILURE"}
        /\ UNCHANGED <<input_format, request, scheduled, fetched, operations>>
    BY <1>10 DEF H!WriteData, H!Reject
  <2>2. execution_results' \in R /\ latest' \in L
    BY <1>1, <1>4, <2>1
  <2>3. QED
    BY <1>1, <1>2, <2>1, <2>2
<1>11. CASE H!Deliver
  <2>1. latest' = [latest EXCEPT ![request.host] = 0]
    BY <1>11 DEF H!Deliver, H!None
  <2>2. latest' \in L
    BY <1>1, <1>3, <1>4, <2>1
  <2>3. QED
    BY <1>1, <1>2, <1>11, <2>2 DEF H!Deliver
<1>12. CASE H!BreakOff
  <2>1. latest' = [latest EXCEPT ![request.host] = 0]
    BY <1>12 DEF H!BreakOff, H!None
  <2>2. latest' \in L
    BY <1>1, <1>3, <1>4, <2>1
  <2>3. QED
    BY <1>1, <1>2, <1>12, <2>2 DEF H!BreakOff
<1>13. QED
  BY <1>7, <1>8, <1>9, <1>10, <1>11, <1>12 DEF H!Next

\* A file is known by the number of the command that made it.
PrinterMembers == P!TypeOK /\ (print_phase = "DATA_OUT" => print_number # 0)

\* Every step of the printer keeps the types of its variables.
LEMMA PrinterMembersStep ==
  ASSUME PrinterFiles, PrinterMembers, P!Next
  PROVE  PrinterMembers'
<1> DEFINE Statuses == {"GOOD", "INVALID_FIELD", "IO_PROCESS_TERMINATED", "NONE"}
<1>1. /\ DOMAIN files \subseteq 1..MaxPrints /\ filename \in 0..MaxPrints
      /\ is_open \in BOOLEAN /\ spoiled \in BOOLEAN
      /\ print_phase \in {"FREE", "DATA_OUT", "DETACHED"} /\ print_status \in Statuses
      /\ print_number \in 0..MaxPrints /\ MaxPrints \in Nat
      /\ print_phase = "DATA_OUT" => print_number # 0
  BY MaxNumbers DEF PrinterMembers, P!TypeOK
<1>2. ASSUME /\ DOMAIN files' \subseteq 1..MaxPrints /\ filename' \in 0..MaxPrints
             /\ is_open' \in BOOLEAN /\ spoiled' \in BOOLEAN
             /\ print_phase' \in {"FREE", "DATA_OUT", "DETACHED"} /\ print_status' \in Statuses
             /\ print_number' \in 0..MaxPrints
             /\ print_phase' = "DATA_OUT" => print_number' # 0
      PROVE  PrinterMembers'
  BY <1>2 DEF PrinterMembers, P!TypeOK
<1>3. ASSUME P!Begin
      PROVE  print_number' \in 0..MaxPrints /\ print_number' # 0
  BY <1>1, <1>3 DEF P!Begin
<1>4. ASSUME P!CleanUp
      PROVE  DOMAIN files' \subseteq 1..MaxPrints /\ filename' = 0 /\ is_open' = FALSE /\ spoiled' = FALSE
  BY <1>1, <1>4 DEF P!CleanUp, P!Without, P!NoFile
<1>5. ASSUME NEW l \in {"ZERO", "FITS", "TOO_LONG"}, P!PrintData(l)
      PROVE  PrinterMembers'
  BY <1>1, <1>2, <1>3, <1>5 DEF P!PrintData
<1>6. CASE P!WriteData
  <2>1. /\ print_phase' = "FREE" /\ print_number' = print_number /\ print_number \in 1..MaxPrints
    BY <1>1, <1>6 DEF P!WriteData
  <2>2. ASSUME NEW f \in 1..MaxPrints, NEW c, P!AppendChunk(f, c)
        PROVE  /\ DOMAIN files' \subseteq 1..MaxPrints /\ spoiled' \in BOOLEAN
               /\ print_status' \in {"GOOD", "IO_PROCESS_TERMINATED"}
    <3>1. DOMAIN files' = DOMAIN files \cup {f}
      BY <2>2 DEF P!AppendChunk
    <3>2. QED
      BY <1>1, <2>2, <3>1 DEF P!AppendChunk
  <2>3. CASE is_open /\ P!AppendChunk(filename, files[filename]) /\ UNCHANGED <<filename, is_open>>
    <3>1. filename \in 1..MaxPrints
      BY <1>1, <2>3 DEF PrinterFiles
    <3>2. /\ DOMAIN files' \subseteq 1..MaxPrints /\ spoiled' \in BOOLEAN
          /\ print_status' \in {"GOOD", "IO_PROCESS_TERMINATED"}
      BY <2>2, <2>3, <3>1
    <3>3. QED
      BY <1>1, <1>2, <2>1, <2>3, <3>2
  <2>4. CASE print_status' = "IO_PROCESS_TERMINATED" /\ UNCHANGED <<files, filename, is_open, spoiled>>
    BY <1>1, <1>2, <2>1, <2>4
  <2>5. CASE /\ filename' = print_number /\ print_status' = "IO_PROCESS_TERMINATED"
             /\ files' = [g \in DOMAIN files \cup {print_number} |->
                            IF g = print_number THEN <<>> ELSE files[g]]
             /\ UNCHANGED <<is_open, spoiled>>
    <3>1. DOMAIN files' = DOMAIN files \cup {print_number}
      BY <2>5
    <3>2. QED
      BY <1>1, <1>2, <2>1, <2>5, <3>1
  <2>6. CASE filename' = print_number /\ is_open' = TRUE /\ P!AppendChunk(print_number, <<>>)
    <3>1. /\ DOMAIN files' \subseteq 1..MaxPrints /\ spoiled' \in BOOLEAN
          /\ print_status' \in {"GOOD", "IO_PROCESS_TERMINATED"}
      BY <2>1, <2>2, <2>6
    <3>2. QED
      BY <1>1, <1>2, <2>1, <2>6, <3>1
  <2>7. QED
    BY <1>6, <2>3, <2>4, <2>5, <2>6 DEF P!WriteData
<1>7. CASE P!SynchronizeBuffer
  <2>1. print_number' \in 0..MaxPrints /\ print_phase' = "FREE" /\ print_status' \in Statuses
    BY <1>3, <1>7 DEF P!SynchronizeBuffer
  <2>2. \/ UNCHANGED <<files, filename, is_open, spoiled>>
        \/ P!CleanUp
    BY <1>7 DEF P!SynchronizeBuffer
  <2>3. CASE UNCHANGED <<files, filename, is_open, spoiled>>
    <3>1. /\ DOMAIN files' \subseteq 1..MaxPrints /\ filename' \in 0..MaxPrints
          /\ is_open' \in BOOLEAN /\ spoiled' \in BOOLEAN
      BY <1>1, <2>3
    <3>2. QED
      BY <1>2, <2>1, <3>1
  <2>4. CASE P!CleanUp
    <3>1. /\ DOMAIN files' \subseteq 1..MaxPrints /\ filename' \in 0..MaxPrints
          /\ is_open' \in BOOLEAN /\ spoiled' \in BOOLEAN
      BY <1>1, <1>4, <2>4
    <3>2. QED
      BY <1>2, <2>1, <3>1
  <2>5. QED
    BY <2>2, <2>3, <2>4
<1>8. CASE P!StopPrint
  BY <1>1, <1>2, <1>3, <1>8 DEF P!StopPrint
<1>9. CASE P!BreakOff
  BY <1>1, <1>2, <1>9 DEF P!BreakOff
<1>10. CASE P!Detach
  BY <1>1, <1>2, <1>4, <1>10 DEF P!Detach
<1>11. QED
  BY <1>5, <1>6, <1>7, <1>8, <1>9, <1>10 DEF P!Next

\* The packets that wait have come.
NetworkMembers ==
  /\ stops_on_error \in BOOLEAN /\ attached \in {"NEW", "ATTACHED", "REFUSED", "DETACHED"}
  /\ arrived \in 0..MaxPackets /\ messages \in 0..MaxMessages
  /\ net_phase \in {"FREE", "DATA_IN", "DATA_OUT"}
  /\ net_status \in {"GOOD", "INVALID_FIELD", "ABORTED_COMMAND", "INTERNAL_TARGET_FAILURE", "NONE"}
  /\ response \in [packet : 0..MaxPackets, more : BOOLEAN] /\ pending \in BOOLEAN

\* Every step of the DaynaPort keeps the types of its variables.
LEMMA NetworkMembersStep ==
  ASSUME PacketTypes, PacketOrder, BridgeKept, NetworkMembers, N!Next
  PROVE  NetworkMembers'
<1> DEFINE Statuses == {"GOOD", "INVALID_FIELD", "ABORTED_COMMAND", "INTERNAL_TARGET_FAILURE", "NONE"}
           Responses == [packet : 0..MaxPackets, more : BOOLEAN]
<1>1. /\ stops_on_error \in BOOLEAN /\ attached \in {"NEW", "ATTACHED", "REFUSED", "DETACHED"}
      /\ arrived \in 0..MaxPackets /\ messages \in 0..MaxMessages
      /\ net_phase \in {"FREE", "DATA_IN", "DATA_OUT"} /\ net_status \in Statuses
      /\ response \in Responses /\ pending \in BOOLEAN
      /\ MaxPackets \in Nat /\ MaxMessages \in Nat
  BY MaxNumbers DEF NetworkMembers
<1>2. ASSUME /\ stops_on_error' \in BOOLEAN /\ attached' \in {"NEW", "ATTACHED", "REFUSED", "DETACHED"}
             /\ arrived' \in 0..MaxPackets /\ messages' \in 0..MaxMessages
             /\ net_phase' \in {"FREE", "DATA_IN", "DATA_OUT"} /\ net_status' \in Statuses
             /\ response' \in Responses /\ pending' \in BOOLEAN
      PROVE  NetworkMembers'
  BY <1>2 DEF NetworkMembers
<1>3. response.more \in BOOLEAN
  BY <1>1
<1> HIDE DEF Responses
<1>4. ASSUME NEW m, N!Begin(m)
      PROVE  messages' \in 0..MaxMessages /\ UNCHANGED <<arrived, stops_on_error, attached>>
  BY <1>1, <1>4 DEF N!Begin, N!counts
<1>5. CASE N!SetUp
  BY <1>1, <1>2, <1>5 DEF N!SetUp, N!counts, N!heard
<1>6. CASE N!CleanUp
  BY <1>1, <1>2, <1>6 DEF N!CleanUp, N!counts
<1>7. CASE N!Arrive
  BY <1>1, <1>2, <1>7 DEF N!Arrive
<1>8. ASSUME NEW r \in BOOLEAN, NEW v \in BOOLEAN, N!GetMessage(r, v)
      PROVE  NetworkMembers'
  <2>1. messages' \in 0..MaxMessages /\ UNCHANGED <<arrived, stops_on_error, attached, pending>>
    BY <1>4, <1>8 DEF N!GetMessage
  <2>2. CASE UNCHANGED response /\ net_phase' = "FREE" /\ net_status' \in {"INVALID_FIELD", "GOOD"}
    BY <1>1, <1>2, <2>1, <2>2
  <2>3. ASSUME NEW p \in N!Receive,
               response' = [packet |-> p.packet, more |-> N!More(p.packet, p.left)],
               net_phase' = "DATA_IN", net_status' = "GOOD"
        PROVE  NetworkMembers'
    <3>1. p.packet = 0 \/ (queue # <<>> /\ p.packet = Head(queue))
      BY <2>3 DEF N!Receive, N!HasPendingPackets
    <3>2. queue # <<>> => Head(queue) \in Nat /\ Head(queue) < arrived + 1
      BY DEF PacketTypes, PacketOrder, AllBelow
    <3>3. p.packet \in 0..MaxPackets
      BY <1>1, <3>1, <3>2
    <3>4. N!More(p.packet, p.left) \in BOOLEAN
      BY DEF N!More, N!HasPendingPackets
    <3>5. response' \in Responses
      BY <2>3, <3>3, <3>4 DEF Responses
    <3>6. QED
      BY <1>1, <1>2, <2>1, <2>3, <3>5
  <2>4. QED
    BY <1>8, <2>2, <2>3 DEF N!GetMessage, N!Ends
<1>9. ASSUME NEW f \in {"RAW", "SIZED", "OTHER"}, NEW fits \in BOOLEAN, N!SendMessage(f, fits)
      PROVE  NetworkMembers'
  BY <1>1, <1>2, <1>4, <1>9 DEF N!SendMessage, N!Ends, N!heard
<1>10. CASE N!Deliver
  <2>1. pending' \in BOOLEAN /\ net_status' \in Statuses
    BY <1>1, <1>3, <1>10 DEF N!Deliver
  <2>2. QED
    BY <1>1, <1>2, <1>10, <2>1 DEF N!Deliver, N!counts
<1>11. CASE N!SetAddress
  BY <1>1, <1>2, <1>4, <1>11 DEF N!SetAddress, N!heard
<1>12. CASE N!WriteData
  BY <1>1, <1>2, <1>12 DEF N!WriteData, N!Ends, N!counts, N!heard
<1>13. CASE N!BreakOff
  BY <1>1, <1>2, <1>13 DEF N!BreakOff, N!Ends, N!counts, N!heard
<1>14. CASE N!NoEffect
  BY <1>1, <1>2, <1>4, <1>14 DEF N!NoEffect, N!Ends, N!heard
<1>15. ASSUME NEW up \in BOOLEAN, N!EnableInterface(up)
       PROVE  NetworkMembers'
  <2>1. messages' \in 0..MaxMessages /\ UNCHANGED <<arrived, stops_on_error, attached, response>>
    BY <1>4, <1>15 DEF N!EnableInterface
  <2>2. /\ net_phase' = "FREE" /\ net_status' \in Statuses
        /\ pending' = pending \/ pending' = (pending /\ ~up)
    BY <1>15 DEF N!EnableInterface, N!Ends
  <2>3. pending' \in BOOLEAN
    BY <1>1, <2>2
  <2>4. QED
    BY <1>1, <1>2, <2>1, <2>2, <2>3
<1>16. QED
  BY <1>5, <1>6, <1>7, <1>8, <1>9, <1>10, <1>11, <1>12, <1>13, <1>14, <1>15 DEF N!Next

\* A chunk is a part of what remains.
GenericMembers == G!TypeOK /\ chunk <= remaining

\* A quotient of numbers is a number.
LEMMA Quotients == \A d \in Nat \ {0}, n \in Nat : n \div d \in Nat
<1>1. ASSUME NEW d \in Nat \ {0}, NEW n \in Nat
      PROVE  n \div d \in Nat
  <2>1. 0 \in Nat
    OBVIOUS
  <2>2. QED
    BY <2>1, BlockOfByte
<1>2. QED
  BY <1>1

\* What a piece of a READ changes.
LEMMA PieceMembers ==
  ASSUME NEW c, c = [op |-> c.op, start |-> c.start, count |-> c.count],
         NEW n \in Nat, NEW m \in Nat, generic_block_size \in Nat \ {0}, real.size \in Nat \ {0},
         number' \in 0..MaxGeneric, G!ReadPiece(c, n, m)
  PROVE  /\ remaining_count' \in Nat /\ deferred_sense' \in 0..MaxGeneric /\ failed' \in 0..MaxGeneric
         /\ UNCHANGED <<real, generic_block_size>>
         /\ \/ gen_status' = "GOOD" /\ Len(data') \in Nat
            \/ gen_status' \in {"CHECK_CONDITION", "ABORTED_COMMAND"} /\ gen_phase' = "FREE"
<1> DEFINE length == G!Piece(n, m)
           p == G!SetBlockCount(c, length)
<1>1. length \in Nat /\ length <= n
  BY DevicesAssumption DEF G!Piece, G!Least
<1>2. p.count \in Nat
  <2>1. p.count = length \div generic_block_size
    BY CdbOfPiece
  <2> HIDE DEF length, p
  <2>2. QED
    BY <1>1, <2>1, Quotients
<1>3. MaxGeneric \in Nat
  BY MaxNumbers
<1> HIDE DEF length, p
<1>4. \/ G!Works /\ data' = G!Blocks(p, length) /\ remaining_count' = n - Len(data')
         /\ UNCHANGED <<real, generic_block_size>>
      \/ G!Fails /\ remaining_count' = n
  BY DEF G!ReadPiece, length, p
<1>5. ASSUME data' = G!Blocks(p, length)
      PROVE  Len(data') \in Nat /\ Len(data') <= n
  <2> DEFINE k == p.count * real.size
             l == G!Least(k, length)
  <2>1. k \in Nat
    BY <1>2
  <2> HIDE DEF k
  <2>2. l \in Nat /\ l <= n
    BY <1>1, <2>1 DEF G!Least
  <2>3. data' = [i \in 1..l |-> real.content[p.start + (i - 1) \div real.size][1 + ((i - 1) % real.size)]]
    BY <1>5 DEF G!Blocks, l, k
  <2> HIDE DEF l
  <2>4. Len(data') = l
    BY <2>2, <2>3
  <2>5. QED
    BY <2>2, <2>4
<1>6. CASE G!Works /\ data' = G!Blocks(p, length) /\ remaining_count' = n - Len(data')
           /\ UNCHANGED <<real, generic_block_size>>
  BY <1>3, <1>5, <1>6 DEF G!Works
<1>7. CASE G!Fails /\ remaining_count' = n
  BY <1>3, <1>7 DEF G!Fails
<1>8. QED
  BY <1>4, <1>6, <1>7

\* Every step of the generic device keeps the types of its variables.
LEMMA GenericMembersStep ==
  ASSUME GenericTypes, GenericMembers, G!Next
  PROVE  GenericMembers'
<1> DEFINE Statuses == {"GOOD", "CHECK_CONDITION", "ABORTED_COMMAND", "NONE"}
           Sizes_ == RealSizes \cup {DefaultBlock}
<1>1. /\ real.size \in RealSizes /\ generic_block_size \in Sizes_
      /\ gen_phase \in {"FREE", "DATA_IN", "DATA_OUT"} /\ gen_status \in Statuses
      /\ {deferred_sense, format_header, sense, failed, number} \subseteq 0..MaxGeneric
      /\ {byte_count, remaining_count, remaining, chunk, current} \subseteq Nat
      /\ {pads, broken} \subseteq BOOLEAN /\ chunk <= remaining
  BY DEF GenericMembers, G!TypeOK
<1>2. ASSUME /\ real'.size \in RealSizes /\ generic_block_size' \in Sizes_
             /\ gen_phase' \in {"FREE", "DATA_IN", "DATA_OUT"} /\ gen_status' \in Statuses
             /\ {deferred_sense', format_header', sense', failed', number'} \subseteq 0..MaxGeneric
             /\ {byte_count', remaining_count', remaining', chunk', current'} \subseteq Nat
             /\ {pads', broken'} \subseteq BOOLEAN /\ chunk' <= remaining'
      PROVE  GenericMembers'
  BY <1>2 DEF GenericMembers, G!TypeOK
<1>3. /\ MaxGeneric \in Nat /\ generic_block_size \in Nat \ {0} /\ real.size \in Nat \ {0}
      /\ MAX_TRANSFER_LENGTH \in Nat \ {0} /\ HeaderLength \in Nat
  BY <1>1, MaxNumbers, DevicesAssumption DEF GenericTypes
<1>4. asked.list \in Lists /\ \A x \in Lists : x = -1 \/ x \in Nat
  BY DEF GenericTypes, Lists
<1> HIDE DEF Sizes_
<1>5. ASSUME NEW op, NEW six, NEW start_, NEW count, NEW list, G!Begin(op, six, start_, count, list)
      PROVE  /\ number' \in 0..MaxGeneric /\ sense' \in 0..MaxGeneric
             /\ UNCHANGED <<broken, pads>>
  BY <1>1, <1>3, <1>5 DEF G!Begin
\* The lengths of a transfer that begins.
<1>6. ASSUME NEW n \in Nat, G!SetTransferSize(n)
      PROVE  remaining' \in Nat /\ chunk' \in Nat /\ chunk' <= remaining'
  BY <1>3, <1>6 DEF G!SetTransferSize, G!Least
<1>7. ASSUME G!Fails, number' \in 0..MaxGeneric
      PROVE  /\ deferred_sense' \in 0..MaxGeneric /\ failed' \in 0..MaxGeneric
             /\ gen_phase' = "FREE" /\ gen_status' \in Statuses /\ UNCHANGED <<real, generic_block_size>>
  BY <1>3, <1>7 DEF G!Fails
<1>8. ASSUME G!Works
      PROVE  /\ deferred_sense' \in 0..MaxGeneric /\ failed' \in 0..MaxGeneric
             /\ gen_status' \in Statuses
  BY <1>3, <1>8 DEF G!Works
<1>9. \A count \in Nat : count * generic_block_size \in Nat
  BY <1>3
<1>10. ASSUME NEW op \in G!Reads, NEW start_ \in GenericStarts, NEW count \in GenericCounts,
              G!ReadBlocks(op, start_, count)
       PROVE  GenericMembers'
  <2> DEFINE n == count * generic_block_size
             c == [op |-> G!Long(op), start |-> start_, count |-> count]
             m == G!Least(n, MAX_TRANSFER_LENGTH)
  <2>1. n \in Nat
    BY <1>9, DevicesAssumption
  <2>2. /\ G!Begin("READ", op = "READ_6", start_, count, -1) /\ byte_count' = n /\ G!SetTransferSize(n)
        /\ G!ReadPiece(c, n, m) /\ UNCHANGED format_header
        /\ IF gen_status' = "GOOD"
           THEN current' = Len(data') /\ gen_phase' \in {"FREE", "DATA_IN"}
           ELSE UNCHANGED current
    BY <1>10 DEF G!ReadBlocks
  <2>3. c = [op |-> c.op, start |-> c.start, count |-> c.count]
    OBVIOUS
  <2> HIDE DEF n, c
  <2>4. m \in Nat
    BY <1>3, <2>1 DEF G!Least
  <2>5. number' \in 0..MaxGeneric /\ sense' \in 0..MaxGeneric /\ UNCHANGED <<broken, pads>>
    BY <1>5, <2>2
  <2>6. remaining' \in Nat /\ chunk' \in Nat /\ chunk' <= remaining'
    BY <1>6, <2>1, <2>2
  <2> HIDE DEF m
  <2>7. /\ remaining_count' \in Nat /\ deferred_sense' \in 0..MaxGeneric /\ failed' \in 0..MaxGeneric
        /\ UNCHANGED <<real, generic_block_size>>
        /\ \/ gen_status' = "GOOD" /\ Len(data') \in Nat
           \/ gen_status' \in {"CHECK_CONDITION", "ABORTED_COMMAND"} /\ gen_phase' = "FREE"
    BY <1>3, <2>1, <2>2, <2>3, <2>4, <2>5, PieceMembers
  <2>8. current' \in Nat /\ gen_phase' \in {"FREE", "DATA_IN", "DATA_OUT"} /\ gen_status' \in Statuses
    BY <1>1, <2>2, <2>7
  <2>9. QED
    BY <1>1, <1>2, <2>1, <2>2, <2>5, <2>6, <2>7, <2>8
<1>11. ASSUME NEW op \in G!Writes, NEW start_ \in GenericStarts, NEW count \in GenericCounts,
              G!WriteBlocks(op, start_, count)
       PROVE  GenericMembers'
  <2> DEFINE n == count * generic_block_size
  <2>1. n \in Nat
    BY <1>9, DevicesAssumption
  <2>2. /\ G!Begin("WRITE", op = "WRITE_6", start_, count, -1) /\ byte_count' = n /\ G!SetTransferSize(n)
        /\ G!Works /\ remaining_count' = n /\ current' = chunk'
        /\ gen_phase' \in {"FREE", "DATA_OUT"} /\ UNCHANGED <<real, generic_block_size, format_header>>
    BY <1>11 DEF G!WriteBlocks
  <2> HIDE DEF n
  <2>3. QED
    BY <1>1, <1>2, <1>5, <1>6, <1>8, <2>1, <2>2
<1>12. ASSUME NEW list \in Lists, G!FormatUnit(list)
       PROVE  GenericMembers'
  <2> DEFINE n == IF list = -1 THEN 0 ELSE HeaderLength
  <2>1. n \in Nat
    BY <1>3
  <2>2. /\ G!Begin("FORMAT_UNIT", TRUE, 0, 0, list) /\ byte_count' = n /\ G!SetTransferSize(n)
        /\ G!Works /\ remaining_count' = n /\ current' = n
        /\ gen_phase' = "DATA_OUT" /\ UNCHANGED <<real, generic_block_size, format_header>>
    BY <1>12 DEF G!FormatUnit
  <2> HIDE DEF n
  <2>3. QED
    BY <1>1, <1>2, <1>5, <1>6, <1>8, <2>1, <2>2
\* A command without data.
<1>13. ASSUME NEW op, G!Begin(op, FALSE, 0, 0, -1), UNCHANGED <<G!lengths, G!pieces>>,
              real' = real, generic_block_size' \in Sizes_, gen_phase' = "FREE",
              gen_status' \in Statuses,
              deferred_sense' \in 0..MaxGeneric, failed' \in 0..MaxGeneric
       PROVE  GenericMembers'
  <2>1. number' \in 0..MaxGeneric /\ sense' \in 0..MaxGeneric /\ UNCHANGED <<broken, pads>>
    BY <1>5, <1>13
  <2>2. UNCHANGED <<remaining, chunk, current, byte_count, remaining_count, format_header>>
    BY <1>13 DEF G!lengths, G!pieces
  <2>3. QED
    BY <1>1, <1>2, <1>13, <2>1, <2>2
<1>14. CASE G!ReadCapacity
  <2>1. G!Begin("READ_CAPACITY", FALSE, 0, 0, -1) /\ UNCHANGED <<G!lengths, G!pieces>>
    BY <1>14 DEF G!ReadCapacity
  <2>2. number' \in 0..MaxGeneric
    BY <1>5, <2>1
  <2>3. real.size \in Sizes_
    BY <1>1 DEF Sizes_
  <2>4. /\ real' = real /\ generic_block_size' \in Sizes_ /\ gen_phase' = "FREE"
        /\ gen_status' \in Statuses /\ deferred_sense' \in 0..MaxGeneric /\ failed' \in 0..MaxGeneric
    BY <1>1, <1>7, <1>8, <1>14, <2>2, <2>3 DEF G!ReadCapacity
  <2>5. QED
    BY <1>13, <2>1, <2>4
<1>15. CASE G!RequestSense
  <2>1. G!Begin("REQUEST_SENSE", FALSE, 0, 0, -1) /\ UNCHANGED <<G!lengths, G!pieces>>
    BY <1>15 DEF G!RequestSense
  <2>2. number' \in 0..MaxGeneric
    BY <1>5, <2>1
  <2>3. \/ /\ gen_phase' = "FREE" /\ gen_status' = "GOOD" /\ deferred_sense' = 0
           /\ UNCHANGED <<real, generic_block_size, failed>>
        \/ G!Works /\ gen_phase' = "FREE" /\ UNCHANGED <<real, generic_block_size>>
        \/ G!Fails
    BY <1>15 DEF G!RequestSense
  <2>4. /\ real' = real /\ generic_block_size' \in Sizes_ /\ gen_phase' = "FREE"
        /\ gen_status' \in Statuses /\ deferred_sense' \in 0..MaxGeneric /\ failed' \in 0..MaxGeneric
    BY <1>1, <1>3, <1>7, <1>8, <2>2, <2>3
  <2>5. QED
    BY <1>13, <2>1, <2>4
<1>16. CASE G!TestUnitReady
  <2>1. G!Begin("TEST_UNIT_READY", FALSE, 0, 0, -1) /\ UNCHANGED <<G!lengths, G!pieces>>
    BY <1>16 DEF G!TestUnitReady
  <2>2. number' \in 0..MaxGeneric
    BY <1>5, <2>1
  <2>3. /\ real' = real /\ generic_block_size' \in Sizes_ /\ gen_phase' = "FREE"
        /\ gen_status' \in Statuses /\ deferred_sense' \in 0..MaxGeneric /\ failed' \in 0..MaxGeneric
    BY <1>1, <1>7, <1>8, <1>16, <2>2 DEF G!TestUnitReady
  <2>4. QED
    BY <1>13, <2>1, <2>3
<1>17. CASE G!Send
  <2> DEFINE left == remaining - chunk
             next == G!Least(left, chunk)
  <2>1. left \in Nat /\ next \in Nat /\ next <= left
    BY <1>1 DEF G!Least
  <2>2. /\ UNCHANGED <<sense, broken, number, pads>> /\ remaining' = left /\ chunk' = next
        /\ \/ /\ gen_phase' = "FREE"
              /\ UNCHANGED <<current, byte_count, remaining_count, format_header, real,
                             generic_block_size, gen_status, deferred_sense, failed>>
           \/ /\ G!ReadPiece(local_cdb, remaining_count, next) /\ current' = next
              /\ gen_status' = "GOOD" => gen_phase' = "DATA_IN"
              /\ UNCHANGED <<byte_count, format_header>>
    BY <1>17 DEF G!Send, G!notes, G!pieces
  <2> HIDE DEF left, next
  <2>3. CASE /\ gen_phase' = "FREE"
             /\ UNCHANGED <<current, byte_count, remaining_count, format_header, real,
                            generic_block_size, gen_status, deferred_sense, failed>>
    BY <1>1, <1>2, <2>1, <2>2, <2>3
  <2>4. CASE /\ G!ReadPiece(local_cdb, remaining_count, next) /\ current' = next
             /\ gen_status' = "GOOD" => gen_phase' = "DATA_IN"
             /\ UNCHANGED <<byte_count, format_header>>
    <3>1. local_cdb = [op |-> local_cdb.op, start |-> local_cdb.start, count |-> local_cdb.count]
      BY DEF GenericTypes
    <3>2. number' \in 0..MaxGeneric /\ remaining_count \in Nat
      BY <1>1, <2>2
    <3>3. /\ remaining_count' \in Nat /\ deferred_sense' \in 0..MaxGeneric /\ failed' \in 0..MaxGeneric
          /\ UNCHANGED <<real, generic_block_size>>
          /\ \/ gen_status' = "GOOD"
             \/ gen_status' \in {"CHECK_CONDITION", "ABORTED_COMMAND"} /\ gen_phase' = "FREE"
      BY <1>3, <2>1, <2>4, <3>1, <3>2, PieceMembers
    <3>4. gen_phase' \in {"FREE", "DATA_IN", "DATA_OUT"} /\ gen_status' \in Statuses
      BY <2>4, <3>3
    <3>5. QED
      BY <1>1, <1>2, <2>1, <2>2, <2>4, <3>3, <3>4
  <2>5. QED
    BY <2>2, <2>3, <2>4
<1>18. ASSUME NEW rest_ \in Nat, NEW size \in Nat, G!Continue(rest_, size)
       PROVE  /\ {remaining', chunk', current'} \subseteq Nat /\ chunk' <= remaining'
              /\ gen_phase' \in {"FREE", "DATA_OUT"}
  BY <1>18 DEF G!Continue, G!Least
<1>19. CASE G!ReceiveBlocks
  <2> DEFINE length == G!Piece(remaining_count, G!Least(chunk, remaining))
             c == G!SetBlockCount(local_cdb, length)
             taken == c.count * real.size
  <2>1. length \in Nat /\ length <= remaining_count /\ length <= remaining
    BY <1>1, <1>3 DEF G!Piece, G!Least
  <2>2. /\ UNCHANGED <<sense, broken, number, pads, byte_count, format_header>>
        /\ \/ /\ taken <= length /\ G!Works /\ real' = [real EXCEPT !.content = G!Stored(c, put)]
              /\ remaining_count' = remaining_count - taken
              /\ G!Continue(remaining - taken, chunk) /\ UNCHANGED generic_block_size
           \/ G!Fails /\ UNCHANGED <<remaining_count, remaining, chunk, current>>
    BY <1>19 DEF G!ReceiveBlocks, G!notes, G!lengths
  <2> HIDE DEF length
  <2>3. c.count \in Nat
    <3>1. local_cdb = [op |-> local_cdb.op, start |-> local_cdb.start, count |-> local_cdb.count]
      BY DEF GenericTypes
    <3>2. c.count = length \div generic_block_size
      BY <3>1, CdbOfPiece
    <3>3. QED
      BY <1>3, <2>1, <3>2, Quotients
  <2> HIDE DEF c
  <2>4. taken \in Nat
    BY <1>3, <2>3
  <2> HIDE DEF taken
  <2>5. CASE /\ taken <= length /\ G!Works /\ real' = [real EXCEPT !.content = G!Stored(c, put)]
             /\ remaining_count' = remaining_count - taken
             /\ G!Continue(remaining - taken, chunk) /\ UNCHANGED generic_block_size
    <3>1. remaining - taken \in Nat /\ remaining_count' \in Nat /\ chunk \in Nat
      BY <1>1, <2>1, <2>4, <2>5
    <3>2. /\ {remaining', chunk', current'} \subseteq Nat /\ chunk' <= remaining'
          /\ gen_phase' \in {"FREE", "DATA_OUT"}
      BY <1>18, <2>5, <3>1
    <3>3. real'.size = real.size
      BY <2>5 DEF GenericTypes
    <3>4. deferred_sense' \in 0..MaxGeneric /\ failed' \in 0..MaxGeneric /\ gen_status' \in Statuses
      BY <1>8, <2>5
    <3>5. QED
      BY <1>1, <1>2, <2>2, <2>5, <3>1, <3>2, <3>3, <3>4
  <2>6. CASE G!Fails /\ UNCHANGED <<remaining_count, remaining, chunk, current>>
    BY <1>1, <1>2, <1>7, <2>2, <2>6
  <2>7. QED
    BY <2>2, <2>5, <2>6
<1>20. CASE G!ReceiveFormat
  <2>1. UNCHANGED <<sense, broken, number, pads>>
    BY <1>20 DEF G!ReceiveFormat
  <2>2. CASE asked.list # -1 /\ format_header = 0
    <3>1. /\ format_header' = number /\ byte_count' = asked.list + HeaderLength
          /\ G!Continue(byte_count', byte_count')
          /\ UNCHANGED <<real, generic_block_size, deferred_sense, failed, gen_status, remaining_count>>
      BY <1>20, <2>2 DEF G!ReceiveFormat
    <3>2. byte_count' \in Nat
      BY <1>3, <1>4, <2>2, <3>1
    <3>3. /\ {remaining', chunk', current'} \subseteq Nat /\ chunk' <= remaining'
          /\ gen_phase' \in {"FREE", "DATA_OUT"}
      BY <1>18, <3>1, <3>2
    <3>4. QED
      BY <1>1, <1>2, <2>1, <3>1, <3>2, <3>3
  <2>3. CASE ~(asked.list # -1 /\ format_header = 0)
    <3>1. /\ format_header' = 0 /\ remaining_count' = 0 /\ UNCHANGED byte_count
          /\ \/ G!Works /\ G!Continue(0, 0) /\ UNCHANGED <<real, generic_block_size>>
             \/ G!Fails /\ UNCHANGED <<remaining, chunk, current>>
      BY <1>20, <2>3 DEF G!ReceiveFormat, G!lengths
    <3>2. CASE G!Works /\ G!Continue(0, 0) /\ UNCHANGED <<real, generic_block_size>>
      <4>1. /\ {remaining', chunk', current'} \subseteq Nat /\ chunk' <= remaining'
            /\ gen_phase' \in {"FREE", "DATA_OUT"}
        BY <1>18, <3>2
      <4>2. QED
        BY <1>1, <1>2, <1>3, <1>8, <2>1, <3>1, <3>2, <4>1
    <3>3. CASE G!Fails /\ UNCHANGED <<remaining, chunk, current>>
      BY <1>1, <1>2, <1>3, <1>7, <2>1, <3>1, <3>3
    <3>4. QED
      BY <3>1, <3>2, <3>3
  <2>4. QED
    BY <2>2, <2>3
<1>21. CASE G!BreakOff
  <2>1. broken' \in BOOLEAN
    BY <1>1, <1>21 DEF G!BreakOff
  <2>2. QED
    BY <1>1, <1>2, <1>21, <2>1 DEF G!BreakOff, G!lengths, G!pieces
<1>22. CASE G!Exchange
  <2>1. real'.size \in RealSizes
    BY <1>22 DEF G!Exchange
  <2>2. QED
    BY <1>1, <1>2, <1>22, <2>1 DEF G!Exchange, G!lengths, G!pieces
<1>23. QED
  BY <1>10, <1>11, <1>12, <1>14, <1>15, <1>16, <1>17, <1>19, <1>20, <1>21, <1>22 DEF G!Next

\* Lengths that overflow are negative, and a chunk is then all that remains.
LengthsKept ==
  /\ phase # "FREE" => chunk_size <= remaining_length /\ (chunk_size < 0 => chunk_size = remaining_length)
  /\ phase = "DATA_OUT" => current_length >= 0

TransferMembers == T!TypeOK /\ sent \in Nat /\ LengthsKept

\* The widths of the integers of a transfer.
LEMMA WidthBounds ==
  /\ W32 \in Nat /\ 2 <= W32 /\ W64 \in Nat /\ 31 < W64 /\ Count6 \in Nat \ {0}
  /\ Sizes \subseteq Nat \ {0} /\ MediumSize \in Nat /\ MaxCommands \in Nat
BY DevicesAssumption, WidthsAssumption

\* A length that is converted to int may be negative, but it fits.
LEMMA ToIntInRange == \A n \in Nat : T!ToInt(n) \in -W32..W32
<1>1. ASSUME NEW n \in Nat
      PROVE  T!ToInt(n) \in -W32..W32
  <2>1. W32 \in Nat \ {0}
    BY WidthBounds
  <2>2. n % W32 \in 0..W32 - 1
    BY <2>1
  <2>3. QED
    BY <2>1, <2>2 DEF T!ToInt
<1>2. QED
  BY <1>1

\* The members of a drive, what its cache holds, and the transfer.
DriveTypes ==
  /\ drive \in [type : {"HD", "CD"}, ready : BOOLEAN, protected : BOOLEAN]
  /\ caching_mode \in T!Mode
  /\ block_size \in Nat \ {0} /\ blocks \in Nat /\ sector_size \in Nat \ {0} /\ sectors \in Nat
  /\ faulty \in BOOLEAN
ContentTypes == content \in [T!Unit -> Nat] /\ stable \in [T!Unit -> Nat]
PhaseTypes ==
  /\ phase \in {"FREE", "DATA_IN", "DATA_OUT"}
  /\ status \in {"GOOD", "NOT_READY", "DATA_PROTECT", "LBA_OUT_OF_RANGE", "INVALID_FIELD",
                 "READ_ERROR", "WRITE_FAULT", "NONE"}
LengthTypes ==
  /\ next_sector \in 0..W64 - 1
  /\ remaining_length \in -W32..W32 /\ chunk_size \in -W32..W32 /\ current_length \in -W32..W32

MemberTypes ==
  /\ DriveTypes /\ ContentTypes /\ PhaseTypes /\ LengthTypes
  /\ commands \in 0..MaxCommands /\ sent \in Nat /\ LengthsKept

\* The types of a transfer in parts, for the proofs.
LEMMA MembersAreTyped == TransferMembers <=> MemberTypes
BY DEF TransferMembers, MemberTypes, T!TypeOK, DriveTypes, ContentTypes, PhaseTypes, LengthTypes

\* Flush() writes what the cache holds.
LEMMA FlushTypes ==
  ASSUME ContentTypes, faulty \in BOOLEAN, T!FlushCache
  PROVE  stable' \in [T!Unit -> Nat] /\ faulty' \in BOOLEAN
BY DEF ContentTypes, T!FlushCache

\* The number of blocks of a CDB is a number.
LEMMA TransferCounts == \A n \in Nat : T!TransferCount(n) \in Nat
BY DEF T!TransferCount

\* The start of a command.
LEMMA BeginTypes ==
  ASSUME NEW op, NEW s, NEW n, commands \in 0..MaxCommands, T!Begin(op, s, n)
  PROVE  phase = "FREE" /\ commands' \in 0..MaxCommands /\ sent' \in Nat
BY WidthBounds DEF T!Begin

\* The next chunk of a READ is read or not.
LEMMA ReadDataTypes ==
  ASSUME NEW s \in Nat, NEW n \in Nat, next_sector \in 0..W64 - 1, T!ReadData(s, n)
  PROVE  /\ next_sector' \in 0..W64 - 1 /\ phase' \in {"FREE", "DATA_IN"}
         /\ status' \in {"GOOD", "LBA_OUT_OF_RANGE", "READ_ERROR"}
<1>1. (s + n) % W64 \in 0..W64 - 1
  <2>1. s + n \in Nat /\ W64 \in Nat \ {0}
    BY WidthBounds
  <2>2. QED
    BY <2>1
<1>2. QED
  BY <1>1 DEF T!ReadData

\* A command for blocks of the medium.
LEMMA AccessTypes ==
  ASSUME MemberTypes, NEW op, NEW s \in 0..31, NEW n \in Nat,
         T!InCapacity(s, n) => T!HasSize(n), T!Access(op, s, n)
  PROVE  MemberTypes'
<1> DEFINE count == T!TransferCount(n)
           all == n * block_size
           part_ == count * block_size
<1>1. count \in Nat /\ block_size \in Nat \ {0}
  BY TransferCounts DEF MemberTypes, DriveTypes
<1>2. commands' \in 0..MaxCommands /\ sent' \in Nat
  BY BeginTypes DEF T!Access, MemberTypes
<1>3. UNCHANGED <<drive, caching_mode, block_size, blocks, sector_size, sectors, content>>
  BY DEF T!Access
<1>4. s \in 0..W64 - 1
  BY WidthBounds
<1>5. stable' \in [T!Unit -> Nat] /\ faulty' \in BOOLEAN
  <2>1. T!FlushCache \/ UNCHANGED <<stable, faulty>>
    BY DEF T!Access
  <2>2. QED
    BY <2>1, FlushTypes DEF MemberTypes, ContentTypes, DriveTypes
<1>6. DriveTypes' /\ ContentTypes'
  BY <1>3, <1>5 DEF MemberTypes, DriveTypes, ContentTypes
<1>7. T!Checked(op, s, n) \in {"DATA_PROTECT", "NOT_READY", "LBA_OUT_OF_RANGE", "GOOD"}
  BY DEF T!Checked
<1>8. CASE T!Checked(op, s, n) # "GOOD" \/ n = 0 \/ op \in T!Verifies
  <2>1. T!Ends(T!Checked(op, s, n))
    BY <1>8 DEF T!Access
  <2>2. /\ phase' = "FREE" /\ status' = T!Checked(op, s, n)
        /\ UNCHANGED <<next_sector, remaining_length, chunk_size, current_length>>
    BY <2>1 DEF T!Ends, T!transfer
  <2>3. PhaseTypes' /\ LengthTypes' /\ LengthsKept'
    BY <1>7, <2>2 DEF MemberTypes, PhaseTypes, LengthTypes, LengthsKept
  <2>4. QED
    BY <1>2, <1>6, <2>3 DEF MemberTypes
<1>9. CASE ~(T!Checked(op, s, n) # "GOOD" \/ n = 0 \/ op \in T!Verifies)
  <2>1. /\ T!SetTransferSize(n) /\ current_length' = block_size * count
        /\ \/ T!ReadData(s, count)
           \/ phase' = "DATA_OUT" /\ status' = "GOOD" /\ next_sector' = s
    BY <1>9 DEF T!Access
  <2>2. T!HasSize(n)
    BY <1>9 DEF T!Checked
  <2>3. part_ \in Nat /\ all \in Nat /\ block_size * count = part_
    BY <1>1
  <2>4. part_ < W32 \div 2
    BY <2>2 DEF T!HasSize
  <2>5. /\ remaining_length' = T!ToInt(all)
        /\ chunk_size' = T!Least(T!ToInt(all), T!ToInt(part_))
    BY <2>1 DEF T!SetTransferSize
  <2> HIDE DEF all, part_
  <2>6. T!ToInt(part_) = part_ /\ part_ <= W32
    <3>1. W32 \in Nat /\ W32 \div 2 \in Int /\ W32 \div 2 <= W32
      BY WidthBounds
    <3>2. T!ToInt(part_) = part_
      BY <2>3, <2>4, FitsItsType
    <3>3. QED
      BY <2>3, <2>4, <3>1, <3>2
  <2>7. T!ToInt(all) \in -W32..W32
    BY <2>3, ToIntInRange
  <2>8. W32 \in Nat
    BY WidthBounds
  <2>9. /\ remaining_length' \in -W32..W32 /\ chunk_size' \in -W32..W32 /\ current_length' \in 0..W32
        /\ chunk_size' <= remaining_length' /\ (chunk_size' < 0 => chunk_size' = remaining_length')
    BY <2>1, <2>3, <2>5, <2>6, <2>7, <2>8 DEF T!Least
  <2>10. /\ next_sector' \in 0..W64 - 1 /\ phase' \in {"FREE", "DATA_IN", "DATA_OUT"}
         /\ status' \in {"GOOD", "LBA_OUT_OF_RANGE", "READ_ERROR"}
    <3>1. CASE T!ReadData(s, count)
      <4>1. s \in Nat /\ next_sector \in 0..W64 - 1
        BY DEF MemberTypes, LengthTypes
      <4>2. QED
        BY <1>1, <3>1, <4>1, ReadDataTypes
    <3>2. QED
      BY <1>4, <2>1, <3>1
  <2>11. PhaseTypes' /\ LengthTypes' /\ LengthsKept'
    BY <2>8, <2>9, <2>10 DEF PhaseTypes, LengthTypes, LengthsKept
  <2>12. QED
    BY <1>2, <1>6, <2>11 DEF MemberTypes
<1>10. QED
  BY <1>8, <1>9

\* READ LONG and WRITE LONG.
LEMMA LongTypes ==
  ASSUME MemberTypes, NEW op \in T!Longs, NEW c \in LongCdb, T!Long(op, c)
  PROVE  MemberTypes'
<1>1. commands' \in 0..MaxCommands /\ sent' \in Nat
  BY BeginTypes DEF T!Long, MemberTypes
<1>2. UNCHANGED <<drive, block_size, blocks>>
  BY DEF T!Long
<1>3. c.sector \in 0..5 /\ c.length \in 0..2
  BY DEF LongCdb
<1>4. T!LongChecked(op, c) \in {"NOT_READY", "LBA_OUT_OF_RANGE", "DATA_PROTECT", "GOOD", "INVALID_FIELD",
                                "TRANSFER"}
  BY DEF T!LongChecked
<1>5. CASE T!LongChecked(op, c) # "TRANSFER"
  <2>1. /\ T!Ends(T!LongChecked(op, c))
        /\ UNCHANGED <<caching_mode, sector_size, sectors, content, stable, faulty>>
    BY <1>5 DEF T!Long
  <2>2. /\ phase' = "FREE" /\ status' = T!LongChecked(op, c)
        /\ UNCHANGED <<next_sector, remaining_length, chunk_size, current_length>>
    BY <2>1 DEF T!Ends, T!transfer
  <2>3. PhaseTypes' /\ LengthTypes' /\ LengthsKept' /\ DriveTypes' /\ ContentTypes'
    BY <1>2, <1>4, <1>5, <2>1, <2>2
       DEF MemberTypes, PhaseTypes, LengthTypes, LengthsKept, DriveTypes, ContentTypes
  <2>4. QED
    BY <1>1, <2>3 DEF MemberTypes
<1>6. CASE T!LongChecked(op, c) = "TRANSFER"
  <2>1. block_size \in 1..2
    BY <1>3, <1>6 DEF T!LongChecked
  <2>2. /\ T!SwitchToLinuxCache /\ remaining_length' = block_size /\ chunk_size' = block_size
        /\ \/ T!ReadLong(c.sector) /\ UNCHANGED next_sector
           \/ /\ phase' = "DATA_OUT" /\ status' = "GOOD"
              /\ next_sector' = c.sector /\ current_length' = block_size
    BY <1>6 DEF T!Long
  <2>3. DriveTypes' /\ ContentTypes'
    <3>1. CASE UNCHANGED <<caching_mode, sector_size, sectors, content, stable, faulty>>
      BY <1>2, <3>1 DEF MemberTypes, DriveTypes, ContentTypes
    <3>2. CASE /\ T!FlushCache /\ caching_mode' = "LINUX" /\ sector_size' = block_size /\ sectors' = blocks
               /\ content' = stable'
      <4>1. stable' \in [T!Unit -> Nat] /\ faulty' \in BOOLEAN
        BY <3>2, FlushTypes DEF MemberTypes, DriveTypes
      <4>2. QED
        BY <1>2, <3>2, <4>1 DEF MemberTypes, DriveTypes, ContentTypes, T!Mode
    <3>3. QED
      BY <2>2, <3>1, <3>2 DEF T!SwitchToLinuxCache
  <2>4. /\ phase' \in {"FREE", "DATA_IN", "DATA_OUT"} /\ status' = "GOOD"
        /\ current_length' \in {0, block_size}
        /\ next_sector' \in {next_sector, c.sector}
    BY <2>2 DEF T!ReadLong
  <2>5. W32 \in Nat /\ 2 <= W32 /\ W64 \in Nat /\ 31 < W64
    BY WidthBounds
  <2>6. PhaseTypes' /\ LengthTypes' /\ LengthsKept'
    <3>1. next_sector' \in 0..W64 - 1
      BY <1>3, <2>4, <2>5 DEF MemberTypes, LengthTypes
    <3>2. /\ remaining_length' \in 0..W32 /\ chunk_size' \in 0..W32 /\ current_length' \in 0..W32
          /\ chunk_size' = remaining_length'
      BY <2>1, <2>2, <2>4, <2>5
    <3>3. QED
      BY <2>4, <2>5, <3>1, <3>2 DEF PhaseTypes, LengthTypes, LengthsKept
  <2>7. QED
    BY <1>1, <2>3, <2>6 DEF MemberTypes
<1>7. QED
  BY <1>5, <1>6

\* What remains after a chunk.
LEMMA UpdateTypes ==
  ASSUME LengthTypes, chunk_size <= remaining_length, chunk_size < 0 => chunk_size = remaining_length
  PROVE  LET u == T!Update(chunk_size) IN
           /\ u.remaining \in 0..W32 /\ u.chunk \in -W32..W32 /\ u.chunk <= u.remaining
           /\ u.remaining # 0 => u.chunk >= 0
           /\ T!Least(u.remaining, u.chunk) = u.chunk
           /\ T!Least(chunk_size, remaining_length) = chunk_size
<1>1. W32 \in Nat
  BY WidthBounds
<1>2. QED
  BY <1>1 DEF LengthTypes, T!Update, T!Least

\* The host gets a chunk.
LEMMA SendTypes ==
  ASSUME MemberTypes, TransferTypes, T!Send
  PROVE  MemberTypes'
<1> DEFINE u == T!Update(chunk_size)
           count == T!TransferCount(cdb.count)
<1>1. /\ phase = "DATA_IN" /\ remaining_length' = u.remaining /\ chunk_size' = u.chunk
      /\ UNCHANGED <<T!medium, sent, commands>>
      /\ \/ /\ u.remaining = 0 /\ phase' = "FREE" /\ status' = "GOOD"
            /\ UNCHANGED <<next_sector, current_length>>
         \/ /\ u.remaining # 0 /\ T!ReadData(next_sector, count)
            /\ current_length' = T!Least(u.remaining, u.chunk)
  BY DEF T!Send
<1>2. /\ u.remaining \in 0..W32 /\ u.chunk \in -W32..W32 /\ u.chunk <= u.remaining
      /\ u.remaining # 0 => u.chunk >= 0
      /\ T!Least(u.remaining, u.chunk) = u.chunk
  BY <1>1, UpdateTypes DEF MemberTypes, LengthsKept
<1> HIDE DEF u
<1>3. count \in Nat /\ next_sector \in Nat /\ next_sector \in 0..W64 - 1
  BY TransferCounts DEF MemberTypes, TransferTypes, LengthTypes
<1>4. /\ next_sector' \in 0..W64 - 1 /\ phase' \in {"FREE", "DATA_IN"}
      /\ status' \in {"GOOD", "LBA_OUT_OF_RANGE", "READ_ERROR"}
  BY <1>1, <1>3, ReadDataTypes
<1>5. remaining_length' \in -W32..W32 /\ chunk_size' \in -W32..W32 /\ current_length' \in -W32..W32
  <2>1. W32 \in Nat /\ current_length \in -W32..W32
    BY WidthBounds DEF MemberTypes, LengthTypes
  <2>2. QED
    BY <1>1, <1>2, <2>1
<1>6. LengthsKept'
  BY <1>1, <1>2, <1>4 DEF LengthsKept
<1>7. DriveTypes' /\ ContentTypes' /\ PhaseTypes' /\ LengthTypes'
  BY <1>1, <1>4, <1>5 DEF MemberTypes, DriveTypes, ContentTypes, PhaseTypes, LengthTypes, T!medium
<1>8. QED
  BY <1>1, <1>6, <1>7 DEF MemberTypes

\* The blocks that are written.
LEMMA WriteTypes ==
  ASSUME DriveTypes, ContentTypes, NEW s \in Nat, NEW n \in Nat, NEW k \in Nat, T!WriteSectors(s, n, k)
  PROVE  content' \in [T!Unit -> Nat] /\ stable' \in [T!Unit -> Nat] /\ status' \in {"GOOD", "WRITE_FAULT"}
<1>1. ASSUME NEW us, us \subseteq T!Covered(s, n)
      PROVE  T!Written(s, us, k) \in [T!Unit -> Nat]
  <2> DEFINE first == sector_size * s
  <2>1. first \in Nat /\ MediumSize \in Nat
    BY WidthBounds DEF DriveTypes
  <2>2. \A u \in us : u \in T!Unit /\ first <= u
    BY <1>1 DEF T!Covered
  <2> HIDE DEF first
  <2>3. ASSUME NEW u \in T!Unit
        PROVE  (IF u \in us THEN T!Sent(k + 1 + u - first) ELSE content[u]) \in Nat
    BY <2>1, <2>2 DEF T!Unit, T!Sent, ContentTypes
  <2>4. T!Written(s, us, k) = [u \in T!Unit |-> IF u \in us THEN T!Sent(k + 1 + u - first) ELSE content[u]]
    BY DEF T!Written, first
  <2>5. QED
    BY <2>3, <2>4
<1>2. content' \in [T!Unit -> Nat]
  <2>1. PICK us : us \subseteq T!Covered(s, n) /\ content' = T!Written(s, us, k)
    <3>1. CASE content' = T!Written(s, T!Covered(s, n), k)
      BY <3>1
    <3>2. ASSUME NEW m, content' = T!Written(s, {u \in T!Covered(s, n) : u < sector_size * s + m}, k)
          PROVE  \E us : us \subseteq T!Covered(s, n) /\ content' = T!Written(s, us, k)
      BY <3>2
    <3>3. QED
      BY <3>1, <3>2 DEF T!WriteSectors
  <2>2. QED
    BY <1>1, <2>1
<1>3. stable' \in [T!Unit -> Nat]
  <2>1. stable' \in {stable, T!Written(s, T!Covered(s, n), k)}
    BY DEF T!WriteSectors
  <2>2. QED
    BY <1>1, <2>1 DEF ContentTypes
<1>4. QED
  BY <1>2, <1>3 DEF T!WriteSectors

\* A chunk has come from the host.
LEMMA ReceiveTypes ==
  ASSUME MemberTypes, TransferTypes, T!Receive
  PROVE  MemberTypes'
<1> DEFINE count == IF cdb.op = "WRITE_LONG" THEN 1 ELSE T!TransferCount(cdb.count)
           u == T!Update(chunk_size)
<1>1. /\ u.remaining \in 0..W32 /\ u.chunk \in -W32..W32 /\ u.chunk <= u.remaining
      /\ u.remaining # 0 => u.chunk >= 0
      /\ T!Least(chunk_size, remaining_length) = chunk_size
  BY UpdateTypes DEF MemberTypes, LengthsKept, T!Receive
<1>2. /\ phase = "DATA_OUT" /\ sent' = sent + current_length
      /\ T!WriteSectors(T!ToUint(next_sector), count, sent)
      /\ UNCHANGED <<drive, caching_mode, block_size, blocks, sector_size, sectors, faulty, commands>>
  BY DEF T!Receive
<1>3. \/ /\ status' = "WRITE_FAULT" /\ phase' = "FREE"
         /\ UNCHANGED <<next_sector, remaining_length, chunk_size, current_length>>
      \/ /\ status' # "WRITE_FAULT" /\ next_sector' = (next_sector + count) % W64
         /\ remaining_length' = u.remaining /\ chunk_size' = u.chunk /\ current_length' = u.chunk
         /\ phase' = IF u.remaining = 0 THEN "FREE" ELSE "DATA_OUT"
  BY <1>1 DEF T!Receive, T!transfer
<1> HIDE DEF u
<1>4. count \in Nat /\ next_sector \in 0..W64 - 1 /\ sent \in Nat /\ current_length \in -W32..W32
  BY TransferCounts DEF MemberTypes, TransferTypes, LengthTypes
<1> HIDE DEF count
<1>5. W32 \in Nat /\ W64 \in Nat \ {0} /\ 2 <= W32
  BY WidthBounds
<1>6. T!ToUint(next_sector) \in Nat
  BY <1>4, <1>5 DEF T!ToUint
<1>7. content' \in [T!Unit -> Nat] /\ stable' \in [T!Unit -> Nat] /\ status' \in {"GOOD", "WRITE_FAULT"}
  BY <1>2, <1>4, <1>6, WriteTypes DEF MemberTypes
<1>8. sent' \in Nat
  <2>1. current_length >= 0
    BY <1>2 DEF MemberTypes, LengthsKept
  <2>2. QED
    BY <1>2, <1>4, <1>5, <2>1
<1>9. /\ next_sector' \in 0..W64 - 1 /\ remaining_length' \in -W32..W32 /\ chunk_size' \in -W32..W32
      /\ current_length' \in -W32..W32
  <2>1. (next_sector + count) % W64 \in 0..W64 - 1
    BY <1>4, <1>5
  <2>2. u.remaining \in -W32..W32
    BY <1>1, <1>5
  <2>3. QED
    BY <1>1, <1>3, <1>4, <2>1, <2>2 DEF MemberTypes, LengthTypes
<1>10. LengthsKept'
  BY <1>1, <1>3 DEF LengthsKept
<1>11. phase' \in {"FREE", "DATA_OUT"}
  BY <1>3
<1>12. DriveTypes' /\ ContentTypes' /\ PhaseTypes' /\ LengthTypes'
  BY <1>2, <1>7, <1>9, <1>11 DEF MemberTypes, DriveTypes, ContentTypes, PhaseTypes, LengthTypes
<1>13. QED
  BY <1>2, <1>8, <1>10, <1>12 DEF MemberTypes

\* Every step of a drive keeps the types of its variables.
LEMMA TransferMembersStep ==
  ASSUME MemberTypes, TransferTypes, T!Next
  PROVE  MemberTypes'
<1>1. CASE T!ReadWrite
  <2>1. ASSUME NEW op, NEW s \in 0..31, NEW n \in Nat,
               T!InCapacity(s, n) => T!HasSize(n), T!Access(op, s, n)
        PROVE  MemberTypes'
    BY <2>1, AccessTypes
  <2>2. ASSUME NEW c \in Cdb6, NEW op,
               LET n == IF c.count = 0 THEN Count6 ELSE c.count IN
                 (T!InCapacity(c.start, n) => T!HasSize(n)) /\ T!Access(op, c.start, n)
        PROVE  MemberTypes'
    <3>1. c.start \in 0..31 /\ c.count \in Nat /\ Count6 \in Nat
      BY WidthBounds DEF Cdb6
    <3>2. QED
      BY <2>1, <2>2, <3>1
  <2>3. ASSUME NEW c \in Cdb10 \cup Cdb16, NEW op,
               T!InCapacity(c.start, c.count) => T!HasSize(c.count), T!Access(op, c.start, c.count)
        PROVE  MemberTypes'
    <3>1. c.start \in 0..31 /\ c.count \in Nat
      BY DEF Cdb10, Cdb16
    <3>2. QED
      BY <2>1, <2>3, <3>1
  <2>4. QED
    BY <1>1, <2>2, <2>3 DEF T!ReadWrite
<1>2. ASSUME NEW op \in T!Longs, NEW c \in LongCdb, T!Long(op, c)
      PROVE  MemberTypes'
  BY <1>2, LongTypes
\* A command that ends at once.
<1>3. ASSUME NEW op, T!Begin(op, 0, 0), NEW s \in {"GOOD", "NOT_READY", "INVALID_FIELD"}, T!Ends(s),
             DriveTypes', ContentTypes'
      PROVE  MemberTypes'
  <2>1. commands' \in 0..MaxCommands /\ sent' \in Nat
    BY <1>3, BeginTypes DEF MemberTypes
  <2>2. /\ phase' = "FREE" /\ status' = s
        /\ UNCHANGED <<next_sector, remaining_length, chunk_size, current_length>>
    BY <1>3 DEF T!Ends, T!transfer
  <2>3. PhaseTypes' /\ LengthTypes' /\ LengthsKept'
    BY <2>2 DEF MemberTypes, PhaseTypes, LengthTypes, LengthsKept
  <2>4. QED
    BY <1>3, <2>1, <2>3 DEF MemberTypes
<1>4. CASE T!SynchronizeCache
  <2>1. /\ T!Begin("SYNCHRONIZE_CACHE", 0, 0) /\ T!FlushCache /\ T!Ends("GOOD")
        /\ UNCHANGED <<drive, caching_mode, block_size, blocks, sector_size, sectors, content>>
    BY <1>4 DEF T!SynchronizeCache
  <2>2. stable' \in [T!Unit -> Nat] /\ faulty' \in BOOLEAN
    BY <2>1, FlushTypes DEF MemberTypes, DriveTypes
  <2>3. DriveTypes' /\ ContentTypes'
    BY <2>1, <2>2 DEF MemberTypes, DriveTypes, ContentTypes
  <2>4. QED
    BY <1>3, <2>1, <2>3
<1>5. ASSUME NEW size \in Sizes, NEW p \in BOOLEAN, T!ModeSelect(size, p)
      PROVE  MemberTypes'
  <2>1. /\ T!Begin("MODE_SELECT", 0, 0) /\ block_size' = size
        /\ T!Ends("GOOD") \/ T!Ends("INVALID_FIELD")
        /\ UNCHANGED <<blocks, sector_size, sectors, stable, faulty, drive, caching_mode, content>>
    BY <1>5 DEF T!ModeSelect, T!ChangeBlockSize
  <2>2. size \in Nat \ {0}
    BY WidthBounds
  <2>3. DriveTypes' /\ ContentTypes'
    BY <2>1, <2>2 DEF MemberTypes, DriveTypes, ContentTypes
  <2>4. QED
    BY <1>3, <2>1, <2>3
<1>6. CASE T!ReadCapacity
  <2>1. T!Begin("READ_CAPACITY", 0, 0) /\ UNCHANGED T!medium
    BY <1>6 DEF T!ReadCapacity
  <2>2. DriveTypes' /\ ContentTypes'
    BY <2>1 DEF MemberTypes, DriveTypes, ContentTypes, T!medium
  <2>3. CASE T!Ends("NOT_READY") \/ T!Ends("INVALID_FIELD")
    BY <1>3, <2>1, <2>2, <2>3
  <2>4. CASE /\ phase' = "DATA_IN" /\ status' = "GOOD" /\ UNCHANGED next_sector
             /\ remaining_length' = 2 /\ chunk_size' = 2 /\ current_length' = 2
    <3>1. commands' \in 0..MaxCommands /\ sent' \in Nat
      BY <2>1, BeginTypes DEF MemberTypes
    <3>2. 2 \in -W32..W32
      BY WidthBounds
    <3>3. PhaseTypes' /\ LengthTypes' /\ LengthsKept'
      BY <2>4, <3>2 DEF MemberTypes, PhaseTypes, LengthTypes, LengthsKept
    <3>4. QED
      BY <2>2, <3>1, <3>3 DEF MemberTypes
  <2>5. QED
    BY <1>6, <2>3, <2>4 DEF T!ReadCapacity
<1>7. CASE T!BreakOff
  <2>1. /\ phase' = "FREE" /\ status' = "NONE" /\ UNCHANGED <<T!medium, commands, sent>>
        /\ UNCHANGED <<next_sector, remaining_length, chunk_size, current_length>>
    BY <1>7 DEF T!BreakOff, T!transfer, T!history
  <2>2. DriveTypes' /\ ContentTypes' /\ PhaseTypes' /\ LengthTypes' /\ LengthsKept'
    BY <2>1 DEF MemberTypes, DriveTypes, ContentTypes, PhaseTypes, LengthTypes, LengthsKept, T!medium
  <2>3. QED
    BY <2>1, <2>2 DEF MemberTypes
<1>8. QED
  BY <1>1, <1>2, <1>4, <1>5, <1>6, <1>7, SendTypes, ReceiveTypes DEF T!Next

\* The types of the parts, as far as their invariants do not have them.
MembersInv ==
  /\ part = "TRANSFER" => MemberTypes
  /\ part = "HOST" => HostMembers
  /\ part = "PRINTER" => PrinterMembers
  /\ part = "NETWORK" => NetworkMembers
  /\ part = "GENERIC" => GenericMembers

PartsInv ==
  /\ TransferInv /\ HostInv /\ PrinterInv /\ NetworkInv /\ GenericInv /\ ExecSafe /\ ModeInv /\ CopiesInv

\* The types hold in the initial states of every part.
LEMMA MembersInitially == Init => MembersInv
<1>1. T!Init => MemberTypes
  <2>1. ASSUME T!Init
        PROVE  MemberTypes
    <3> DEFINE q == T!BlocksOf(DefaultSize)
    <3>1. q \in Nat /\ DefaultSize \in Nat \ {0}
      BY WholeBlocks, WidthBounds, DevicesAssumption
    <3> HIDE DEF q
    <3>2. DriveTypes
      <4>1. drive \in [type : {"HD", "CD"}, ready : BOOLEAN, protected : BOOLEAN]
        <5>1. CASE \E r, p \in BOOLEAN : drive = [type |-> "HD", ready |-> r, protected |-> p]
          <6>1. PICK r \in BOOLEAN, p \in BOOLEAN : drive = [type |-> "HD", ready |-> r, protected |-> p]
            BY <5>1
          <6>2. QED
            BY <6>1
        <5>2. CASE drive = [type |-> "CD", ready |-> TRUE, protected |-> TRUE]
          <6>1. TRUE \in BOOLEAN
            OBVIOUS
          <6>2. QED
            BY <5>2, <6>1
        <5>3. QED
          BY <2>1, <5>1, <5>2 DEF T!Init
      <4>2. /\ caching_mode \in T!Mode /\ block_size = DefaultSize /\ sector_size = DefaultSize
            /\ blocks = q /\ sectors = q /\ faulty = FALSE
        BY <2>1 DEF T!Init, q
      <4>3. QED
        BY <3>1, <4>1, <4>2 DEF DriveTypes
    <3>3. ContentTypes
      <4>1. content = [u \in T!Unit |-> u] /\ stable = content
        BY <2>1 DEF T!Init
      <4>2. T!Unit \subseteq Nat
        BY WidthBounds DEF T!Unit
      <4>3. QED
        BY <4>1, <4>2 DEF ContentTypes
    <3>4. /\ phase = "FREE" /\ status = "NONE" /\ next_sector = 0 /\ remaining_length = 0
          /\ chunk_size = 0 /\ current_length = 0 /\ sent = 0 /\ commands = 0
      BY <2>1 DEF T!Init
    <3>5. 0 \in -W32..W32 /\ 0 \in 0..W64 - 1 /\ 0 \in 0..MaxCommands
      BY WidthBounds
    <3>6. PhaseTypes /\ LengthTypes /\ LengthsKept
      BY <3>4, <3>5 DEF PhaseTypes, LengthTypes, LengthsKept
    <3>7. QED
      BY <3>2, <3>3, <3>4, <3>5, <3>6 DEF MemberTypes
  <2>2. QED
    BY <2>1
<1>2. H!Init => HostMembers
  <2>1. 0 \in 0..MaxOperations
    BY MaxNumbers
  <2>2. QED
    BY <2>1 DEF H!Init, H!None, H!Formats, HostMembers, H!TypeOK
<1>3. P!Init => PrinterMembers
  <2>1. 0 \in 0..MaxPrints
    BY MaxNumbers
  <2>2. QED
    BY <2>1 DEF P!Init, P!NoFile, PrinterMembers, P!TypeOK
<1>4. N!Init => NetworkMembers
  <2>1. 0 \in 0..MaxPackets /\ 0 \in 0..MaxMessages
    BY MaxNumbers
  <2>2. ASSUME N!Init
        PROVE  NetworkMembers
    <3>1. /\ stops_on_error \in BOOLEAN /\ attached = "NEW" /\ arrived = 0 /\ messages = 0
          /\ net_phase = "FREE" /\ net_status = "NONE" /\ pending = FALSE
          /\ response = [packet |-> 0, more |-> FALSE]
      BY <2>2 DEF N!Init
    <3>2. FALSE \in BOOLEAN
      OBVIOUS
    <3>3. response \in [packet : 0..MaxPackets, more : BOOLEAN]
      BY <2>1, <3>1, <3>2
    <3>4. QED
      BY <2>1, <3>1, <3>2, <3>3 DEF NetworkMembers
  <2>3. QED
    BY <2>2
<1>5. G!Init => GenericMembers
  <2>1. ASSUME G!Init
        PROVE  GenericMembers
    <3>1. real.size \in RealSizes
      BY <2>1 DEF G!Init
    <3>2. 0 \in 0..MaxGeneric
      BY MaxNumbers
    <3>3. generic_block_size \in RealSizes \cup {DefaultBlock}
      BY <2>1, <3>1 DEF G!Init
    <3>4. /\ pads \in BOOLEAN /\ gen_phase = "FREE" /\ gen_status = "NONE" /\ broken = FALSE
          /\ deferred_sense = 0 /\ format_header = 0 /\ sense = 0 /\ failed = 0 /\ number = 0
          /\ byte_count = 0 /\ remaining_count = 0 /\ remaining = 0 /\ chunk = 0 /\ current = 0
      BY <2>1 DEF G!Init
    <3>5. {pads, broken} \subseteq BOOLEAN
      BY <3>4
    <3>6. /\ {deferred_sense, format_header, sense, failed, number} \subseteq 0..MaxGeneric
          /\ {byte_count, remaining_count, remaining, chunk, current} \subseteq Nat
          /\ chunk <= remaining
      BY <3>2, <3>4
    <3>7. QED
      BY <3>1, <3>3, <3>4, <3>5, <3>6 DEF GenericMembers, G!TypeOK
  <2>2. QED
    BY <2>1
<1>6. QED
  BY <1>1, <1>2, <1>3, <1>4, <1>5 DEF Init, MembersInv

\* Every step of every part keeps the types.
LEMMA MembersInvKept == PartsInv /\ MembersInv /\ [Next]_vars => MembersInv'
<1> SUFFICES ASSUME PartsInv, MembersInv, [Next]_vars
             PROVE  MembersInv'
  OBVIOUS
<1>1. part' = "TRANSFER" => MemberTypes'
  <2>1. ASSUME part = "TRANSFER", UNCHANGED transfer_vars
        PROVE  MemberTypes'
    BY <2>1
       DEF transfer_vars, MembersInv, MemberTypes, DriveTypes, ContentTypes, PhaseTypes, LengthTypes,
           LengthsKept
  <2>2. ASSUME part = "TRANSFER", T!Next
        PROVE  MemberTypes'
    BY <2>2, TransferMembersStep DEF PartsInv, TransferInv, MembersInv
  <2>3. QED
    BY <2>1, <2>2, OtherThanTransfer
<1>2. part' = "HOST" => HostMembers'
  <2>1. ASSUME part = "HOST", UNCHANGED host_vars
        PROVE  HostMembers'
    BY <2>1 DEF host_vars, MembersInv, HostMembers, H!TypeOK
  <2>2. ASSUME part = "HOST", H!Next
        PROVE  HostMembers'
    BY <2>2, HostMembersStep DEF PartsInv, HostInv, MembersInv
  <2>3. QED
    BY <2>1, <2>2, OtherThanHost
<1>3. part' = "PRINTER" => PrinterMembers'
  <2>1. ASSUME part = "PRINTER", UNCHANGED printer_vars
        PROVE  PrinterMembers'
    BY <2>1 DEF printer_vars, MembersInv, PrinterMembers, P!TypeOK
  <2>2. ASSUME part = "PRINTER", P!Next
        PROVE  PrinterMembers'
    BY <2>2, PrinterMembersStep DEF PartsInv, PrinterInv, MembersInv
  <2>3. QED
    BY <2>1, <2>2, OtherThanPrinter
<1>4. part' = "NETWORK" => NetworkMembers'
  <2>1. ASSUME part = "NETWORK", UNCHANGED net_vars
        PROVE  NetworkMembers'
    BY <2>1 DEF net_vars, MembersInv, NetworkMembers
  <2>2. ASSUME part = "NETWORK", N!Next
        PROVE  NetworkMembers'
    BY <2>2, NetworkMembersStep DEF PartsInv, NetworkInv, MembersInv
  <2>3. QED
    BY <2>1, <2>2, OtherThanNetwork
<1>5. part' = "GENERIC" => GenericMembers'
  <2>1. ASSUME part = "GENERIC", UNCHANGED generic_vars
        PROVE  GenericMembers'
    BY <2>1 DEF generic_vars, MembersInv, GenericMembers, G!TypeOK
  <2>2. ASSUME part = "GENERIC", G!Next
        PROVE  GenericMembers'
    BY <2>2, GenericMembersStep DEF PartsInv, GenericInv, MembersInv
  <2>3. QED
    BY <2>1, <2>2, OtherThanGeneric
<1>6. QED
  BY <1>1, <1>2, <1>3, <1>4, <1>5 DEF MembersInv

\* The members of every device and tool are what they may be, and its numbers within their widths,
\* whatever a host, the network or a user does and wherever it stops.
THEOREM TypesAreKept == Spec => []TypeOK
<1>1. Init => PartsInv /\ MembersInv
  <2>1. Init => PartsInv
    BY DevicesAssumption, TransferInitially, HostInitially, PrinterInitially, NetworkInitially,
       GenericInitially, ExecInitially, ModeInitially, TapeInitially, DiskInitially, SimhInitially,
       ConfigInitially, FoundInvInitially
       DEF PartsInv, CopiesInv
  <2>2. QED
    BY <2>1, MembersInitially
<1>2. PartsInv /\ MembersInv /\ [Next]_vars => (PartsInv /\ MembersInv)'
  <2>1. PartsInv /\ [Next]_vars => PartsInv'
    BY DevicesAssumption, TransferInvKept, HostInvKept, PrinterInvKept, NetworkInvKept, GenericInvKept,
       ExecInvKept, ModeStep, TapeStep, DiskStep, SimhStep, ConfigInvKept, FoundKept
       DEF PartsInv, CopiesInv
  <2>2. QED
    BY <2>1, MembersInvKept
<1>3. PartsInv /\ MembersInv => TypeOK
  <2>1. ASSUME PartsInv, MembersInv
        PROVE  TypeOK
    <3>1. part = "TRANSFER" => T!TypeOK
      BY <2>1, MembersAreTyped DEF MembersInv, TransferMembers
    <3>2. part = "HOST" => H!TypeOK
      BY <2>1 DEF MembersInv, HostMembers
    <3>3. part = "PRINTER" => P!TypeOK
      BY <2>1 DEF MembersInv, PrinterMembers
    <3>4. part = "NETWORK" => N!TypeOK
      BY <2>1 DEF PartsInv, NetworkInv, BridgeKept, MembersInv, NetworkMembers, N!TypeOK
    <3>5. part = "GENERIC" => G!TypeOK
      BY <2>1 DEF MembersInv, GenericMembers
    <3>6. part = "EXEC" => X!TypeOK
      BY <2>1 DEF PartsInv, ExecSafe, ExecInv, ExecTypes
    <3>7. part = "MODE" => M!TypeOK
      BY <2>1 DEF PartsInv, ModeInv, ModeTypes
    <3>8. TapeInv /\ DiskInv /\ SimhInv /\ ConfigInv /\ FoundInv
      BY <2>1 DEF PartsInv, CopiesInv
    <3>9. /\ part = "TAPE" => E!TypeOK
          /\ part = "DISK" => D!TypeOK
          /\ part = "SIMH" => S!TypeOK
      BY <3>8, DevicesAssumption, TapeCopies, DiskCopies, SimhCopies
    <3>10. part = "CONFIG" => C!TypeOK
      BY <3>8, ConfigurationTypes DEF ConfigInv, FoundInv
    <3>11. QED
      BY <3>1, <3>2, <3>3, <3>4, <3>5, <3>6, <3>7, <3>9, <3>10 DEF TypeOK
  <2>2. QED
    BY <2>1
<1>4. QED
  BY <1>1, <1>2, <1>3, PTL DEF Spec
=============================================================================
