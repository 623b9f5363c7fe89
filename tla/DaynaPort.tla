----------------------------- MODULE DaynaPort -----------------------------
(***************************************************************************)
(* The DaynaPort network adapter (devices/daynaport.cpp) with its TAP      *)
(* interface: packets from the network wait in the interface until GET     *)
(* MESSAGE fetches them one by one, SEND MESSAGE sends one.  A packet from *)
(* the network is known by its number, one to the network by the number of *)
(* its command.                                                            *)
(***************************************************************************)
EXTENDS TapDriver

CONSTANTS MaxPackets,    \* packets that arrive
          MaxMessages    \* commands

VARIABLES
  stops_on_error,  \* is the build one in which a device without an interface is not attached?
  attached,
  queue,           \* packets that wait in the interface
  arrived,         \* number of packets that came
  net_phase, net_status,
  message,         \* the command: [op, format, fits]
  messages,        \* number of commands
  response,        \* of GET MESSAGE: [packet, more], packet 0 if there is none
  pending,         \* history: the more flag the host has last seen, if nothing was flushed since
  read_packets,    \* history: what GET MESSAGE has fetched
  frames,          \* history: what was written to the interface, [message, exact]
  accepted_frames  \* history: SEND MESSAGE commands that carried a whole packet and ended with GOOD

netVars == <<stops_on_error, attached, queue, arrived, net_phase, net_status, message, messages,
             response, pending, read_packets, frames, accepted_frames, tapVars>>
counts == <<arrived, stops_on_error>>
heard == <<queue, response, pending, read_packets>>
said == <<frames, accepted_frames>>

TypeOK ==
  /\ TapTypeOK
  /\ stops_on_error \in BOOLEAN /\ attached \in {"NEW", "ATTACHED", "REFUSED", "DETACHED"}
  /\ arrived \in 0..MaxPackets /\ messages \in 0..MaxMessages
  /\ net_phase \in {"FREE", "DATA_IN", "DATA_OUT"}
  /\ net_status \in {"GOOD", "INVALID_FIELD", "ABORTED_COMMAND", "INTERNAL_TARGET_FAILURE", "NONE"}
  /\ response \in [packet : 0..MaxPackets, more : BOOLEAN] /\ pending \in BOOLEAN

Init ==
  /\ TapInit
  /\ stops_on_error \in BOOLEAN /\ attached = "NEW"
  /\ queue = <<>> /\ arrived = 0 /\ net_phase = "FREE" /\ net_status = "NONE"
  /\ message = [op |-> "NONE", format |-> "RAW", fits |-> TRUE] /\ messages = 0
  /\ response = [packet |-> 0, more |-> FALSE] /\ pending = FALSE
  /\ read_packets = <<>> /\ frames = <<>> /\ accepted_frames = <<>>

-----------------------------------------------------------------------------
\* SetUp(): a device that fails is dropped without CleanUp(), except on a PC.
SetUp ==
  /\ attached = "NEW"
  /\ \E bridged \in BOOLEAN : \E n \in 0..Len(Steps(bridged)) :
       /\ Setup(bridged, n)
       /\ attached' = IF n < Len(Steps(bridged)) /\ stops_on_error THEN "REFUSED" ELSE "ATTACHED"
  /\ UNCHANGED <<counts, heard, said, net_phase, net_status, message, messages>>

\* CleanUp(): the device is detached.
CleanUp ==
  /\ attached = "ATTACHED" /\ net_phase = "FREE"
  /\ \E failed \in SUBSET {"SOCKET", "BRIDGE_DOWN", "DELBR"} : Teardown(failed)
  /\ attached' = "DETACHED" /\ queue' = <<>>
  /\ UNCHANGED <<counts, response, pending, read_packets, said, net_phase, net_status, message, messages>>

\* The network: a packet arrives when the link is up.
Arrive ==
  /\ tap_fd = "OPEN" /\ network.link /\ arrived < MaxPackets
  /\ arrived' = arrived + 1 /\ queue' = Append(queue, arrived + 1)
  /\ UNCHANGED <<stops_on_error, attached, response, pending, read_packets, said, net_phase,
                 net_status, message, messages, tapVars>>

-----------------------------------------------------------------------------
Begin(m) ==
  /\ attached = "ATTACHED" /\ net_phase = "FREE" /\ messages < MaxMessages
  /\ messages' = messages + 1 /\ message' = m
  /\ UNCHANGED <<counts, attached>>

Message(op) == [op |-> op, format |-> "RAW", fits |-> TRUE]
Ends(s) == net_phase' = "FREE" /\ net_status' = s

HasPendingPackets(q) == tap_fd = "OPEN" /\ q # <<>>

\* Receive(): what it may return, and the packets that then wait: a packet that waits is taken, or
\* reading it fails.
Receive ==
  IF HasPendingPackets(queue)
  THEN {[packet |-> Head(queue), left |-> Tail(queue)]} \cup [packet : {0}, left : {queue, Tail(queue)}]
  ELSE {[packet |-> 0, left |-> queue]}

\* Is there another packet behind this one?
More(packet, q) == packet # 0 /\ HasPendingPackets(q)

\* GetMessage6(): a length that ends in 1 is the read of a root sector, which has no data; otherwise
\* the packet and whether there are more.
GetMessage(root, valid) ==
  /\ Begin(Message("GET_MESSAGE"))
  /\ IF ~valid THEN Ends("INVALID_FIELD") /\ UNCHANGED <<queue, response>>
     ELSE IF root THEN Ends("GOOD") /\ UNCHANGED <<queue, response>>
     ELSE \E r \in Receive :
            /\ queue' = r.left
            /\ response' = [packet |-> r.packet, more |-> More(r.packet, r.left)]
            /\ net_phase' = "DATA_IN" /\ net_status' = "GOOD"
  /\ UNCHANGED <<pending, read_packets, said, tapVars>>

\* The packet reaches the host, or the transfer breaks off and the packet is lost.
Deliver ==
  /\ net_phase = "DATA_IN" /\ net_phase' = "FREE"
  /\ \/ /\ pending' = response.more
        /\ read_packets' = IF response.packet = 0 THEN read_packets ELSE Append(read_packets, response.packet)
        /\ UNCHANGED net_status
     \/ net_status' = "NONE" /\ pending' = FALSE /\ UNCHANGED read_packets
  /\ UNCHANGED <<counts, attached, queue, response, said, message, messages, tapVars>>

\* SendMessage6(): the packet as it is ("RAW"), behind its length ("SIZED"), or another format,
\* which has no data.  fits: is a length in the data that of the packet?
SendMessage(format, fits) ==
  /\ Begin([op |-> "SEND_MESSAGE", format |-> format, fits |-> fits])
  /\ IF format = "OTHER" THEN Ends("INVALID_FIELD") ELSE net_phase' = "DATA_OUT" /\ net_status' = "GOOD"
  /\ UNCHANGED <<heard, said, tapVars>>

\* SET MAC ADDRESS and SET MULTICAST ADDRESS: a DATA OUT phase without a transfer size.
SetAddress ==
  /\ Begin(Message("SET_ADDRESS"))
  /\ net_phase' = "DATA_OUT" /\ net_status' = "GOOD"
  /\ UNCHANGED <<heard, said, tapVars>>

\* WriteData(): a packet without a length goes out with all of the controller's buffer; nobody looks
\* at the result.  For any other command there is nothing that takes the data.
WriteData ==
  /\ net_phase = "DATA_OUT"
  /\ IF message.op # "SEND_MESSAGE" THEN Ends("ABORTED_COMMAND") /\ UNCHANGED said
     ELSE /\ Ends("GOOD")
          /\ LET exact == message.format = "SIZED" /\ message.fits IN
             /\ accepted_frames' = IF exact THEN Append(accepted_frames, messages) ELSE accepted_frames
             /\ frames' = IF tap_fd = "OPEN" /\ network.link
                          THEN Append(frames, [message |-> messages, exact |-> exact]) ELSE frames
  /\ UNCHANGED <<counts, attached, heard, message, messages, tapVars>>

BreakOff ==
  /\ net_phase = "DATA_OUT" /\ Ends("NONE")
  /\ UNCHANGED <<counts, attached, heard, said, message, messages, tapVars>>

\* SET INTERFACE MODE and RETRIEVE STATS change nothing.
NoEffect ==
  /\ Begin(Message("OTHER")) /\ Ends("GOOD")
  /\ UNCHANGED <<heard, said, tapVars>>

\* EnableInterface(): the link, and with "up" the packets that wait are dropped.
EnableInterface(up) ==
  /\ Begin(Message(IF up THEN "ENABLE" ELSE "DISABLE"))
  /\ \/ Ends("INTERNAL_TARGET_FAILURE") /\ UNCHANGED <<queue, pending, network>>
     \/ /\ tap_fd = "OPEN" /\ Ends("GOOD")
        /\ network' = [network EXCEPT !.link = up]
        /\ queue' = IF up THEN <<>> ELSE queue
        /\ pending' = (pending /\ ~up)
  /\ UNCHANGED <<response, read_packets, said, tap_fd, bridge_created, found, untidy>>

Next ==
  \/ SetUp \/ CleanUp \/ Arrive
  \/ \E r, v \in BOOLEAN : GetMessage(r, v)
  \/ \E f \in {"RAW", "SIZED", "OTHER"}, fits \in BOOLEAN : SendMessage(f, fits)
  \/ Deliver \/ SetAddress \/ WriteData \/ BreakOff \/ NoEffect
  \/ \E up \in BOOLEAN : EnableInterface(up)

-----------------------------------------------------------------------------
\* The host reads packets at most once and in the order in which they came, and as long as it has been
\* told that there are more, one waits; a packet it sends behind its length goes out as it is, in
\* order and once (daynaport.cpp:134-298, tap_driver.cpp:322-386).
PacketsInOrder ==
  /\ \A i, j \in 1..Len(read_packets) : i < j => read_packets[i] < read_packets[j]
  /\ \A k \in 1..Len(queue) : \A i \in 1..Len(read_packets) : read_packets[i] < queue[k]
  /\ pending /\ net_phase = "FREE" /\ attached = "ATTACHED" => queue # <<>>
  /\ \A i \in 1..Len(frames) : frames[i].exact =>
       /\ \E k \in 1..Len(accepted_frames) : accepted_frames[k] = frames[i].message
       /\ \A j \in 1..i - 1 : frames[j].exact => frames[j].message < frames[i].message

\* A bridge that was there before is left as it was.  One that SetUp() created is gone once the device
\* has been detached, whatever failed in SetUp(), unless the bridge itself could only be half created
\* or removed; and without the device there is no interface (tap_driver.cpp:33-182).
NetworkRestored ==
  /\ found = "MANUAL" => network.bridge = "MANUAL" /\ network.up /\ "eth0" \in network.members
  /\ attached = "DETACHED" /\ ~untidy => network.bridge = found
  /\ attached \in {"REFUSED", "DETACHED"} => ~network.link /\ ~network.address /\ tap_fd # "OPEN"
=============================================================================
