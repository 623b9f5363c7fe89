---------------------------- MODULE TargetProtocol ----------------------------
(***************************************************************************)
(* What an initiator may rely on when it talks to a target, without phases,*)
(* lengths or error paths: a connection is selected, accepts commands one  *)
(* at a time, answers each command with exactly one status byte and one    *)
(* completion message after it, and goes on to another command after a     *)
(* linked one, and only then.  A bus reset may end everything at any time. *)
(* Two weak spots are part of it.  A reset may leave the link of a command *)
(* behind, which a later command of which the target knows nothing gets.   *)
(* And the target may let go of the bus at two points and go on            *)
(* nevertheless.  Controller is shown to implement this module.            *)
(***************************************************************************)
VARIABLES stage,   \* how far the connection is
          link,    \* was the command linked, or is there a link left over from before a reset?
          chained, \* was the status to be sent, or just sent, INTERMEDIATE?
          held     \* does the target assert BSY?

pvars == <<stage, link, chained, held>>

Stage == {"free", "broken", "connected", "command", "data", "due", "sent", "completing"}

ProtocolTypeOK ==
  /\ stage \in Stage /\ link \in {"none", "asked", "left"}
  /\ chained \in BOOLEAN /\ held \in BOOLEAN

ProtocolInit == stage = "free" /\ link = "none" /\ chained = FALSE /\ held = FALSE

Connect ==
  /\ stage \in {"free", "broken"}
  /\ stage' = "connected" /\ held' = TRUE
  /\ UNCHANGED <<link, chained>>

\* After a message that aborts the connection the bus has been freed.
ExpectCommand ==
  /\ stage = "connected"
  /\ stage' = "command" /\ held' \in {held, FALSE}
  /\ UNCHANGED <<link, chained>>

\* The control byte of the command tells whether it is linked.  A REQUEST SENSE during
\* a reset goes on with the bus freed.
Decode == link' \in {"none", "asked"} /\ held' \in {held, FALSE}

Transfer == stage = "command" /\ stage' = "data" /\ Decode /\ UNCHANGED chained

\* The command has been carried out, or has failed: its status is due.  Only a linked
\* command ends with INTERMEDIATE.
Answer ==
  /\ \/ stage = "command" /\ Decode
     \/ stage = "data" /\ UNCHANGED <<link, held>>
  /\ stage' = "due"
  /\ chained' \in {FALSE, link' = "asked"}

\* A command the target does not know has no control byte: a link left over stays.
Reject == stage = "command" /\ stage' = "due" /\ chained' = FALSE /\ UNCHANGED <<link, held>>

SendStatus == stage = "due" /\ stage' = "sent" /\ UNCHANGED <<link, chained, held>>

Complete == stage = "sent" /\ stage' = "completing" /\ UNCHANGED <<link, chained, held>>

NextCommand ==
  /\ stage = "completing" /\ link # "none"
  /\ stage' = "command" /\ link' = "none" /\ chained' = FALSE
  /\ UNCHANGED held

Disconnect ==
  /\ stage = "completing" /\ link = "none"
  /\ stage' = "free" /\ held' = FALSE
  /\ UNCHANGED <<link, chained>>

\* A bus reset, or the target giving up on the initiator.
Break ==
  /\ stage # "free"
  /\ stage' = "broken" /\ held' = FALSE /\ chained' = FALSE
  /\ \/ link' = "none"
     \/ (stage = "command" \/ link # "none") /\ link' = "left"

ProtocolNext ==
  \/ Connect \/ ExpectCommand \/ Transfer \/ Answer \/ Reject \/ SendStatus \/ Complete
  \/ NextCommand \/ Disconnect \/ Break

ProtocolSpec == ProtocolInit /\ [][ProtocolNext]_pvars
===============================================================================
