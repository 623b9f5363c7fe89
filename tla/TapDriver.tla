----------------------------- MODULE TapDriver -----------------------------
(***************************************************************************)
(* The TAP network interface of a DaynaPort (devices/tap_driver.cpp) and   *)
(* the operating system's network as far as it is changed: the interface   *)
(* piscsi0, which exists as long as its file descriptor is open, and the   *)
(* bridge piscsi_bridge, which stays.  Every system call may fail.         *)
(***************************************************************************)
EXTENDS Naturals, Sequences

VARIABLES
  tap_fd,          \* "NONE" (-1), "OPEN", or "STALE": a number whose file has been closed
  bridge_created,
  network,         \* [bridge: "NONE" | "MANUAL" | "CREATED", members, up, link, address]
  found,           \* history: the bridge before Init()
  untidy           \* history: has creating or removing the bridge failed half-way?

tapVars == <<tap_fd, bridge_created, network, found, untidy>>

Bridges == {"NONE", "MANUAL", "CREATED"}

TapTypeOK ==
  /\ tap_fd \in {"NONE", "OPEN", "STALE"} /\ bridge_created \in BOOLEAN
  /\ network \in [bridge : Bridges, members : SUBSET {"eth0", "piscsi0"}, up : BOOLEAN,
                  link : BOOLEAN, address : BOOLEAN]
  /\ found \in Bridges /\ untidy \in BOOLEAN

TapInit ==
  /\ tap_fd = "NONE" /\ bridge_created = FALSE
  /\ network \in {[bridge |-> b, members |-> IF b = "MANUAL" THEN {"eth0"} ELSE {},
                   up |-> b = "MANUAL", link |-> FALSE, address |-> FALSE] : b \in {"NONE", "MANUAL"}}
  /\ found = network.bridge /\ untidy = FALSE

\* The steps of Init() that may fail, in their order, with a bridge or without: the choice of an
\* interface, the TAP device, its name, a socket, the link, ...
Common == <<"INTERFACE", "OPEN", "TUNSETIFF", "SOCKET", "LINK">>
Create == <<"ADDBR", "ADDIF_ETH", "BRIDGE_UP">>          \* CreateBridge() without a bridge
\* As Steps(), with a bridge that is created although there is one.
StepsAlwaysCreate(bridged) ==
  IF ~bridged THEN Common \o <<"ADDRESS">> ELSE Common \o <<"BRIDGE_SOCKET">> \o Create \o <<"ADDIF_TAP">>

Steps(bridged) ==
  IF ~bridged THEN Common \o <<"ADDRESS">>
  ELSE Common \o <<"BRIDGE_SOCKET">>
         \o (IF network.bridge = "NONE" THEN Create ELSE <<>>) \o <<"ADDIF_TAP">>

\* Init(): the steps before the first one that fails have been done.  Every error closes the file,
\* which removes piscsi0, but only after the bridge is up does bridge_created say that it is there.
\* A physical interface gets a bridge unless the parameters forbid it; n: the steps that succeed.
Setup(bridged, n) ==
  LET steps == Steps(bridged)
      Done(step) == \E i \in 1..n : steps[i] = step
      complete == n = Len(steps)
  IN  /\ tap_fd' = IF complete THEN "OPEN" ELSE IF Done("OPEN") THEN "STALE" ELSE "NONE"
      /\ bridge_created' = Done("BRIDGE_UP")
      /\ network' = [bridge |-> IF Done("ADDBR") THEN "CREATED" ELSE network.bridge,
                     members |-> network.members
                                   \cup (IF Done("ADDIF_ETH") THEN {"eth0"} ELSE {})
                                   \cup (IF Done("ADDIF_TAP") THEN {"piscsi0"} ELSE {}),
                     up |-> network.up \/ Done("BRIDGE_UP"),
                     link |-> complete, address |-> complete /\ ~bridged]
      /\ untidy' = (Done("ADDBR") /\ ~Done("BRIDGE_UP"))
      /\ UNCHANGED found

\* CleanUp(): without the socket the bridge stays; a failure of the other calls is only logged.
\* Closing the file removes piscsi0, from the bridge too; the descriptor keeps its number.
Teardown(failed) ==
  IF tap_fd = "NONE" THEN UNCHANGED tapVars
  ELSE LET down == bridge_created /\ failed \cap {"SOCKET", "BRIDGE_DOWN"} = {}
           \* the kernel deletes a bridge only when it is down
           delbr == down /\ "DELBR" \notin failed
       IN  /\ tap_fd' = "STALE"
           /\ network' = [bridge |-> IF delbr THEN "NONE" ELSE network.bridge,
                          members |-> IF delbr THEN {} ELSE network.members \ {"piscsi0"},
                          up |-> network.up /\ ~down, link |-> FALSE, address |-> FALSE]
           /\ untidy' = (untidy \/ (bridge_created /\ ~delbr))
           /\ UNCHANGED <<bridge_created, found>>
=============================================================================
