---------------------------- MODULE MCController ----------------------------
(***************************************************************************)
(* Instances of Controller: the commands initiators send in each run.      *)
(***************************************************************************)
EXTENDS Controller

Plain(o, l, n) == [op |-> o, lun |-> l, link |-> FALSE, flag |-> FALSE, len |-> n]
Linked(o, l, n, f) == [op |-> o, lun |-> l, link |-> TRUE, flag |-> f, len |-> n]

\* Two LUNs and a missing one: linked commands, data in and out in two chunks,
\* commands the controller or the device rejects, and their sense data.
LinkedCdbs ==
  {Plain("REQUEST_SENSE", l, 1) : l \in {0, 2}}
    \cup {Plain("READ", 1, 2), Plain("WRITE", 0, 2), Plain("INQUIRY", 2, 1), Plain("READ", 0, 0),
          Plain("UNSUPPORTED", 0, 0), Plain("TEST_UNIT_READY", 0, 0),
          Linked("READ", 0, 1, FALSE), Linked("WRITE", 2, 1, TRUE), Linked("REQUEST_SENSE", 1, 1, TRUE),
          [op |-> "INQUIRY", lun |-> 0, link |-> FALSE, flag |-> TRUE, len |-> 1]}

\* One LUN and a missing one: the same, less what only the sense data depend on, and
\* initiators that reserve and release.
HostCdbs ==
  {Plain("RESERVE", 0, 0), Plain("RELEASE", 0, 0), Plain("READ", 0, 2), Plain("WRITE", 0, 2),
   Plain("REQUEST_SENSE", 1, 1), Plain("REQUEST_SENSE", 0, 1), Plain("UNSUPPORTED", 0, 0),
   Linked("RESERVE", 0, 0, FALSE), Linked("WRITE", 1, 1, TRUE), Linked("REQUEST_SENSE", 1, 1, TRUE),
   [op |-> "INQUIRY", lun |-> 1, link |-> FALSE, flag |-> TRUE, len |-> 1]}
=============================================================================
