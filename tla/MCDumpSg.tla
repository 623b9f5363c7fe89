------------------------------ MODULE MCDumpSg ------------------------------
(***************************************************************************)
(* A drive dumped by s2pdump with the SG driver.                           *)
(***************************************************************************)
EXTENDS DumpDisk

Dumps ==
  [driver : {"SG"}, restore : {FALSE}, sasi : {FALSE}, sector_size : {2, 3}, buffer : {6, 12},
   start : {0, 1, 4}, count : {0, 2}, image : {7}]

Spec == Init /\ [][Next]_diskVars
=============================================================================
