------------------------------ MODULE MCDiskCache ------------------------------
(* DiskCache for TLC: three one-sector tracks, two slots and two values, so   *)
(* that a miss evicts one of two candidates, sectors differ from the file and *)
(* the serial number wraps.                                                   *)
EXTENDS DiskCache
===============================================================================
