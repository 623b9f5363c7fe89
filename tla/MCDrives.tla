------------------------------- MODULE MCDrives -------------------------------
(* Drives for TLC: a drive with removable media and a fixed one, or two      *)
(* drives with removable media.                                             *)
EXTENDS Drives, TLC

CONSTANTS d1, d2

OpticalAndFixed == d1 :> "mo" @@ d2 :> "hd"
TwoRemovables == d1 :> "scrm" @@ d2 :> "scrm"
===============================================================================
