------------------------------ MODULE MCExecutor ------------------------------
(* Executor for TLC: an ID with two LUNs, and another with one; two image     *)
(* files, which are interchangeable; drives with the default names of an      *)
(* Apple drive, whose product is short enough for a vendor, of a removable    *)
(* drive and of a DaynaPort, whose products are not; commands that give no    *)
(* name or a vendor that is too long.                                         *)
EXTENDS Executor

Slots == {<<0, 0>>, <<0, 1>>, <<1, 0>>}
Symmetry == Permutations(File)

Names == {"SCSI2Pi", "QUANTUM", "Dayna", "FIREBALL", "SCSI HD (REM.)", "SCSI/Link"}
Lengths == "SCSI2Pi" :> 7 @@ "QUANTUM" :> 7 @@ "Dayna" :> 5
             @@ "FIREBALL" :> 8 @@ "SCSI HD (REM.)" :> 14 @@ "SCSI/Link" :> 9
Named(v, p) == [vendor |-> v, product |-> p]
Defaults == "SCHD" :> Named("QUANTUM", "FIREBALL")
              @@ "SCRM" :> Named("SCSI2Pi", "SCSI HD (REM.)")
              @@ "SCDP" :> Named("Dayna", "SCSI/Link")
SomeNames == {NoNames, Named("SCSI/Link", NoName)}
===============================================================================
